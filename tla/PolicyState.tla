---------------------------- MODULE PolicyState ----------------------------
(***************************************************************************)
(* PolicyState of rog-core/src/policy.rs as operators on a record: when a  *)
(* power source and a battery level have been observed long enough to      *)
(* select a preset.  An observation returns [policy, action].              *)
(*                                                                         *)
(* last_apply_at_ms and last_power_source are left out: nothing reads      *)
(* them.  The *_since_ms fields are 0 where the code has None; they are    *)
(* only read next to a candidate.                                          *)
(***************************************************************************)
EXTENDS Integers, PowerSource

CONSTANT Dwell  \* PolicyConfig.debounce_ms

ASSUME PolicyAssumption == Dwell \in Nat \ {0}

Presets == {"Ac", "Battery", "Recovery"}
NoPreset == "NoPreset"
PresetOption == Presets \union {NoPreset}

\* A battery level in 0 .. 100, or None (also: not finite, out of range).
NoLevel == -1
Levels == 0 .. 100
LevelOption == Levels \union {NoLevel}

\* battery_rule: the thresholds the battery candidate was measured against.
Rules == [lower : Levels, upper : LevelOption]
NoRule == [lower |-> NoLevel, upper |-> NoLevel]

Policies ==
  [enabled : BOOLEAN, override : BOOLEAN,
   candidate : SourceOption, since : Nat, stable : SourceOption,
   active : PresetOption, pending : PresetOption,
   batteryCandidate : PresetOption, batterySince : Nat,
   rule : Rules \union {NoRule}]

NewPolicy ==
  [enabled |-> FALSE, override |-> FALSE,
   candidate |-> NoSource, since |-> 0, stable |-> NoSource,
   active |-> NoPreset, pending |-> NoPreset,
   batteryCandidate |-> NoPreset, batterySince |-> 0, rule |-> NoRule]

WithoutSourceCandidate(p) == [p EXCEPT !.candidate = NoSource, !.since = 0]
WithoutBatteryCandidate(p) ==
  [p EXCEPT !.batteryCandidate = NoPreset, !.batterySince = 0]
WithoutCandidates(p) == WithoutBatteryCandidate(WithoutSourceCandidate(p))
Unselected(p) ==
  [WithoutCandidates(p) EXCEPT !.stable = NoSource, !.active = NoPreset,
                               !.pending = NoPreset]

-----------------------------------------------------------------------------
SetEnabled(p, enabled) ==
  IF p.enabled = enabled THEN p ELSE [Unselected(p) EXCEPT !.enabled = enabled]

SetManualOverride(p, paused) ==
  IF p.override = paused THEN p
  ELSE [(IF paused THEN WithoutCandidates(p) ELSE Unselected(p))
          EXCEPT !.override = paused]

ResumePolicy(p) == [Unselected(p) EXCEPT !.override = FALSE]

(* Mutant: the source candidate survives a reconfiguration. *)
ResetKeepingCandidate(p) ==
  [WithoutBatteryCandidate(p) EXCEPT !.stable = NoSource, !.active = NoPreset,
                                     !.pending = NoPreset, !.rule = NoRule]

ResetForReconfiguration(p) == [Unselected(p) EXCEPT !.rule = NoRule]

-----------------------------------------------------------------------------
Quiet(p) == [policy |-> p, action |-> NoPreset]

(* The source became stable.  With a battery threshold the level decides.  *)
Stabilized(p, source, thresholdEnabled) ==
  LET selected == IF source = "Battery" /\ thresholdEnabled THEN NoPreset ELSE source
  IN  [policy |-> [WithoutCandidates(p) EXCEPT !.stable = source, !.pending = selected],
       action |-> selected]

ObservePowerSource(p, at, source, thresholdEnabled) ==
  CASE source = NoSource ->
         Quiet([WithoutCandidates(p) EXCEPT !.stable = NoSource, !.pending = NoPreset])
    [] source # NoSource /\ (~p.enabled \/ p.override) -> Quiet(p)
    [] source # NoSource /\ p.enabled /\ ~p.override ->
         IF p.stable = source THEN Quiet(WithoutSourceCandidate(p))
         ELSE IF p.candidate # source
              THEN Quiet([p EXCEPT !.candidate = source, !.since = at])
         ELSE IF at - p.since < Dwell THEN Quiet(p)
         ELSE Stabilized(p, source, thresholdEnabled)

(* What a level calls for under a rule, if the policy may act on it.       *)
BatteryTarget(p, level, rule, recoveryAvailable) ==
  IF ~p.enabled \/ p.override \/ p.stable # "Battery" \/ level = NoLevel THEN NoPreset
  ELSE IF level <= rule.lower THEN "Battery"
  ELSE IF rule.upper # NoLevel /\ level >= rule.upper /\ recoveryAvailable
       THEN "Recovery"
  ELSE NoPreset

UnderRule(p, rule) ==
  IF p.rule = rule THEN p
  ELSE [WithoutBatteryCandidate(p) EXCEPT !.rule = rule, !.pending = NoPreset]

(* Mutant: a level that calls for nothing leaves the candidate running. *)
ObserveBatteryThresholdLatched(p, at, level, rule, recoveryAvailable) ==
  LET q == UnderRule(p, rule)
      target == BatteryTarget(q, level, rule, recoveryAvailable)
  IN  IF target \in {NoPreset, q.active, q.pending} THEN Quiet(q)
      ELSE IF q.batteryCandidate # target
           THEN Quiet([q EXCEPT !.batteryCandidate = target, !.batterySince = at])
      ELSE IF at - q.batterySince < Dwell THEN Quiet(q)
      ELSE [policy |-> [WithoutBatteryCandidate(q) EXCEPT !.pending = target],
            action |-> target]

ObserveBatteryThreshold(p, at, level, rule, recoveryAvailable) ==
  LET q == UnderRule(p, rule)
      target == BatteryTarget(q, level, rule, recoveryAvailable)
  IN  IF target \in {NoPreset, q.active, q.pending} THEN Quiet(WithoutBatteryCandidate(q))
      ELSE IF q.batteryCandidate # target
           THEN Quiet([q EXCEPT !.batteryCandidate = target, !.batterySince = at])
      ELSE IF at - q.batterySince < Dwell THEN Quiet(q)
      ELSE [policy |-> [WithoutBatteryCandidate(q) EXCEPT !.pending = target],
            action |-> target]

=============================================================================
