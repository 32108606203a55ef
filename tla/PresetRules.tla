---------------------------- MODULE PresetRules ----------------------------
(***************************************************************************)
(* How a telemetry tick of rog-daemon/src/main.rs presents a sample to     *)
(* PolicyState under the saved automation preferences                      *)
(*   prefs = [enabled, override, rule],                                    *)
(* where prefs.rule holds the battery thresholds.  An ineligible sample    *)
(* and a raised freshness barrier both present "no source".                *)
(***************************************************************************)
EXTENDS PolicyState

\* validate_automation_preferences: a recovery preset needs a return
\* threshold, and that one a lower threshold below it.
ThresholdRules ==
  {r \in [lower : LevelOption, upper : LevelOption, recovery : BOOLEAN] :
     /\ r.lower # 0
     /\ r.recovery => r.upper # NoLevel
     /\ r.upper # NoLevel => r.lower # NoLevel /\ r.lower < r.upper}

NoThresholds == [lower |-> NoLevel, upper |-> NoLevel, recovery |-> FALSE]

Battery(rule) == [lower |-> rule.lower, upper |-> rule.upper]
Unset == [lower |-> 1, upper |-> NoLevel]

(* battery_threshold_action: levels count only on stable battery power.    *)
ObserveLevel(p, at, source, level, rule) ==
  IF source = "Battery" /\ p.stable = "Battery" /\ rule.lower # NoLevel
  THEN ObserveBatteryThreshold(p, at, level, Battery(rule), rule.recovery)
  ELSE ObserveBatteryThreshold(p, at, NoLevel, Unset, FALSE)

(* The policy as an eligible sample leaves it. *)
Evaluated(p, prefs, at, source, level) ==
  LET current == SetManualOverride(SetEnabled(p, prefs.enabled), prefs.override)
      bySource == ObservePowerSource(current, at, source, prefs.rule.lower # NoLevel)
      byLevel == ObserveLevel(bySource.policy, at, source, level, prefs.rule)
  IN  [policy |-> byLevel.policy,
       action |-> IF bySource.action = NoPreset THEN byLevel.action
                  ELSE bySource.action]

(* The policy as an ineligible sample, or a raised barrier, leaves it.     *)
Blocked(p, prefs, at) ==
  LET current == SetManualOverride(SetEnabled(p, prefs.enabled), prefs.override)
      unsourced == ObservePowerSource(current, at, NoSource, FALSE).policy
      rule == IF prefs.rule.lower = NoLevel THEN Unset ELSE Battery(prefs.rule)
  IN  ObserveBatteryThreshold(unsourced, at, NoLevel, rule, prefs.rule.recovery).policy

=============================================================================
