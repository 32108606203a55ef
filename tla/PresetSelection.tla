-------------------------- MODULE PresetSelection --------------------------
(***************************************************************************)
(* How the daemon drives PolicyState (rog-daemon/src/main.rs): the policy  *)
(* part of a telemetry tick (process_automation), the D-Bus methods that   *)
(* change the automation rules, and the invalidations of the freshness     *)
(* barrier.  A tick reads the configuration, drops the lock, and evaluates *)
(* the policy with that copy; the other handlers may run in between.       *)
(* pause_automation and resume_automation drop the write gate after they   *)
(* have stored their change, and tell the policy of it in later steps.     *)
(*                                                                         *)
(* A tick's sample is its validated source, or NoSource when process_      *)
(* automation finds it ineligible.  The part of a tick modelled here has   *)
(* no await and takes much less than a time unit, so time passes between   *)
(* ticks.                                                                  *)
(***************************************************************************)
EXTENDS PresetRules, BootTime

CONSTANTS
  ObservedLevels, \* battery levels a tick may read
  RuleChoices     \* threshold settings a configuration may have

ASSUME PresetSelectionAssumption ==
  /\ MaxTime \in Nat
  /\ ObservedLevels \subseteq LevelOption
  /\ RuleChoices \subseteq ThresholdRules /\ NoThresholds \in RuleChoices

VARIABLES
  policy,       \* SharedState.policy
  automation,   \* automation preferences of SharedState.config
  tick,         \* the telemetry tick between its reads and its evaluation
  due,          \* what pauses and resumes that are stored have yet to do
  \* history
  sourceRun,    \* since when every tick has observed this source
  levelRun,     \* since when every tick's level has called for this preset
  selection,    \* the last preset selected, since the last reset
  awaitsResume  \* automation was paused, and neither resumed nor reset since

history == <<sourceRun, levelRun, selection>>
vars == <<policy, automation, tick, due, now, history, awaitsResume>>

Preferences == [enabled : BOOLEAN, override : BOOLEAN, rule : RuleChoices]
IdleTick == [busy |-> FALSE]

NoRun == [of |-> NoPreset, since |-> 0]
NoSelection == [preset |-> NoPreset]

Init ==
  /\ policy = NewPolicy
  /\ automation \in Preferences
  /\ tick = IdleTick /\ due = {}
  /\ now = 0
  /\ sourceRun = NoRun /\ levelRun = NoRun
  /\ selection = NoSelection
  /\ awaitsResume = automation.override

-----------------------------------------------------------------------------
(* History: a run is broken by any observation that differs and by Reset.  *)
Extend(run, of) ==
  IF of = NoPreset THEN NoRun
  ELSE IF run.of = of THEN run ELSE [of |-> of, since |-> now]

CalledFor(rule, source, level) ==
  IF source # "Battery" \/ rule.lower = NoLevel \/ level = NoLevel THEN NoPreset
  ELSE IF level <= rule.lower THEN "Battery"
  ELSE IF rule.recovery /\ level >= rule.upper THEN "Recovery" ELSE NoPreset

Reset ==
  /\ sourceRun' = NoRun /\ levelRun' = NoRun
  /\ selection' = NoSelection

-----------------------------------------------------------------------------
(* A tick of a disabled or paused automation leaves the policy alone. *)
TickReads(source, level) ==
  /\ ~tick.busy
  /\ automation.enabled /\ ~automation.override
  /\ tick' = [busy |-> TRUE, prefs |-> automation, source |-> source, level |-> level]
  /\ UNCHANGED <<policy, automation, due, now, history, awaitsResume>>

TickBlocked ==
  /\ tick.busy /\ tick.source = NoSource
  /\ policy' = Blocked(policy, tick.prefs, now)
  /\ tick' = IdleTick
  /\ Reset
  /\ UNCHANGED <<automation, due, now, awaitsResume>>

TickEvaluates ==
  LET e == Evaluated(policy, tick.prefs, now, tick.source, tick.level)
  IN  /\ tick.busy /\ tick.source # NoSource
      /\ policy' = e.policy
      /\ tick' = IdleTick
      /\ sourceRun' = Extend(sourceRun, tick.source)
      /\ levelRun' = Extend(levelRun, CalledFor(tick.prefs.rule, tick.source, tick.level))
      /\ selection' =
           IF e.action # NoPreset
           THEN [preset |-> e.action, at |-> now, prefs |-> tick.prefs,
                 source |-> sourceRun', level |-> levelRun']
           ELSE IF selection # NoSelection /\ sourceRun' # selection.source
                THEN NoSelection ELSE selection
      /\ UNCHANGED <<automation, due, now, awaitsResume>>

TimePasses ==
  /\ ~tick.busy
  /\ now < MaxTime
  /\ now' = now + 1
  /\ UNCHANGED <<policy, automation, tick, due, history, awaitsResume>>

(* Mutant: the policy survives a change of rules. *)
StoreOnly(prefs, p) ==
  /\ automation' = prefs
  /\ policy' = p
  /\ IF prefs # automation THEN Reset ELSE UNCHANGED history

(* A saved configuration that changes the rules invalidates the runtime. *)
Store(prefs, p) ==
  /\ automation' = prefs
  /\ IF prefs # automation
     THEN policy' = ResetForReconfiguration(p) /\ Reset
     ELSE policy' = p /\ UNCHANGED history

(* pause_automation_for_manual_action holds the gate throughout. *)
PauseForManualAction ==
  /\ automation.enabled /\ ~automation.override
  /\ automation' = [automation EXCEPT !.override = TRUE]
  /\ policy' = SetManualOverride(ResetForReconfiguration(policy), TRUE)
  /\ awaitsResume' = TRUE
  /\ Reset
  /\ UNCHANGED <<tick, due, now>>

(* pause_automation stores the override, then tells the policy. *)
Pause ==
  /\ Store([automation EXCEPT !.override = TRUE], policy)
  /\ due' = due \union {"pause policy"}
  /\ awaitsResume' = TRUE
  /\ UNCHANGED <<tick, now>>

PausePolicy ==
  /\ "pause policy" \in due
  /\ due' = due \ {"pause policy"}
  /\ policy' = SetManualOverride(policy, TRUE)
  /\ Reset
  /\ UNCHANGED <<automation, tick, now, awaitsResume>>

(* resume_automation stores, raises the barrier, and resumes the policy: a  *)
(* tick, a pause and another resume may come before either of the last two. *)
Resume ==
  /\ Store([automation EXCEPT !.override = FALSE], policy)
  /\ due' = due \union {"raise barrier"}
  /\ awaitsResume' = FALSE
  /\ UNCHANGED <<tick, now>>

ResumeRaisesBarrier ==
  /\ "raise barrier" \in due
  /\ due' = (due \ {"raise barrier"}) \union {"resume policy"}
  /\ policy' = Blocked(policy, automation, now)
  /\ Reset
  /\ UNCHANGED <<automation, tick, now, awaitsResume>>

ResumeEndsPause ==
  /\ "resume policy" \in due
  /\ due' = due \ {"resume policy"}
  /\ policy' = ResumePolicy(policy)
  /\ Reset
  /\ UNCHANGED <<automation, tick, now, awaitsResume>>

(* Mutant: set_configuration stores the caller's manual override. *)
SetWholeConfiguration(enabled, rule) ==
  /\ Store([enabled |-> enabled, override |-> FALSE, rule |-> rule], policy)
  /\ UNCHANGED <<tick, due, now, awaitsResume>>

(* set_configuration and the preference setters keep the manual override.  *)
SetConfiguration(enabled, rule) ==
  /\ Store([automation EXCEPT !.enabled = enabled, !.rule = rule], policy)
  /\ UNCHANGED <<tick, due, now, awaitsResume>>

(* reset_configuration restores AppConfig::default(), which is not paused. *)
ResetConfiguration ==
  /\ Store([enabled |-> FALSE, override |-> FALSE, rule |-> NoThresholds], policy)
  /\ awaitsResume' = FALSE
  /\ UNCHANGED <<tick, due, now>>

(* cancel_automation_after_power_invalidation *)
BarrierRaised ==
  /\ policy' = Blocked(policy, automation, now)
  /\ Reset
  /\ UNCHANGED <<automation, tick, due, now, awaitsResume>>

Next ==
  \/ \E source \in SourceOption, level \in ObservedLevels : TickReads(source, level)
  \/ TickBlocked
  \/ TickEvaluates
  \/ TimePasses
  \/ PauseForManualAction
  \/ Pause \/ PausePolicy
  \/ Resume \/ ResumeRaisesBarrier \/ ResumeEndsPause
  \/ \E enabled \in BOOLEAN, rule \in RuleChoices : SetConfiguration(enabled, rule)
  \/ ResetConfiguration
  \/ BarrierRaised

Spec == Init /\ [][Next]_vars

-----------------------------------------------------------------------------
Selected == selection # NoSelection

(* A preset is selected only for a source that every tick of the last      *)
(* Dwell has observed, with no pause, resume, toggle, rule change or       *)
(* barrier in between, however those interleave with the tick.             *)
SelectionNeedsSourceDwell ==
  Selected =>
    /\ selection.at - selection.source.since >= Dwell
    /\ selection.source.of = (IF selection.preset = "Ac" THEN "Ac" ELSE "Battery")

(* With a battery threshold, the level has called for the preset at every  *)
(* tick for another Dwell of its own.                                      *)
SelectionNeedsLevelDwell ==
  Selected /\ selection.preset # "Ac" /\ selection.prefs.rule.lower # NoLevel =>
    /\ selection.level.of = selection.preset
    /\ selection.at - selection.level.since >= Dwell

(* The copy of the configuration a tick works with may be stale, yet what  *)
(* it selects is always selected under the rules now in force: a change of *)
(* rules resets the policy before a stale copy can complete a dwell.       *)
SelectedUnderCurrentRules ==
  Selected => /\ automation = selection.prefs
              /\ automation.enabled /\ ~automation.override

(* "Make no selection until explicit Resume": after a pause nothing is     *)
(* selected before Resume or a reset of the whole configuration, whatever  *)
(* else is called in between.                                              *)
NoSelectionBeforeResume == Selected => ~awaitsResume

=============================================================================
