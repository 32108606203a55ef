-------------------------- MODULE AutomationDaemon --------------------------
(***************************************************************************)
(* The automation of rog-daemon/src/main.rs end to end: the telemetry task *)
(* with its clock check, UPower read, freshness barrier, policy and        *)
(* hardware write; the D-Bus methods that pause, resume, reconfigure or    *)
(* write the hardware by hand; logind's sleep signals; and suspends.  They *)
(* share automation_write_gate (each handler below is what it does under   *)
(* that lock), hardware_control_lock, and automation_generation.           *)
(* pause_automation and resume_automation go on after they have dropped    *)
(* the gate, one lock at a time.                                           *)
(*                                                                         *)
(* Abstractions:                                                           *)
(* - The generation is read only to learn whether it changed since an      *)
(*   operation loaded it: the operation carries that fact as `current`.    *)
(*   The barrier's own generation is only reported, and kept at 0.         *)
(* - A preset has one automatable setting, and rules have no battery       *)
(*   threshold (PresetSelection has them), so an action is a power source. *)
(* - One call of pause_automation or resume_automation is under way at a   *)
(*   time (PresetSelection has several); a manual action pauses meanwhile. *)
(* - Retries are due at any time (AutomationRetry has their schedule).     *)
(* - The wall clock is never set back (PowerFreshness does that).          *)
(***************************************************************************)
EXTENDS BatteryFreshness, PresetRules

CONSTANTS
  WritesEnabled, \* POWER_SOURCE_AUTOMATION_ENABLED
  MaxClock,      \* bound on CLOCK_BOOTTIME
  MaxAge,        \* BATTERY_SOURCE_MAX_AGE
  Profiles,      \* the saved presets; each stands for its platform profile
  NoProfile,     \* no preset is selected for a source
  ByHand,        \* the platform profile a user sets by hand
  Choices        \* the presets a user may select for the sources

ASSUME DaemonAssumption ==
  /\ WritesEnabled \in BOOLEAN
  /\ MaxClock \in Nat /\ MaxClock + 1 < U64Max
  /\ MaxAge \in Nat
  /\ NoProfile \notin Profiles /\ ByHand \notin Profiles
  /\ Choices \subseteq [Sources -> Profiles \union {NoProfile}] /\ Choices # {}

VARIABLES
  barrier,   \* SharedState.power_freshness
  config,    \* automation preferences of SharedState.config
  policy,    \* SharedState.policy
  retry,     \* SharedState.automation_retry
  status,    \* SharedState.automation_status
  tick,      \* where the telemetry task is
  manual,    \* where a D-Bus request to set the profile is
  call,      \* what a pause or a resume that is stored has to do next
  lock,      \* holder of hardware_control_lock
  hw,        \* the platform profile in force
  boot,      \* CLOCK_BOOTTIME
  gap,       \* it ran ahead of CLOCK_MONOTONIC since the last clock check
  refreshed, \* UPower's UpdateTime
  \* history
  run,       \* since when every tick has observed this source
  held       \* a value set by hand while paused, and no Resume since

shared == <<barrier, config, policy, retry, status>>
machine == <<boot, gap, refreshed>>
vars == <<shared, tick, manual, call, lock, hw, machine, run, held>>

Wall == 1 + boot

-----------------------------------------------------------------------------
NoTarget == [of |-> NoProfile]
NoRun == [of |-> NoSource, since |-> 0]
Missing == [source |-> NoSource]
Free == "free"
Idle == [phase |-> "idle"]

Prefs(c) == [enabled |-> c.enabled, override |-> c.override, rule |-> NoThresholds]

(* automation_generation was incremented. *)
Outdated(t) == IF "current" \in DOMAIN t THEN [t EXCEPT !.current = FALSE] ELSE t

(* A sample as the barrier sees it.  UPower's power source is consistent   *)
(* with the line power whenever a sample exists.                           *)
FreshAt(s) == Wall - s.updateTime <= MaxAge
Seen(s) ==
  [source |-> s.source, updateTime |-> s.updateTime, consistent |-> TRUE,
   fresh |-> FreshAt(s)]
Eligible(s) == s # Missing /\ IsEligible(barrier, Seen(s))

Init ==
  /\ boot = 0 /\ gap = FALSE /\ refreshed = 1
  /\ barrier = [Invalidate(DefaultBarrier, "DaemonStartup", Wall).barrier
                  EXCEPT !.generation = 0]
  /\ config \in [enabled : {TRUE}, override : {FALSE}, chosen : Choices]
  /\ policy = NewPolicy
  /\ retry = NoTarget
  /\ status = [state |-> "disabled", last |-> NoProfile, fresh |-> FALSE]
  /\ tick = Idle /\ manual = "idle" /\ call = "none" /\ lock = Free
  /\ hw = ByHand
  /\ run = NoRun /\ held = FALSE

-----------------------------------------------------------------------------
(* Mutant: a raised barrier leaves the policy's candidate running. *)
AppliedToStatus(r) ==
  /\ barrier' = [r.barrier EXCEPT !.generation = 0]
  /\ UNCHANGED policy
  /\ IF r.decision = "Invalidated"
     THEN /\ retry' = NoTarget
          /\ status' = [status EXCEPT !.fresh = FALSE]
          /\ run' = NoRun
     ELSE UNCHANGED <<retry, status, run>>

(* cancel_automation_after_power_invalidation, given the barrier's result. *)
Applied(r) ==
  /\ barrier' = [r.barrier EXCEPT !.generation = 0]
  /\ IF r.decision = "Invalidated"
     THEN /\ policy' = Blocked(policy, Prefs(config), boot)
          /\ retry' = NoTarget
          /\ status' = [status EXCEPT !.fresh = FALSE,
               !.state = IF config.enabled /\ ~config.override THEN "blocked_sample" ELSE @]
          /\ run' = NoRun
     ELSE UNCHANGED <<policy, retry, status, run>>

(* An event that raises the barrier, with the operation under way. *)
Barred(r) ==
  /\ Applied(r)
  /\ tick' = IF r.decision = "Invalidated" THEN Outdated(tick) ELSE tick

Stopped(c) ==
  IF ~c.enabled THEN "disabled" ELSE IF c.override THEN "manual_override" ELSE "monitoring"

(* Mutant: a change of rules leaves the displayed state. *)
ReconfiguredSilently(c) ==
  /\ config' = c
  /\ IF c = config THEN UNCHANGED <<policy, retry, status, tick, run>>
     ELSE /\ policy' = ResetForReconfiguration(policy)
          /\ retry' = NoTarget
          /\ status' = [status EXCEPT !.last = NoProfile]
          /\ tick' = Outdated(tick)
          /\ run' = NoRun

(* mutate_config and persist_config: invalidate_automation_runtime follows *)
(* a change of the rules.                                                  *)
Reconfigured(c) ==
  /\ config' = c
  /\ IF c = config THEN UNCHANGED <<policy, retry, status, tick, run>>
     ELSE /\ policy' = ResetForReconfiguration(policy)
          /\ retry' = NoTarget
          /\ status' = [status EXCEPT !.last = NoProfile, !.state = Stopped(c)]
          /\ tick' = Outdated(tick)
          /\ run' = NoRun

-----------------------------------------------------------------------------
(* The telemetry task.  Its first statement checks the clocks. *)
TickChecksClocks ==
  /\ tick = Idle
  /\ tick' = [phase |-> "reading"]
  /\ gap' = FALSE
  /\ IF gap THEN Applied(Invalidate(barrier, "ClockResume", Wall))
     ELSE UNCHANGED <<barrier, policy, retry, status, run>>
  /\ UNCHANGED <<config, manual, call, lock, hw, boot, refreshed, held>>

TickReads(source, updateTime) ==
  /\ tick.phase = "reading"
  /\ updateTime \in {refreshed, Wall}
  /\ refreshed' = updateTime
  /\ tick' = [phase |-> "read", sample |-> [source |-> source, updateTime |-> updateTime]]
  /\ UNCHANGED <<shared, manual, call, lock, hw, boot, gap, run, held>>

TickLosesUPower ==
  /\ tick.phase = "reading"
  /\ tick' = [phase |-> "read", sample |-> Missing]
  /\ Applied(Invalidate(barrier, "UPowerReconnect", Wall))
  /\ UNCHANGED <<config, manual, call, lock, hw, machine, held>>

(* set_telemetry and observe_battery_freshness *)
TickObserves ==
  LET r == IF tick.sample = Missing THEN ObserveMissing(barrier, Wall)
           ELSE Observe(barrier, Seen(tick.sample), Wall)
  IN  /\ tick.phase = "read"
      /\ Applied(r)
      /\ tick' = [phase |-> "observed", sample |-> tick.sample,
                  eligible |-> r.decision = "Eligible"]
      /\ UNCHANGED <<config, manual, call, lock, hw, machine, held>>

(* Mutant: a tick of a paused automation only returns. *)
TickReadsConfigSilently ==
  /\ tick.phase = "observed"
  /\ tick' = IF config.enabled /\ ~config.override
             THEN [phase |-> "configured", sample |-> tick.sample,
                   eligible |-> tick.eligible, config |-> config]
             ELSE Idle
  /\ UNCHANGED <<shared, manual, call, lock, hw, machine, run, held>>

TickReadsConfig ==
  /\ tick.phase = "observed"
  /\ IF config.enabled /\ ~config.override
     THEN /\ tick' = [phase |-> "configured", sample |-> tick.sample,
                      eligible |-> tick.eligible, config |-> config]
          /\ UNCHANGED <<retry, status>>
     ELSE /\ tick' = Idle
          /\ retry' = NoTarget
          /\ status' = [status EXCEPT !.state = Stopped(config)]
  /\ UNCHANGED <<barrier, config, policy, manual, call, lock, hw, machine, run, held>>

TickBlocks ==
  /\ tick.phase = "configured"
  /\ ~tick.eligible \/ ~Eligible(tick.sample)
  /\ retry' = NoTarget
  /\ policy' = Blocked(policy, Prefs(tick.config), boot)
  /\ status' = [status EXCEPT !.state = "blocked_sample", !.fresh = FALSE]
  /\ tick' = Idle
  /\ run' = NoRun
  /\ UNCHANGED <<barrier, config, manual, call, lock, hw, machine, held>>

(* The policy, or a retry that is due, calls for an action.                *)
TickEvaluates(due) ==
  LET source == tick.sample.source
      e == Evaluated(policy, Prefs(tick.config), boot, source, NoLevel)
      kept == IF e.policy.stable = source /\ retry # NoTarget
                 /\ retry.source = source /\ tick.config.chosen[source] = retry.of
              THEN retry ELSE NoTarget
      retries == e.action = NoPreset /\ kept # NoTarget /\ kept.failing /\ due
  IN  /\ tick.phase = "configured"
      /\ tick.eligible /\ Eligible(tick.sample)
      /\ policy' = e.policy
      /\ run' = IF run.of = source THEN run ELSE [of |-> source, since |-> boot]
      /\ retry' = IF e.action = NoPreset THEN kept ELSE retry
      /\ IF e.action # NoPreset \/ retries
         THEN /\ tick' = [phase |-> "selected", sample |-> tick.sample,
                          config |-> tick.config, source |-> source]
              /\ status' = [status EXCEPT !.fresh = TRUE]
         ELSE /\ tick' = Idle
              /\ status' = [status EXCEPT !.fresh = TRUE,
                   !.state = IF @ \in {"blocked_sample", "blocked_rule"}
                                \/ (@ = "failing" /\ kept # NoTarget)
                             THEN @ ELSE "monitoring"]
      /\ UNCHANGED <<barrier, config, manual, call, lock, hw, machine, held>>

(* The status shows the transition; with writes enabled an operation       *)
(* starts under the generation it loads here.                              *)
TickStarts ==
  LET profile == tick.config.chosen[tick.source]
  IN  /\ tick.phase = "selected"
      /\ IF profile = NoProfile \/ ~WritesEnabled
         THEN tick' = Idle /\ status' = [status EXCEPT !.state = "blocked_rule"]
         ELSE /\ tick' = [phase |-> "waiting", sample |-> tick.sample,
                          source |-> tick.source, profile |-> profile,
                          current |-> TRUE, outcome |-> "none"]
              /\ status' = [status EXCEPT !.state = "applying"]
      /\ UNCHANGED <<barrier, config, policy, retry, manual, call, lock, hw, machine,
                     run, held>>

-----------------------------------------------------------------------------
(* An operation: lock the hardware, check, read, prepare, check again and  *)
(* start the write in one critical section, read back, report.             *)
Preflight ==
  /\ tick.current
  /\ config.enabled /\ ~config.override
  /\ config.chosen[tick.source] = tick.profile
  /\ tick.sample.source = tick.source
  /\ policy.stable = tick.source
  /\ Eligible(tick.sample)

To(phase) == tick' = [tick EXCEPT !.phase = phase]
Ended(outcome) == tick' = [tick EXCEPT !.phase = "done", !.outcome = outcome]

(* The lock is acquired, and the configuration read again. *)
TickLocks ==
  /\ tick.phase = "waiting" /\ lock = Free
  /\ IF config.enabled /\ ~config.override
     THEN lock' = "tick" /\ To("locked")
     ELSE UNCHANGED lock /\ tick' = Idle
  /\ UNCHANGED <<shared, manual, call, hw, machine, run, held>>

TickPreflights ==
  /\ tick.phase = "locked"
  /\ IF Preflight
     THEN /\ To("comparing")
          /\ retry' = [of |-> tick.profile, source |-> tick.source, failing |-> FALSE]
     ELSE Ended("blocked") /\ retry' = NoTarget
  /\ UNCHANGED <<barrier, config, policy, status, manual, call, lock, hw, machine,
                 run, held>>

(* Mutant: a completion brings back a target that was forgotten. *)
FinishedAnyway(failing) ==
  retry' = [of |-> tick.profile, source |-> tick.source, failing |-> failing]

(* finish_component_retry: an invalidation has removed the target.         *)
Finished(failing) ==
  retry' = IF retry = NoTarget THEN retry ELSE [retry EXCEPT !.failing = failing]

TickCompares ==
  /\ tick.phase = "comparing"
  /\ IF hw = tick.profile THEN Ended("confirmed") /\ Finished(FALSE)
     ELSE To("prepared") /\ UNCHANGED retry
  /\ UNCHANGED <<barrier, config, policy, status, manual, call, lock, hw, machine,
                 run, held>>

(* with_automation_write_gate: the first poll of the prepared write.       *)
TickStartsWrite ==
  /\ tick.phase = "prepared"
  /\ IF Preflight THEN To("writing") /\ UNCHANGED retry
     ELSE Ended("blocked") /\ retry' = NoTarget
  /\ UNCHANGED <<barrier, config, policy, status, manual, call, lock, hw, machine,
                 run, held>>

(* The backend applies the write or not; the readback decides. *)
TickFinishesWrite ==
  /\ tick.phase = "writing"
  /\ hw' \in {hw, tick.profile}
  /\ IF hw' = tick.profile THEN Ended("confirmed") /\ Finished(FALSE)
     ELSE Ended("failed") /\ Finished(TRUE)
  /\ UNCHANGED <<barrier, config, policy, status, manual, call, lock, machine,
                 run, held>>

(* A backend call or a readback fails. *)
TickFails ==
  /\ tick.phase \in {"comparing", "prepared", "writing"}
  /\ hw' \in IF tick.phase = "writing" THEN {hw, tick.profile} ELSE {hw}
  /\ Ended("failed") /\ Finished(TRUE)
  /\ UNCHANGED <<barrier, config, policy, status, manual, call, lock, machine,
                 run, held>>

(* The lock is released; a stale completion leaves the status' presets.    *)
TickUnlocks ==
  /\ tick.phase = "done"
  /\ lock' = Free
  /\ IF tick.current THEN To("reporting") ELSE tick' = Idle
  /\ UNCHANGED <<shared, manual, call, hw, machine, run, held>>

TickReports ==
  /\ tick.phase = "reporting"
  /\ tick' = Idle
  /\ status' =
       IF Stopped(config) # "monitoring" THEN [status EXCEPT !.state = Stopped(config)]
       ELSE CASE tick.outcome = "confirmed" ->
                   [status EXCEPT !.state = "monitoring", !.last = tick.profile]
              [] tick.outcome = "failed" -> [status EXCEPT !.state = "failing"]
              [] tick.outcome = "blocked" -> [status EXCEPT !.state = "blocked_rule"]
  /\ UNCHANGED <<barrier, config, policy, retry, manual, call, lock, hw, machine,
                 run, held>>

-----------------------------------------------------------------------------
(* D-Bus methods *)
Paused == [config EXCEPT !.override = TRUE]

PauseAutomation ==
  /\ call = "none"
  /\ Reconfigured(Paused)
  /\ call' = "pause policy"
  /\ UNCHANGED <<barrier, manual, lock, hw, machine, held>>

PausePolicy ==
  /\ call = "pause policy" /\ call' = "pause status"
  /\ policy' = SetManualOverride(policy, TRUE)
  /\ UNCHANGED <<barrier, config, retry, status, tick, manual, lock, hw, machine,
                 run, held>>

PauseStatus ==
  /\ call = "pause status" /\ call' = "none"
  /\ status' = [status EXCEPT !.state = "manual_override"]
  /\ UNCHANGED <<barrier, config, policy, retry, tick, manual, lock, hw, machine,
                 run, held>>

ResumeAutomation ==
  /\ call = "none"
  /\ Reconfigured([config EXCEPT !.override = FALSE])
  /\ call' = "raise barrier" /\ held' = FALSE
  /\ UNCHANGED <<barrier, manual, lock, hw, machine>>

ResumeRaisesBarrier ==
  /\ call = "raise barrier" /\ call' = "resume policy"
  /\ Barred(Invalidate(barrier, "ClockResume", Wall))
  /\ UNCHANGED <<config, manual, lock, hw, machine, held>>

ResumeEndsPause ==
  /\ call = "resume policy" /\ call' = "forget retry"
  /\ policy' = ResumePolicy(policy)
  /\ UNCHANGED <<barrier, config, retry, status, tick, manual, lock, hw, machine,
                 run, held>>

ResumeForgetsRetry ==
  /\ call = "forget retry" /\ call' = "resume status"
  /\ retry' = NoTarget
  /\ UNCHANGED <<barrier, config, policy, status, tick, manual, lock, hw, machine,
                 run, held>>

(* Whoever has paused again meanwhile, the status shows the resume. *)
ResumeStatus ==
  /\ call = "resume status" /\ call' = "none"
  /\ status' = [status EXCEPT !.state = IF config.enabled THEN "monitoring" ELSE "disabled",
                              !.fresh = FALSE]
  /\ UNCHANGED <<barrier, config, policy, retry, tick, manual, lock, hw, machine,
                 run, held>>

(* set_configuration, the preference setters, reset_configuration *)
SetConfiguration(enabled, chosen) ==
  /\ Reconfigured([config EXCEPT !.enabled = enabled, !.chosen = chosen])
  /\ UNCHANGED <<barrier, manual, call, lock, hw, machine, held>>

ResetConfiguration ==
  /\ Reconfigured([enabled |-> FALSE, override |-> FALSE,
                   chosen |-> [s \in Sources |-> NoProfile]])
  /\ held' = FALSE
  /\ UNCHANGED <<barrier, manual, call, lock, hw, machine>>

(* set_profile: pause first, then wait for the hardware. *)
ManualRequest ==
  /\ manual = "idle"
  /\ manual' = "waiting"
  /\ IF config.enabled /\ ~config.override
     THEN /\ config' = Paused
          /\ policy' = SetManualOverride(ResetForReconfiguration(policy), TRUE)
          /\ retry' = NoTarget
          /\ status' = [status EXCEPT !.last = NoProfile, !.state = "manual_override"]
          /\ tick' = Outdated(tick)
          /\ run' = NoRun
     ELSE UNCHANGED <<config, policy, retry, status, tick, run>>
  /\ UNCHANGED <<barrier, call, lock, hw, machine, held>>

(* Mutant: a manual write does not wait for the hardware lock. *)
ManualLocksNothing ==
  /\ manual = "waiting"
  /\ manual' = "writing"
  /\ UNCHANGED <<shared, tick, call, lock, hw, machine, run, held>>

ManualLocks ==
  /\ manual = "waiting" /\ lock = Free
  /\ lock' = "manual" /\ manual' = "writing"
  /\ UNCHANGED <<shared, tick, call, hw, machine, run, held>>

(* Mutant: a failed manual write leaves the hardware locked. *)
ManualFinishesLocked ==
  /\ manual = "writing"
  /\ hw' \in {hw, ByHand}
  /\ held' = (IF hw' = ByHand THEN config.override ELSE held)
  /\ lock' = (IF hw' = ByHand THEN Free ELSE lock)
  /\ manual' = "idle"
  /\ UNCHANGED <<shared, tick, call, machine, run>>

ManualFinishes ==
  /\ manual = "writing"
  /\ hw' \in {hw, ByHand}
  /\ held' = (IF hw' = ByHand THEN config.override ELSE held)
  /\ lock' = Free /\ manual' = "idle"
  /\ UNCHANGED <<shared, tick, call, machine, run>>

-----------------------------------------------------------------------------
(* The environment *)
SleepSignal(preparing) ==
  /\ Barred(PrepareForSleep(barrier, preparing, Wall))
  /\ UNCHANGED <<config, manual, call, lock, hw, machine, held>>

(* A tick between two awaits and a call take much less than a time unit.   *)
Waiting ==
  /\ tick.phase \notin {"read", "observed", "configured", "selected", "reporting"}
  /\ call = "none"

TimePasses ==
  /\ Waiting /\ boot < MaxClock
  /\ boot' = boot + 1
  /\ UNCHANGED <<shared, tick, manual, call, lock, hw, gap, refreshed, run, held>>

Suspend ==
  /\ Waiting /\ boot < MaxClock
  /\ boot' = boot + 1 /\ gap' = TRUE
  /\ UNCHANGED <<shared, tick, manual, call, lock, hw, refreshed, run, held>>

-----------------------------------------------------------------------------
TickStep ==
  \/ TickChecksClocks \/ TickLosesUPower \/ TickObserves \/ TickReadsConfig
  \/ TickBlocks \/ TickStarts \/ TickLocks \/ TickPreflights \/ TickCompares
  \/ TickStartsWrite \/ TickFinishesWrite \/ TickFails \/ TickUnlocks \/ TickReports
  \/ \E source \in Sources, updateTime \in {refreshed, Wall} : TickReads(source, updateTime)
  \/ \E due \in BOOLEAN : TickEvaluates(due)

ManualStep == ManualLocks \/ ManualFinishes

Next ==
  \/ TickStep
  \/ PauseAutomation \/ PausePolicy \/ PauseStatus
  \/ ResumeAutomation \/ ResumeRaisesBarrier \/ ResumeEndsPause
  \/ ResumeForgetsRetry \/ ResumeStatus
  \/ \E enabled \in BOOLEAN, chosen \in Choices : SetConfiguration(enabled, chosen)
  \/ ResetConfiguration
  \/ ManualRequest
  \/ ManualStep
  \/ \E preparing \in BOOLEAN : SleepSignal(preparing)
  \/ TimePasses
  \/ Suspend

(* When the task, and a manual action, have no step to take.               *)
TickRests == tick.phase = "waiting" /\ lock # Free
ManualRests == manual = "idle" \/ (manual = "waiting" /\ lock # Free)

(* The telemetry loop never stops and backend calls return: weak fairness  *)
(* of TickStep and ManualStep.  The hardware lock (a tokio Mutex) is handed *)
(* out first come, first served: strong fairness of TickLocks.  WF and SF  *)
(* are written out because TLC is slow to find what is enabled.            *)
Fairness ==
  /\ []<>TickRests \/ []<><<TickStep>>_tick
  /\ []<>ManualRests \/ []<><<ManualStep>>_manual
  /\ <>[](tick.phase # "waiting" \/ lock # Free) \/ []<><<TickLocks>>_tick

Spec == Init /\ [][Next]_vars /\ Fairness

-----------------------------------------------------------------------------
(* An automatic write starts only for a source that every tick of the last *)
(* Dwell observed, with no rule change, raised barrier or suspend signal   *)
(* since, and no pause or resume stored, wherever the task waited and      *)
(* wherever the steps of a pause or resume came in between.                *)
WriteNeedsDwell ==
  [][tick.phase = "prepared" /\ tick'.phase = "writing" =>
       run.of = tick.source /\ boot - run.since >= Dwell]_vars

(* A profile set by hand while automation is paused stays in force until   *)
(* Resume or a configuration reset: a write in flight at the pause ends    *)
(* first, and one that waits behind it never starts.                       *)
ManualValueSticks == held => hw = ByHand

(* A retry target outlives neither the rules it was chosen under nor a     *)
(* pause, even if its operation ends after they changed.                   *)
RetryMatchesRules ==
  retry # NoTarget =>
    config.enabled /\ ~config.override /\ config.chosen[retry.source] = retry.of

(* A status of "applying" is never left behind: an operation is in progress *)
(* or, if the tick gave it up at its last look at the configuration,       *)
(* automation is paused or off, which the next tick reports.               *)
ApplyingIsCurrent ==
  status.state = "applying" =>
    \/ tick.phase \in {"waiting", "locked", "comparing", "prepared", "writing",
                       "done", "reporting"}
    \/ Stopped(config) # "monitoring"

(* The status of a paused automation says so, eventually: a tick that      *)
(* started before the pause may overwrite it, the next one puts it right.  *)
PauseIsReported ==
  config.enabled /\ config.override ~>
    status.state = "manual_override" \/ ~(config.enabled /\ config.override)

(* Every telemetry tick ends, though it may wait for the hardware: the task*)
(* that must notice a suspend is never stuck.                              *)
TicksEnd == []<>(tick = Idle)

=============================================================================
