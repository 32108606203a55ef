------------------------ MODULE AutomationDaemonProofs ------------------------
(***************************************************************************)
(* Proofs about AutomationDaemon, for every width, dwell and tolerance,    *)
(* any presets, any choices of them and any bound on the clock: what the   *)
(* user sets by hand stays, no retry target and no displayed operation     *)
(* outlives its rules, and no write starts without the full dwell.         *)
(***************************************************************************)
EXTENDS AutomationDaemon, TLAPS

Configs ==
  [enabled : BOOLEAN, override : BOOLEAN, chosen : [Sources -> Profiles \union {NoProfile}]]
Active == {c \in Configs : c.enabled /\ ~c.override}
Samples == {Missing} \union [source : Sources, updateTime : Nat]
Targets == [of : Profiles, source : Sources, failing : BOOLEAN]
States == {"disabled", "manual_override", "monitoring", "blocked_sample", "blocked_rule",
           "failing", "applying"}

\* The phases of an operation, and those in which it holds the hardware.
Holding == {"locked", "comparing", "prepared", "writing", "done"}
Operating == {"waiting", "reporting"} \union Holding

Simple == [phase : {"idle", "reading"}]
Read == [phase : {"read"}, sample : Samples]
Observed == [phase : {"observed"}, sample : Samples, eligible : BOOLEAN]
Configured == [phase : {"configured"}, sample : Samples, eligible : BOOLEAN, config : Active]
Selected == [phase : {"selected"}, sample : Samples, config : Configs, source : Sources]
Operations ==
  [phase : Operating, sample : Samples, source : Sources, profile : Profiles,
   current : BOOLEAN, outcome : {"none", "confirmed", "failed", "blocked"}]

Ticks == Simple \union Read \union Observed \union Configured \union Selected \union Operations

TypeOK ==
  /\ config \in Configs
  /\ policy \in Policies
  /\ retry \in {NoTarget} \union Targets
  /\ status \in [state : States, last : Profiles \union {NoProfile}, fresh : BOOLEAN]
  /\ tick \in Ticks
  /\ manual \in {"idle", "waiting", "writing"}
  /\ lock \in {Free, "tick", "manual"}
  /\ boot \in Nat /\ refreshed \in Nat
  /\ run \in [of : SourceOption, since : Nat]
  /\ held \in BOOLEAN

\* One of the two tasks has the hardware.
OneHolder ==
  /\ tick.phase \in Holding => lock = "tick"
  /\ manual = "writing" => lock = "manual"

\* A value is held only while paused, and nothing is being written over it.
HeldIsSafe ==
  held => hw = ByHand /\ config.override /\ tick.phase # "writing"

\* An operation of an older generation is no longer displayed.
OutdatedIsHidden ==
  /\ tick.phase \in Operating /\ ~tick.current =>
       status.state # "applying" \/ Stopped(config) # "monitoring"
  /\ tick.phase \in {"done", "reporting"} => tick.outcome # "none"

\* Every tick has observed the source for as long as a write needs.
Dwelled(s) == run.of = s /\ boot - run.since >= Dwell

\* What the policy waits for has been observed since it began to wait; what
\* is selected, or may be retried, has been observed for the dwell.
ObservedThroughout ==
  /\ run.since <= boot
  /\ policy.candidate # NoSource =>
       run.of = policy.candidate /\ run.since <= policy.since
  /\ retry # NoTarget => Dwelled(retry.source)
  /\ tick.phase \in {"selected"} \union Operating /\ policy.stable = tick.source =>
       Dwelled(tick.source)

IInv ==
  /\ TypeOK /\ OneHolder /\ HeldIsSafe
  /\ RetryMatchesRules /\ ApplyingIsCurrent /\ OutdatedIsHidden
  /\ ObservedThroughout

-----------------------------------------------------------------------------
(* The policy's operators, under rules without thresholds.                 *)

\* What the operators that drop a candidate or a selection leave.
LEMMA Dropping ==
  ASSUME NEW p \in Policies
  PROVE  /\ WithoutSourceCandidate(p) \in Policies
         /\ WithoutSourceCandidate(p).candidate = NoSource
         /\ WithoutSourceCandidate(p).stable = p.stable
         /\ WithoutSourceCandidate(p).enabled = p.enabled
         /\ WithoutSourceCandidate(p).override = p.override
         /\ WithoutBatteryCandidate(p) \in Policies
         /\ WithoutBatteryCandidate(p).candidate = p.candidate
         /\ WithoutBatteryCandidate(p).since = p.since
         /\ WithoutBatteryCandidate(p).stable = p.stable
         /\ WithoutBatteryCandidate(p).enabled = p.enabled
         /\ WithoutBatteryCandidate(p).override = p.override
BY DEF WithoutSourceCandidate, WithoutBatteryCandidate, Policies, PresetOption, SourceOption

LEMMA DroppingBoth ==
  ASSUME NEW p \in Policies
  PROVE  /\ WithoutCandidates(p) \in Policies
         /\ WithoutCandidates(p).candidate = NoSource
         /\ WithoutCandidates(p).enabled = p.enabled
         /\ WithoutCandidates(p).override = p.override
<1>1. WithoutSourceCandidate(p) \in Policies
  BY Dropping
<1> QED
  BY <1>1, Dropping DEF WithoutCandidates

LEMMA Unselecting ==
  ASSUME NEW p \in Policies
  PROVE  /\ Unselected(p) \in Policies
         /\ Unselected(p).candidate = NoSource /\ Unselected(p).stable = NoSource
         /\ Unselected(p).enabled = p.enabled /\ Unselected(p).override = p.override
<1> DEFINE q == WithoutCandidates(p)
<1>1. /\ q \in Policies /\ q.candidate = NoSource
      /\ q.enabled = p.enabled /\ q.override = p.override
  BY DroppingBoth
<1> HIDE DEF q
<1>2. Unselected(p) =
        [q EXCEPT !.stable = NoSource, !.active = NoPreset, !.pending = NoPreset]
  BY DEF Unselected, q
<1> QED
  BY <1>1, <1>2 DEF Policies, PresetOption, SourceOption

LEMMA Enabling ==
  ASSUME NEW p \in Policies, NEW b \in BOOLEAN
  PROVE  /\ SetEnabled(p, b) \in Policies
         /\ SetEnabled(p, b).enabled = b /\ SetEnabled(p, b).override = p.override
         /\ \/ SetEnabled(p, b) = p
            \/ SetEnabled(p, b).candidate = NoSource /\ SetEnabled(p, b).stable = NoSource
<1> DEFINE q == Unselected(p)
<1>1. /\ q \in Policies /\ q.candidate = NoSource /\ q.stable = NoSource
      /\ q.override = p.override
  BY Unselecting
<1> HIDE DEF q
<1>2. SetEnabled(p, b) = IF p.enabled = b THEN p ELSE [q EXCEPT !.enabled = b]
  BY DEF SetEnabled, q
<1> QED
  BY <1>1, <1>2 DEF Policies

LEMMA Overriding ==
  ASSUME NEW p \in Policies, NEW b \in BOOLEAN
  PROVE  /\ SetManualOverride(p, b) \in Policies
         /\ SetManualOverride(p, b).override = b
         /\ SetManualOverride(p, b).enabled = p.enabled
         /\ \/ SetManualOverride(p, b) = p
            \/ SetManualOverride(p, b).candidate = NoSource
<1> DEFINE q == IF b THEN WithoutCandidates(p) ELSE Unselected(p)
<1>1. q \in Policies /\ q.candidate = NoSource /\ q.enabled = p.enabled
  BY DroppingBoth, Unselecting
<1> HIDE DEF q
<1>2. SetManualOverride(p, b) = IF p.override = b THEN p ELSE [q EXCEPT !.override = b]
  BY DEF SetManualOverride, q
<1> QED
  BY <1>1, <1>2 DEF Policies

LEMMA UnderUnset ==
  ASSUME NEW p \in Policies, NEW at \in Nat
  PROVE  /\ ObserveBatteryThreshold(p, at, NoLevel, Unset, FALSE).policy \in Policies
         /\ ObserveBatteryThreshold(p, at, NoLevel, Unset, FALSE).policy.candidate = p.candidate
         /\ ObserveBatteryThreshold(p, at, NoLevel, Unset, FALSE).policy.since = p.since
         /\ ObserveBatteryThreshold(p, at, NoLevel, Unset, FALSE).policy.stable = p.stable
         /\ ObserveBatteryThreshold(p, at, NoLevel, Unset, FALSE).action = NoPreset
<1> DEFINE u == UnderRule(p, Unset)
           q == WithoutBatteryCandidate(u)
           r == ObserveBatteryThreshold(p, at, NoLevel, Unset, FALSE)
<1>1. r = Quiet(q)
  BY DEF ObserveBatteryThreshold, BatteryTarget
<1>2. Unset \in Rules
  BY DEF Unset, Rules, Levels, LevelOption
<1>3. /\ u \in Policies /\ u.candidate = p.candidate /\ u.since = p.since
      /\ u.stable = p.stable
  <2> DEFINE w == WithoutBatteryCandidate(p)
  <2>1. /\ w \in Policies /\ w.candidate = p.candidate /\ w.since = p.since
        /\ w.stable = p.stable
    BY Dropping
  <2> HIDE DEF w
  <2>2. u = IF p.rule = Unset THEN p ELSE [w EXCEPT !.rule = Unset, !.pending = NoPreset]
    BY DEF UnderRule, w
  <2> HIDE DEF u
  <2> QED
    BY <1>2, <2>1, <2>2 DEF Policies, PresetOption
<1> HIDE DEF u
<1>4. /\ q \in Policies /\ q.candidate = p.candidate /\ q.since = p.since
      /\ q.stable = p.stable
  BY <1>3, Dropping
<1> HIDE DEF r, q
<1>5. r.policy = q /\ r.action = NoPreset
  BY <1>1 DEF Quiet
<1> QED
  BY <1>4, <1>5 DEF r

LEMMA BlockedForgets ==
  ASSUME NEW p \in Policies, NEW c \in Configs, NEW at \in Nat
  PROVE  /\ Blocked(p, Prefs(c), at) \in Policies
         /\ Blocked(p, Prefs(c), at).candidate = NoSource
         /\ Blocked(p, Prefs(c), at).stable = NoSource
<1> DEFINE current == SetManualOverride(SetEnabled(p, c.enabled), c.override)
           unsourced == ObservePowerSource(current, at, NoSource, FALSE).policy
           blocked == ObserveBatteryThreshold(unsourced, at, NoLevel, Unset, FALSE).policy
<1>1. current \in Policies
  BY Enabling, Overriding DEF Configs
<1>2. Blocked(p, Prefs(c), at) = blocked
  BY DEF Blocked, Prefs, NoThresholds
<1> HIDE DEF current
<1>3. unsourced = [WithoutCandidates(current) EXCEPT !.stable = NoSource, !.pending = NoPreset]
  BY DEF ObservePowerSource, Quiet
<1> HIDE DEF unsourced
<1>4. /\ unsourced \in Policies
      /\ unsourced.candidate = NoSource /\ unsourced.stable = NoSource
  <2> DEFINE w == WithoutCandidates(current)
  <2>1. w \in Policies /\ w.candidate = NoSource
    BY <1>1, DroppingBoth
  <2> HIDE DEF w
  <2>2. unsourced = [w EXCEPT !.stable = NoSource, !.pending = NoPreset]
    BY <1>3 DEF w
  <2> QED
    BY <2>1, <2>2 DEF Policies, SourceOption, PresetOption
<1>5. /\ blocked \in Policies
      /\ blocked.candidate = NoSource /\ blocked.stable = NoSource
  BY <1>4, UnderUnset
<1> HIDE DEF blocked
<1> QED
  BY <1>2, <1>5

LEMMA EvaluatedPolicy ==
  ASSUME NEW p \in Policies, NEW c \in Configs, c.enabled, ~c.override,
         NEW at \in Nat, NEW source \in Sources
  PROVE  LET e == Evaluated(p, Prefs(c), at, source, NoLevel) IN
         /\ e.policy \in Policies
         /\ e.policy.candidate \in {NoSource, source}
         /\ e.policy.candidate = source =>
              e.policy.since = at \/ (p.candidate = source /\ e.policy.since = p.since)
         /\ e.action # NoPreset => p.candidate = source /\ at - p.since >= Dwell
<1> DEFINE current == SetManualOverride(SetEnabled(p, TRUE), FALSE)
           bySource == ObservePowerSource(current, at, source, FALSE)
           byLevel == ObserveBatteryThreshold(bySource.policy, at, NoLevel, Unset, FALSE)
<1>1. /\ current \in Policies /\ current.enabled /\ ~current.override
      /\ current = p \/ current.candidate = NoSource
  <2> DEFINE enabled == SetEnabled(p, TRUE)
  <2>1. /\ enabled \in Policies /\ enabled.enabled = TRUE
        /\ enabled = p \/ enabled.candidate = NoSource
    BY Enabling, Zenon
  <2> HIDE DEF enabled
  <2>2. /\ current \in Policies /\ current.override = FALSE
        /\ current.enabled = enabled.enabled
        /\ current = enabled \/ current.candidate = NoSource
    BY <2>1, Overriding, Zenon DEF enabled
  <2> HIDE DEF current
  <2> QED
    BY <2>1, <2>2
<1>2. source # NoSource
  BY DEF Sources, NoSource
<1>3. LET e == Evaluated(p, Prefs(c), at, source, NoLevel) IN
        /\ e.policy = byLevel.policy
        /\ e.action = (IF bySource.action = NoPreset THEN byLevel.action ELSE bySource.action)
  <2>1. c.enabled = TRUE /\ c.override = FALSE
    BY DEF Configs
  <2> QED
    BY <2>1 DEF Evaluated, ObserveLevel, Prefs, NoThresholds
<1> HIDE DEF current
<1>4. bySource =
        IF current.stable = source THEN Quiet(WithoutSourceCandidate(current))
        ELSE IF current.candidate # source
             THEN Quiet([current EXCEPT !.candidate = source, !.since = at])
        ELSE IF at - current.since < Dwell THEN Quiet(current)
        ELSE Stabilized(current, source, FALSE)
  BY <1>1, <1>2 DEF ObservePowerSource
<1> HIDE DEF bySource
<1>5. /\ bySource.policy \in Policies
      /\ bySource.policy.candidate \in {NoSource, source}
      /\ bySource.policy.candidate = source =>
           bySource.policy.since = at
           \/ (p.candidate = source /\ bySource.policy.since = p.since)
      /\ bySource.action # NoPreset => p.candidate = source /\ at - p.since >= Dwell
  <2>1. CASE current.stable = source
    BY <1>1, <1>2, <1>4, <2>1, Dropping DEF Quiet
  <2>2. CASE current.stable # source /\ current.candidate # source
    BY <1>1, <1>2, <1>4, <2>2 DEF Quiet, Policies, SourceOption
  <2>3. CASE /\ current.stable # source /\ current.candidate = source
             /\ at - current.since < Dwell
    BY <1>1, <1>2, <1>4, <2>3 DEF Quiet
  <2>4. CASE /\ current.stable # source /\ current.candidate = source
             /\ ~(at - current.since < Dwell)
    <3>1. /\ p.candidate = source /\ at - p.since >= Dwell
      BY <1>1, <1>2, <2>4, PolicyAssumption DEF Policies
    <3>2. bySource.policy =
            [WithoutCandidates(current) EXCEPT !.stable = source, !.pending = source]
      BY <1>4, <2>4 DEF Stabilized
    <3>3. source \in SourceOption /\ source \in PresetOption
      BY DEF Sources, SourceOption, PresetOption, Presets
    <3>4. /\ bySource.policy \in Policies
          /\ bySource.policy.candidate = NoSource
      <4> DEFINE w == WithoutCandidates(current)
      <4>1. w \in Policies /\ w.candidate = NoSource
        BY <1>1, DroppingBoth
      <4> HIDE DEF w
      <4>2. bySource.policy = [w EXCEPT !.stable = source, !.pending = source]
        BY <3>2 DEF w
      <4> QED
        BY <3>3, <4>1, <4>2 DEF Policies
    <3> QED
      BY <1>2, <3>1, <3>4
  <2> QED
    BY <2>1, <2>2, <2>3, <2>4
<1>6. /\ byLevel.policy \in Policies /\ byLevel.action = NoPreset
      /\ byLevel.policy.candidate = bySource.policy.candidate
      /\ byLevel.policy.since = bySource.policy.since
  BY <1>5, UnderUnset
<1> HIDE DEF byLevel
<1> QED
  BY <1>3, <1>5, <1>6

LEMMA ResetForgets ==
  ASSUME NEW p \in Policies
  PROVE  /\ ResetForReconfiguration(p) \in Policies
         /\ ResetForReconfiguration(p).candidate = NoSource
         /\ ResetForReconfiguration(p).stable = NoSource
<1>1. /\ Unselected(p) \in Policies
      /\ Unselected(p).candidate = NoSource /\ Unselected(p).stable = NoSource
  BY Unselecting
<1> QED
  BY <1>1 DEF ResetForReconfiguration, Policies

LEMMA ResumeForgets ==
  ASSUME NEW p \in Policies
  PROVE  /\ ResumePolicy(p) \in Policies
         /\ ResumePolicy(p).candidate = NoSource
         /\ ResumePolicy(p).stable = NoSource
<1>1. /\ Unselected(p) \in Policies
      /\ Unselected(p).candidate = NoSource /\ Unselected(p).stable = NoSource
  BY Unselecting
<1> QED
  BY <1>1 DEF ResumePolicy, Policies

LEMMA LateForgets ==
  ASSUME NEW p \in Policies
  PROVE  LET q == SetManualOverride(p, TRUE)
         IN  /\ q \in Policies /\ q.stable = p.stable
             /\ q.candidate = NoSource \/ q = p
<1>1. SetManualOverride(p, TRUE) =
        IF p.override = TRUE THEN p ELSE [WithoutCandidates(p) EXCEPT !.override = TRUE]
  BY DEF SetManualOverride
<1>2. WithoutCandidates(p).stable = p.stable
  BY Dropping DEF WithoutCandidates
<1> QED
  BY <1>1, <1>2, DroppingBoth DEF Policies

LEMMA PauseForgets ==
  ASSUME NEW p \in Policies
  PROVE  /\ SetManualOverride(ResetForReconfiguration(p), TRUE) \in Policies
         /\ SetManualOverride(ResetForReconfiguration(p), TRUE).candidate = NoSource
         /\ SetManualOverride(ResetForReconfiguration(p), TRUE).stable = NoSource
<1> DEFINE q == ResetForReconfiguration(p)
<1>1. q \in Policies /\ q.candidate = NoSource /\ q.stable = NoSource
  BY ResetForgets
<1> HIDE DEF q
<1>2. SetManualOverride(q, TRUE) =
        IF q.override = TRUE THEN q ELSE [WithoutCandidates(q) EXCEPT !.override = TRUE]
  BY DEF SetManualOverride
<1>3. WithoutCandidates(q).stable = q.stable
  BY <1>1, Dropping DEF WithoutCandidates
<1> QED
  BY <1>1, <1>2, <1>3, DroppingBoth DEF Policies, q

-----------------------------------------------------------------------------
(* The shape of a tick follows from its phase.                             *)

LEMMA Shapes ==
  ASSUME NEW t \in Ticks
  PROVE  /\ t.phase = "reading" => t \in Simple
         /\ t.phase = "read" => t \in Read
         /\ t.phase = "observed" => t \in Observed
         /\ t.phase = "configured" => t \in Configured
         /\ t.phase = "selected" => t \in Selected
         /\ t.phase \in Operating => t \in Operations
BY DEF Ticks, Simple, Read, Observed, Configured, Selected, Operations, Operating, Holding

\* Only an operation knows of the generation.
LEMMA OutdatedTick ==
  ASSUME NEW t \in Ticks
  PROVE  /\ Outdated(t) \in Ticks
         /\ Outdated(t).phase = t.phase
         /\ t.phase \in Operating =>
              /\ Outdated(t) = [t EXCEPT !.current = FALSE]
              /\ Outdated(t) \in Operations
         /\ t.phase \notin Operating => Outdated(t) = t
<1>1. CASE t \in Operations
  <2>1. "current" \in DOMAIN t
    BY <1>1 DEF Operations
  <2>2. Outdated(t) = [t EXCEPT !.current = FALSE]
    BY <2>1 DEF Outdated
  <2>3. Outdated(t) \in Operations /\ Outdated(t).phase = t.phase /\ t.phase \in Operating
    BY <1>1, <2>2 DEF Operations
  <2> QED
    BY <2>2, <2>3 DEF Ticks
<1>2. CASE t \in Simple \union Read \union Observed \union Configured \union Selected
  <2>1. "current" \notin DOMAIN t
    BY <1>2 DEF Simple, Read, Observed, Configured, Selected
  <2>2. t.phase \notin Operating
    BY <1>2 DEF Simple, Read, Observed, Configured, Selected, Operating, Holding
  <2> QED
    BY <2>1, <2>2 DEF Outdated
<1> QED
  BY <1>1, <1>2 DEF Ticks

\* A step of an operation within its record.
LEMMA ToPhase ==
  ASSUME tick \in Operations, NEW phase \in Operating, To(phase)
  PROVE  /\ tick' \in Operations /\ tick' \in Ticks
         /\ tick'.phase = phase /\ tick'.outcome = tick.outcome
         /\ tick'.current = tick.current /\ tick'.source = tick.source
BY DEF To, Operations, Ticks

LEMMA EndedWith ==
  ASSUME tick \in Operations, NEW outcome \in {"confirmed", "failed", "blocked"},
         Ended(outcome)
  PROVE  /\ tick' \in Operations /\ tick' \in Ticks
         /\ tick'.phase = "done" /\ tick'.outcome = outcome
         /\ tick'.current = tick.current /\ tick'.source = tick.source
BY DEF Ended, Operations, Ticks, Operating, Holding

LEMMA FinishedTarget ==
  ASSUME retry \in {NoTarget} \union Targets, NEW failing \in BOOLEAN, Finished(failing)
  PROVE  /\ retry' \in {NoTarget} \union Targets
         /\ retry' # NoTarget =>
              retry # NoTarget /\ retry'.of = retry.of /\ retry'.source = retry.source
BY DEF Finished, Targets, NoTarget

-----------------------------------------------------------------------------
(* What handlers do to the shared state.                                   *)

\* Everything the policy had observed is forgotten.
Forgotten ==
  /\ policy' \in Policies
  /\ policy'.candidate = NoSource /\ policy'.stable = NoSource
  /\ retry' = NoTarget
  /\ run' = NoRun

LEMMA ForgottenIsFine ==
  ASSUME Forgotten, tick' \in Ticks, boot' \in Nat
  PROVE  /\ retry' \in {NoTarget} \union Targets
         /\ run' \in [of : SourceOption, since : Nat]
         /\ ObservedThroughout' /\ RetryMatchesRules'
<1>1. run' \in [of : SourceOption, since : Nat]
  BY DEF Forgotten, NoRun, SourceOption
<1>2. tick'.phase \in {"selected"} \union Operating => tick'.source \in Sources
  BY Shapes DEF Selected, Operations
<1>3. NoSource \notin Sources
  BY DEF Sources, NoSource
<1> QED
  BY <1>1, <1>2, <1>3 DEF Forgotten, ObservedThroughout, RetryMatchesRules, NoRun

\* The status of an automation that is off or paused may keep any state.
LEMMA AppliedForgets ==
  ASSUME IInv, NEW r, Applied(r)
  PROVE  /\ status' \in [state : States, last : Profiles \union {NoProfile}, fresh : BOOLEAN]
         /\ \/ UNCHANGED <<policy, retry, status, run>> /\ r.decision # "Invalidated"
            \/ /\ Forgotten
               /\ status'.state = status.state \/ status'.state = "blocked_sample"
               /\ status'.state = "applying" => Stopped(config) # "monitoring"
<1>1. CASE r.decision = "Invalidated"
  <2>1. Forgotten
    BY <1>1, BlockedForgets DEF Applied, Forgotten, IInv, TypeOK
  <2>2. /\ status' \in [state : States, last : Profiles \union {NoProfile}, fresh : BOOLEAN]
        /\ status'.state = IF config.enabled /\ ~config.override THEN "blocked_sample"
                           ELSE status.state
    BY <1>1 DEF Applied, IInv, TypeOK, States
  <2> QED
    BY <2>1, <2>2 DEF Stopped
<1>2. CASE r.decision # "Invalidated"
  BY <1>2 DEF Applied, IInv, TypeOK
<1> QED
  BY <1>1, <1>2

LEMMA StoppedIsAState ==
  ASSUME NEW c
  PROVE  Stopped(c) \in States /\ Stopped(c) # "applying"
BY DEF Stopped, States

-----------------------------------------------------------------------------
(* The telemetry task up to the start of an operation.                     *)

LEMMA TickBeginsKeepsIInv ==
  ASSUME IInv, TickChecksClocks \/ TickLosesUPower \/ TickObserves
  PROVE  IInv'
<1> USE DEF IInv
<1>1. PICK r : Applied(r) \/ UNCHANGED <<barrier, policy, retry, status, run>>
  BY DEF TickChecksClocks, TickLosesUPower, TickObserves
<1>2. /\ tick.phase \notin {"selected"} \union Operating
      /\ tick'.phase \notin {"selected"} \union Operating
      /\ tick' \in Ticks
  <2>1. CASE TickChecksClocks
    BY <2>1 DEF TickChecksClocks, Idle, Ticks, Simple, Operating, Holding
  <2>2. CASE TickLosesUPower
    BY <2>2 DEF TickLosesUPower, Ticks, Read, Samples, Operating, Holding
  <2>3. CASE TickObserves
    <3>1. tick \in Read /\ tick.phase = "read"
      BY <2>3, Shapes DEF TickObserves, TypeOK
    <3>2. PICK b \in BOOLEAN :
            tick' = [phase |-> "observed", sample |-> tick.sample, eligible |-> b]
      BY <2>3 DEF TickObserves
    <3> QED
      BY <3>1, <3>2 DEF Ticks, Read, Observed, Operating, Holding
  <2> QED
    BY <2>1, <2>2, <2>3
<1>3. UNCHANGED <<config, manual, lock, hw, boot, refreshed, held>>
  BY DEF TickChecksClocks, TickLosesUPower, TickObserves, machine
<1>4. CASE UNCHANGED <<policy, retry, status, run>>
  BY <1>2, <1>3, <1>4
     DEF TypeOK, OneHolder, HeldIsSafe, ApplyingIsCurrent, OutdatedIsHidden, Operating,
         Holding, RetryMatchesRules, ObservedThroughout, Dwelled, Stopped
<1>5. CASE Forgotten /\ Applied(r)
  BY <1>2, <1>3, <1>5, AppliedForgets, ForgottenIsFine
     DEF TypeOK, OneHolder, HeldIsSafe, ApplyingIsCurrent, OutdatedIsHidden, Operating,
         Holding, RetryMatchesRules, ObservedThroughout, Dwelled, Stopped, Forgotten
<1> QED
  BY <1>1, <1>4, <1>5, AppliedForgets

LEMMA TickReadsKeepsIInv ==
  ASSUME IInv, NEW source \in Sources, NEW updateTime \in {refreshed, Wall},
         TickReads(source, updateTime)
  PROVE  IInv'
<1> USE DEF IInv, TickReads, shared
<1>1. updateTime \in Nat
  BY DEF TypeOK, Wall
<1>2. tick' \in Ticks /\ tick'.phase = "read"
  BY <1>1 DEF Ticks, Read, Samples
<1> QED
  BY <1>1, <1>2
     DEF TypeOK, OneHolder, HeldIsSafe, ApplyingIsCurrent, OutdatedIsHidden, Operating,
         Holding, RetryMatchesRules, ObservedThroughout, Dwelled, Stopped

LEMMA ReadsConfigKeepsIInv == ASSUME IInv, TickReadsConfig PROVE IInv'
<1> USE DEF IInv, TickReadsConfig, machine
<1>1. tick \in Observed
  BY Shapes DEF TypeOK
<1>2. CASE config.enabled /\ ~config.override
  <2>1. tick' \in Ticks /\ tick'.phase = "configured"
    BY <1>1, <1>2 DEF Ticks, Observed, Configured, Active, TypeOK
  <2> QED
    BY <1>2, <2>1
     DEF TypeOK, OneHolder, HeldIsSafe, ApplyingIsCurrent, OutdatedIsHidden, Operating,
         Holding, RetryMatchesRules, ObservedThroughout, Dwelled, Stopped
<1>3. CASE ~(config.enabled /\ ~config.override)
  <2>1. tick' \in Ticks /\ tick'.phase = "idle"
    BY <1>3 DEF Ticks, Simple, Idle
  <2>2. /\ status' \in [state : States, last : Profiles \union {NoProfile}, fresh : BOOLEAN]
        /\ status'.state # "applying"
    BY <1>3, StoppedIsAState DEF TypeOK
  <2> QED
    BY <1>3, <2>1, <2>2
     DEF TypeOK, OneHolder, HeldIsSafe, ApplyingIsCurrent, OutdatedIsHidden, Operating,
         Holding, RetryMatchesRules, ObservedThroughout, Dwelled, Stopped
<1> QED
  BY <1>2, <1>3

LEMMA BlocksKeepsIInv == ASSUME IInv, TickBlocks PROVE IInv'
<1> USE DEF IInv, TickBlocks, machine
<1>1. tick \in Configured
  BY Shapes DEF TypeOK
<1>2. tick' \in Ticks /\ tick'.phase = "idle"
  BY DEF Ticks, Simple, Idle
<1>3. Forgotten
  BY <1>1, BlockedForgets DEF Forgotten, TypeOK, Configured, Active
<1>4. /\ status' \in [state : States, last : Profiles \union {NoProfile}, fresh : BOOLEAN]
      /\ status'.state # "applying"
  BY DEF TypeOK, States
<1> QED
  BY <1>2, <1>3, <1>4, ForgottenIsFine
     DEF TypeOK, OneHolder, HeldIsSafe, ApplyingIsCurrent, OutdatedIsHidden, Operating,
         Holding, RetryMatchesRules, ObservedThroughout, Dwelled, Stopped, Forgotten

LEMMA StartsKeepsIInv == ASSUME IInv, TickStarts PROVE IInv'
<1> USE DEF IInv, TickStarts, machine
<1>1. tick \in Selected
  BY Shapes DEF TypeOK
<1> DEFINE profile == tick.config.chosen[tick.source]
<1>2. profile \in Profiles \union {NoProfile}
  BY <1>1 DEF Selected, Configs
<1>3. CASE profile = NoProfile \/ ~WritesEnabled
  <2>1. tick' \in Ticks /\ tick'.phase = "idle"
    BY <1>3 DEF Ticks, Simple, Idle
  <2>2. /\ status' \in [state : States, last : Profiles \union {NoProfile}, fresh : BOOLEAN]
        /\ status'.state # "applying"
    BY <1>3 DEF TypeOK, States
  <2> QED
    BY <2>1, <2>2
     DEF TypeOK, OneHolder, HeldIsSafe, ApplyingIsCurrent, OutdatedIsHidden, Operating,
         Holding, RetryMatchesRules, ObservedThroughout, Dwelled, Stopped
<1>4. CASE ~(profile = NoProfile \/ ~WritesEnabled)
  <2>1. tick' = [phase |-> "waiting", sample |-> tick.sample, source |-> tick.source,
                 profile |-> profile, current |-> TRUE, outcome |-> "none"]
    BY <1>4
  <2>2. /\ tick' \in Operations /\ tick'.phase = "waiting" /\ tick'.current = TRUE
        /\ tick'.source = tick.source
    BY <1>1, <1>2, <1>4, <2>1 DEF Operations, Operating, Selected
  <2>3. tick' \in Ticks
    BY <2>2 DEF Ticks
  <2>4. /\ status' \in [state : States, last : Profiles \union {NoProfile}, fresh : BOOLEAN]
    BY <1>4 DEF TypeOK, States
  <2> QED
    BY <2>2, <2>3, <2>4
     DEF TypeOK, OneHolder, HeldIsSafe, ApplyingIsCurrent, OutdatedIsHidden, Operating,
         Holding, RetryMatchesRules, ObservedThroughout, Dwelled, Stopped
<1> QED
  BY <1>3, <1>4

LEMMA EvaluatesKeepsIInv ==
  ASSUME IInv, NEW due \in BOOLEAN, TickEvaluates(due)
  PROVE  IInv'
<1> DEFINE source == tick.sample.source
           e == Evaluated(policy, Prefs(tick.config), boot, source, NoLevel)
           kept == IF e.policy.stable = source /\ retry # NoTarget
                      /\ retry.source = source /\ tick.config.chosen[source] = retry.of
                   THEN retry ELSE NoTarget
<1> USE DEF IInv, machine
<1>1. /\ tick \in Configured /\ source \in Sources
      /\ tick.config \in Configs /\ tick.config.enabled /\ ~tick.config.override
  <2>1. tick \in Configured
    BY Shapes DEF TickEvaluates, TypeOK
  <2>2. tick.sample \in Samples /\ tick.sample # Missing
    BY <2>1 DEF TickEvaluates, Eligible, Configured
  <2> QED
    BY <2>1, <2>2 DEF Samples, Configured, Active
<1>2. /\ e.policy \in Policies
      /\ e.policy.candidate \in {NoSource, source}
      /\ e.policy.candidate = source =>
           e.policy.since = boot \/ (policy.candidate = source /\ e.policy.since = policy.since)
      /\ e.action # NoPreset => policy.candidate = source /\ boot - policy.since >= Dwell
  BY <1>1, EvaluatedPolicy DEF TypeOK
<1>3. /\ policy' = e.policy
      /\ run' = IF run.of = source THEN run ELSE [of |-> source, since |-> boot]
      /\ retry' = IF e.action = NoPreset THEN kept ELSE retry
      /\ \/ /\ tick' = Idle
            /\ status' = [status EXCEPT !.fresh = TRUE,
                 !.state = IF @ \in {"blocked_sample", "blocked_rule"}
                              \/ (@ = "failing" /\ kept # NoTarget)
                           THEN @ ELSE "monitoring"]
         \/ /\ tick' = [phase |-> "selected", sample |-> tick.sample,
                         config |-> tick.config, source |-> source]
            /\ status' = [status EXCEPT !.fresh = TRUE]
            /\ e.action # NoPreset \/ kept # NoTarget
      /\ UNCHANGED <<barrier, config, manual, lock, hw, machine, held>>
  BY Zenon DEF TickEvaluates
<1> HIDE DEF e
<1>0. /\ status' \in [state : States, last : Profiles \union {NoProfile}, fresh : BOOLEAN]
      /\ \/ status'.state # "applying"
         \/ status'.state = status.state /\ tick'.phase = "selected"
  <2> DEFINE keeps == kept # NoTarget
  <2>1. \/ status' = [status EXCEPT !.fresh = TRUE,
               !.state = IF @ \in {"blocked_sample", "blocked_rule"} \/ (@ = "failing" /\ keeps)
                         THEN @ ELSE "monitoring"]
        \/ status' = [status EXCEPT !.fresh = TRUE] /\ tick'.phase = "selected"
    BY <1>3
  <2> HIDE DEF keeps
  <2> QED
    BY <2>1 DEF TypeOK, States
<1>4. run' \in [of : SourceOption, since : Nat] /\ run'.of = source
  BY <1>1, <1>3 DEF TypeOK, SourceOption
<1>5. /\ retry' \in {NoTarget, retry}
      /\ retry' # NoTarget => retry.source = source
      /\ e.action # NoPreset \/ kept # NoTarget =>
           Dwelled(source) /\ run' = run /\ boot' = boot
  <2>1. CASE e.action # NoPreset
    <3>1. run.of = source /\ run.since <= policy.since /\ boot - policy.since >= Dwell
      BY <1>1, <1>2, <2>1 DEF ObservedThroughout, Sources, NoSource
    <3>2. boot - run.since >= Dwell
      BY <3>1, PolicyAssumption DEF TypeOK, Policies
    <3>3. run' = run /\ boot' = boot /\ retry' = retry
      BY <1>3, <2>1, <3>1
    <3>4. retry # NoTarget => retry.source = source
      BY <3>1 DEF ObservedThroughout, Dwelled
    <3> QED
      BY <3>1, <3>2, <3>3, <3>4 DEF Dwelled
  <2>2. CASE e.action = NoPreset /\ kept # NoTarget
    <3>1. retry # NoTarget /\ retry.source = source /\ kept = retry
      BY <2>2
    <3>2. Dwelled(source)
      BY <3>1 DEF ObservedThroughout
    <3> QED
      BY <1>3, <2>2, <3>1, <3>2 DEF Dwelled
  <2>3. CASE e.action = NoPreset /\ kept = NoTarget
    BY <1>3, <2>3
  <2> QED
    BY <2>1, <2>2, <2>3
<1>6. retry' # NoTarget => Dwelled(retry.source) /\ run' = run /\ boot' = boot
  BY <1>3, <1>5 DEF ObservedThroughout
<1>7. tick' \in Ticks /\ tick'.phase \in {"idle", "selected"}
      /\ (tick'.phase = "selected" => tick'.source = source)
  BY <1>1, <1>3 DEF Ticks, Simple, Selected, Idle, Configured
<1>8. policy'.candidate # NoSource => run'.of = policy'.candidate /\ run'.since <= policy'.since
  <2>1. CASE policy.candidate = source /\ e.policy.since = policy.since
    BY <1>1, <1>2, <1>3, <2>1 DEF ObservedThroughout, Sources, NoSource
  <2>2. CASE e.policy.candidate = source /\ e.policy.since = boot
    <3>1. run'.since <= boot
      BY <1>3 DEF TypeOK, ObservedThroughout
    <3> QED
      BY <1>2, <1>3, <1>4, <2>2, <3>1
  <2> QED
    BY <1>2, <1>3, <2>1, <2>2
<1>9. ObservedThroughout'
  <2>1. run'.since <= boot'
    BY <1>3 DEF TypeOK, ObservedThroughout
  <2>2. retry' # NoTarget => Dwelled(retry.source)' 
    BY <1>5, <1>6 DEF Dwelled
  <2>3. tick'.phase = "selected" => Dwelled(tick.source)'
    <3>1. SUFFICES ASSUME tick'.phase = "selected" PROVE Dwelled(tick.source)'
      OBVIOUS
    <3>2. tick' # Idle
      BY <3>1 DEF Idle
    <3>3. Dwelled(source) /\ run' = run /\ boot' = boot
      BY <1>3, <1>5, <3>2
    <3> QED
      BY <1>7, <3>1, <3>3 DEF Dwelled
  <2> QED
    BY <1>7, <1>8, <2>1, <2>2, <2>3 DEF ObservedThroughout, Operating, Holding
<1>10. TypeOK'
  BY <1>0, <1>2, <1>3, <1>4, <1>5, <1>7 DEF TypeOK
<1>11. OneHolder' /\ HeldIsSafe' /\ OutdatedIsHidden'
  BY <1>3, <1>7 DEF OneHolder, HeldIsSafe, OutdatedIsHidden, Operating, Holding
<1>12. RetryMatchesRules'
  BY <1>3, <1>5 DEF RetryMatchesRules
<1>13. ApplyingIsCurrent'
  <2>1. tick.phase = "configured"
    BY DEF TickEvaluates
  <2> QED
    BY <1>0, <1>3, <2>1 DEF ApplyingIsCurrent, Stopped
<1> QED
  BY <1>9, <1>10, <1>11, <1>12, <1>13

-----------------------------------------------------------------------------
(* An operation.                                                           *)

LEMMA LocksKeepsIInv == ASSUME IInv, TickLocks PROVE IInv'
<1> USE DEF IInv, TickLocks, shared, machine
<1>1. tick \in Operations
  BY Shapes DEF TypeOK, Operating
<1>2. CASE config.enabled /\ ~config.override
  <2>1. To("locked") /\ lock' = "tick"
    BY <1>2
  <2>2. /\ tick' \in Operations /\ tick' \in Ticks /\ tick'.phase = "locked"
        /\ tick'.current = tick.current /\ tick'.source = tick.source
    BY <1>1, <2>1, ToPhase DEF Operating, Holding
  <2> QED
    BY <1>1, <2>1, <2>2
     DEF TypeOK, OneHolder, HeldIsSafe, ApplyingIsCurrent, OutdatedIsHidden, Operating,
         Holding, RetryMatchesRules, ObservedThroughout, Dwelled, Stopped, Free
<1>3. CASE ~(config.enabled /\ ~config.override)
  <2>1. tick' \in Ticks /\ tick'.phase = "idle"
    BY <1>3 DEF Ticks, Simple, Idle
  <2>2. Stopped(config) # "monitoring"
    BY <1>3 DEF Stopped
  <2> QED
    BY <1>3, <2>1, <2>2
     DEF TypeOK, OneHolder, HeldIsSafe, ApplyingIsCurrent, OutdatedIsHidden, Operating,
         Holding, RetryMatchesRules, ObservedThroughout, Dwelled, Stopped
<1> QED
  BY <1>2, <1>3

\* The steps that hold the hardware and may learn of the write's fate.
LEMMA WorksKeepsIInv ==
  ASSUME IInv, TickPreflights \/ TickCompares \/ TickStartsWrite
               \/ TickFinishesWrite \/ TickFails
  PROVE  IInv'
<1> USE DEF IInv
<1>1. /\ tick \in Operations /\ tick.phase \in Holding \ {"done"}
      /\ UNCHANGED <<config, policy, status, manual, lock, boot, refreshed, run, held>>
  BY Shapes DEF TypeOK, Operating, Holding, machine,
     TickPreflights, TickCompares, TickStartsWrite, TickFinishesWrite, TickFails
<1>2. /\ tick' \in Operations /\ tick' \in Ticks /\ tick'.phase \in Holding
      /\ tick'.phase = "done" => tick'.outcome # "none"
      /\ tick'.phase = "writing" => ~config.override
      /\ tick'.current = tick.current /\ tick'.source = tick.source
  <2>1. CASE \E phase \in {"comparing", "prepared"} : To(phase)
    BY <1>1, <2>1, ToPhase DEF Operating, Holding
  <2>2. CASE To("writing") /\ Preflight
    <3>1. ~config.override
      BY <2>2 DEF Preflight
    <3>2. /\ tick' \in Operations /\ tick' \in Ticks /\ tick'.phase = "writing"
          /\ tick'.current = tick.current /\ tick'.source = tick.source
      BY <1>1, <2>2, ToPhase DEF Operating, Holding
    <3> QED
      BY <3>1, <3>2 DEF Holding
  <2>3. CASE \E outcome \in {"confirmed", "failed", "blocked"} : Ended(outcome)
    BY <1>1, <2>3, EndedWith DEF Operating, Holding
  <2> QED
    BY <2>1, <2>2, <2>3
       DEF TickPreflights, TickCompares, TickStartsWrite, TickFinishesWrite, TickFails
<1>3. /\ retry' \in {NoTarget} \union Targets
      /\ retry' # NoTarget =>
           /\ config.enabled /\ ~config.override
           /\ config.chosen[retry'.source] = retry'.of
           /\ Dwelled(retry'.source)
  <2>1. CASE UNCHANGED retry \/ retry' = NoTarget
    BY <2>1 DEF TypeOK, RetryMatchesRules, ObservedThroughout
  <2>2. CASE \E failing \in BOOLEAN : Finished(failing)
    BY <2>2, FinishedTarget DEF TypeOK, RetryMatchesRules, ObservedThroughout
  <2>3. CASE /\ TickPreflights /\ Preflight
             /\ retry' = [of |-> tick.profile, source |-> tick.source, failing |-> FALSE]
    BY <1>1, <2>3 DEF Operations, Targets, Preflight, ObservedThroughout, Operating
  <2> QED
    BY <2>1, <2>2, <2>3
       DEF TickPreflights, TickCompares, TickStartsWrite, TickFinishesWrite, TickFails
<1>4. held => hw' = hw
  BY DEF HeldIsSafe, TickPreflights, TickCompares, TickStartsWrite, TickFinishesWrite, TickFails
<1>5. TypeOK' /\ OneHolder' /\ HeldIsSafe'
  BY <1>1, <1>2, <1>3, <1>4 DEF TypeOK, OneHolder, HeldIsSafe, Operating, Holding
<1>6. RetryMatchesRules' /\ ApplyingIsCurrent' /\ OutdatedIsHidden'
  BY <1>1, <1>2, <1>3 DEF RetryMatchesRules, ApplyingIsCurrent, OutdatedIsHidden,
     Operating, Holding, Stopped
<1>7. ObservedThroughout'
  BY <1>1, <1>2, <1>3 DEF ObservedThroughout, Dwelled, Operating
<1> QED
  BY <1>5, <1>6, <1>7

LEMMA UnlocksKeepsIInv == ASSUME IInv, TickUnlocks PROVE IInv'
<1> USE DEF IInv, TickUnlocks, shared, machine
<1>1. tick \in Operations
  BY Shapes DEF TypeOK, Operating, Holding
<1>2. CASE tick.current
  <2>1. /\ tick' \in Operations /\ tick' \in Ticks /\ tick'.phase = "reporting"
        /\ tick'.current = tick.current /\ tick'.source = tick.source
        /\ tick'.outcome = tick.outcome
    BY <1>1, <1>2, ToPhase DEF Operating, Holding
  <2> QED
    BY <1>1, <1>2, <2>1
     DEF TypeOK, OneHolder, HeldIsSafe, ApplyingIsCurrent, OutdatedIsHidden, Operating,
         Holding, RetryMatchesRules, ObservedThroughout, Dwelled, Stopped, Free
<1>3. CASE ~tick.current
  <2>1. tick' \in Ticks /\ tick'.phase = "idle"
    BY <1>3 DEF Ticks, Simple, Idle
  <2> QED
    BY <1>3, <2>1
     DEF TypeOK, OneHolder, HeldIsSafe, ApplyingIsCurrent, OutdatedIsHidden, Operating,
         Holding, RetryMatchesRules, ObservedThroughout, Dwelled, Stopped, Free
<1> QED
  BY <1>2, <1>3

LEMMA ReportsKeepsIInv == ASSUME IInv, TickReports PROVE IInv'
<1> USE DEF IInv, TickReports, machine
<1>1. tick \in Operations /\ tick.outcome \in {"confirmed", "failed", "blocked"}
  BY Shapes DEF TypeOK, Operating, Operations, OutdatedIsHidden
<1>2. tick' \in Ticks /\ tick'.phase = "idle"
  BY DEF Ticks, Simple, Idle
<1>3. /\ status' \in [state : States, last : Profiles \union {NoProfile}, fresh : BOOLEAN]
      /\ status'.state # "applying"
  <2>1. CASE Stopped(config) # "monitoring"
    BY <2>1, StoppedIsAState DEF TypeOK
  <2>2. CASE Stopped(config) = "monitoring"
    BY <1>1, <2>2 DEF TypeOK, States, Operations
  <2> QED
    BY <2>1, <2>2
<1> QED
  BY <1>2, <1>3
     DEF TypeOK, OneHolder, HeldIsSafe, ApplyingIsCurrent, OutdatedIsHidden, Operating,
         Holding, RetryMatchesRules, ObservedThroughout, Dwelled, Stopped

-----------------------------------------------------------------------------
(* D-Bus methods, signals and time.                                        *)

\* A handler that resets the policy, outdates the operation under way and
\* says what the new rules let the task do.
Reset(c) ==
  /\ config' = c /\ c \in Configs
  /\ Forgotten
  /\ status' \in [state : States, last : Profiles \union {NoProfile}, fresh : BOOLEAN]
  /\ status'.state # "applying"
  /\ tick' = Outdated(tick)
  /\ UNCHANGED <<boot, refreshed>>

LEMMA ResetIsFine ==
  ASSUME IInv, NEW c, Reset(c),
         UNCHANGED <<manual, lock, hw>> \/ (manual' = "waiting" /\ manual = "idle" /\ UNCHANGED <<lock, hw>>),
         held' \in BOOLEAN, held' => held /\ c.override
  PROVE  IInv'
<1> USE DEF IInv, Reset
<1>1. /\ tick' \in Ticks /\ tick'.phase = tick.phase
      /\ tick.phase \in Operating =>
           /\ tick \in Operations
           /\ tick' = [tick EXCEPT !.current = FALSE]
  BY OutdatedTick, Shapes DEF TypeOK
<1>2. tick.phase \in Operating => tick'.outcome = tick.outcome
  BY <1>1 DEF Operations
<1>3. /\ retry' \in {NoTarget} \union Targets
      /\ run' \in [of : SourceOption, since : Nat]
      /\ ObservedThroughout' /\ RetryMatchesRules'
  BY <1>1, ForgottenIsFine DEF TypeOK
<1>4. TypeOK'
  BY <1>1, <1>3 DEF TypeOK, Forgotten
<1>5. OneHolder' /\ HeldIsSafe'
  <2>1. OneHolder'
    BY <1>1 DEF OneHolder
  <2>2. HeldIsSafe'
    BY <1>1 DEF HeldIsSafe
  <2> QED
    BY <2>1, <2>2
<1>6. ApplyingIsCurrent' /\ OutdatedIsHidden'
  BY <1>1, <1>2 DEF ApplyingIsCurrent, OutdatedIsHidden, Operating, Holding
<1> QED
  BY <1>3, <1>4, <1>5, <1>6

\* A handler that leaves all but the status as it is, as the rules stay.
LEMMA StatusIsFine ==
  ASSUME IInv, UNCHANGED <<config, policy, tick, run, lock, hw, boot, refreshed>>,
         retry' \in {NoTarget, retry},
         UNCHANGED manual \/ (manual' = "waiting" /\ manual = "idle"),
         held' \in BOOLEAN, held' => held,
         status' \in [state : States, last : Profiles \union {NoProfile}, fresh : BOOLEAN],
         status'.state \in {status.state} \union (States \ {"applying"})
  PROVE  IInv'
<1>1. TypeOK'
  BY DEF IInv, TypeOK
<1>2. OneHolder' /\ HeldIsSafe'
  BY DEF IInv, OneHolder, HeldIsSafe
<1>3. RetryMatchesRules' /\ ObservedThroughout'
  BY DEF IInv, RetryMatchesRules, ObservedThroughout, Dwelled
<1>4. ApplyingIsCurrent' /\ OutdatedIsHidden'
  BY DEF IInv, ApplyingIsCurrent, OutdatedIsHidden, Stopped
<1> QED
  BY <1>1, <1>2, <1>3, <1>4 DEF IInv

LEMMA PausedConfig ==
  ASSUME config \in Configs
  PROVE  /\ Paused \in Configs /\ Paused.override = TRUE
         /\ config.override => Paused = config
BY DEF Configs, Paused

LEMMA ManualRequestKeepsIInv == ASSUME IInv, ManualRequest PROVE IInv'
<1> USE DEF IInv, ManualRequest, machine
<1>1. CASE ~(config.enabled /\ ~config.override)
  BY <1>1, StatusIsFine DEF TypeOK
<1>2. CASE config.enabled /\ ~config.override
  <2>1. /\ status' \in [state : States, last : Profiles \union {NoProfile}, fresh : BOOLEAN]
        /\ status'.state = "manual_override"
    BY <1>2 DEF TypeOK, States
  <2>2. Reset(Paused)
    BY <1>2, <2>1, PausedConfig, PauseForgets DEF TypeOK, Reset, Forgotten
  <2> QED
    BY <1>2, <2>2, PausedConfig, ResetIsFine DEF TypeOK
<1> QED
  BY <1>1, <1>2

LEMMA ReconfiguredKeepsIInv ==
  ASSUME IInv, NEW c \in Configs, Reconfigured(c),
         UNCHANGED <<manual, lock, hw, boot, refreshed>>,
         held' \in BOOLEAN, held' => held /\ c.override
  PROVE  IInv'
<1>1. CASE c = config
  BY <1>1, StatusIsFine DEF Reconfigured, IInv, TypeOK
<1>2. CASE c # config
  <2>1. /\ status' \in [state : States, last : Profiles \union {NoProfile}, fresh : BOOLEAN]
        /\ status'.state = Stopped(c)
    BY <1>2, StoppedIsAState DEF Reconfigured, IInv, TypeOK
  <2>2. Reset(c)
    BY <1>2, <2>1, ResetForgets, StoppedIsAState DEF Reconfigured, Reset, Forgotten, IInv, TypeOK
  <2> QED
    BY <2>2, ResetIsFine
<1> QED
  BY <1>1, <1>2

LEMMA SetConfigurationKeepsIInv ==
  ASSUME IInv, NEW enabled \in BOOLEAN, NEW chosen \in Choices,
         SetConfiguration(enabled, chosen)
  PROVE  IInv'
<1> DEFINE c == [config EXCEPT !.enabled = enabled, !.chosen = chosen]
<1>1. c \in Configs /\ c.override = config.override
  BY DaemonAssumption DEF IInv, TypeOK, Configs
<1>2. held' = held /\ (held => c.override)
  BY <1>1 DEF IInv, HeldIsSafe, SetConfiguration
<1>3. Reconfigured(c) /\ held' \in BOOLEAN /\ UNCHANGED <<manual, lock, hw, boot, refreshed>>
  BY <1>2 DEF SetConfiguration, machine, IInv, TypeOK
<1> HIDE DEF c
<1> QED
  BY <1>1, <1>2, <1>3, ReconfiguredKeepsIInv

LEMMA ResetConfigurationKeepsIInv == ASSUME IInv, ResetConfiguration PROVE IInv'
<1> DEFINE c == [enabled |-> FALSE, override |-> FALSE, chosen |-> [s \in Sources |-> NoProfile]]
<1>1. c \in Configs
  BY DEF Configs
<1> QED
  BY <1>1, ReconfiguredKeepsIInv DEF ResetConfiguration, machine

LEMMA StoresKeepIInv == ASSUME IInv, PauseAutomation \/ ResumeAutomation PROVE IInv'
<1>1. CASE PauseAutomation
  <2>1. Paused \in Configs /\ Paused.override = TRUE
    BY PausedConfig DEF IInv, TypeOK
  <2> QED
    BY <1>1, <2>1, ReconfiguredKeepsIInv DEF PauseAutomation, machine, IInv, TypeOK
<1>2. CASE ResumeAutomation
  <2>1. [config EXCEPT !.override = FALSE] \in Configs
    BY DEF IInv, TypeOK, Configs
  <2> QED
    BY <1>2, <2>1, ReconfiguredKeepsIInv DEF ResumeAutomation, machine
<1> QED
  BY <1>1, <1>2

\* A late step of a pause or resume drops what the policy waits for.
LEMMA PolicyStepsKeepIInv == ASSUME IInv, PausePolicy \/ ResumeEndsPause PROVE IInv'
<1>1. /\ policy' \in Policies
      /\ policy'.candidate = NoSource \/ policy' = policy
      /\ policy'.stable \in {policy.stable, NoSource}
  BY LateForgets, ResumeForgets DEF PausePolicy, ResumeEndsPause, IInv, TypeOK
<1>2. UNCHANGED <<barrier, config, retry, status, tick, manual, lock, hw, boot, refreshed,
                  run, held>>
  BY DEF PausePolicy, ResumeEndsPause, machine
<1>3. TypeOK' /\ OneHolder' /\ HeldIsSafe'
  BY <1>1, <1>2 DEF IInv, TypeOK, OneHolder, HeldIsSafe
<1>4. RetryMatchesRules' /\ ApplyingIsCurrent' /\ OutdatedIsHidden'
  BY <1>2 DEF IInv, RetryMatchesRules, ApplyingIsCurrent, OutdatedIsHidden, Stopped
<1>5. ObservedThroughout'
  <2>1. tick.phase \in {"selected"} \union Operating => tick.source # NoSource
    BY Shapes DEF IInv, TypeOK, Selected, Operations, Sources, NoSource
  <2> QED
    BY <1>1, <1>2, <2>1 DEF IInv, ObservedThroughout, Dwelled
<1> QED
  BY <1>3, <1>4, <1>5 DEF IInv

LEMMA StatusStepsKeepIInv ==
  ASSUME IInv, PauseStatus \/ ResumeForgetsRetry \/ ResumeStatus
  PROVE  IInv'
<1>1. /\ UNCHANGED <<config, policy, tick, run, manual, lock, hw, boot, refreshed, held>>
      /\ retry' \in {NoTarget, retry}
  BY DEF PauseStatus, ResumeForgetsRetry, ResumeStatus, machine
<1>2. /\ status' \in [state : States, last : Profiles \union {NoProfile}, fresh : BOOLEAN]
      /\ status'.state \in {status.state} \union (States \ {"applying"})
  BY DEF PauseStatus, ResumeForgetsRetry, ResumeStatus, IInv, TypeOK, States
<1> QED
  BY <1>1, <1>2, StatusIsFine DEF IInv, TypeOK

LEMMA ManualStepKeepsIInv == ASSUME IInv, ManualStep PROVE IInv'
<1> USE DEF IInv, ManualStep, ManualLocks, ManualFinishes
<1>1. /\ manual' \in {"idle", "waiting", "writing"} /\ lock' \in {Free, "tick", "manual"}
      /\ held' \in BOOLEAN
      /\ UNCHANGED <<shared, tick, machine, run>>
  BY DEF TypeOK, Configs
<1>2. TypeOK'
  BY <1>1 DEF TypeOK, shared, machine
<1>3. OneHolder'
  BY <1>1 DEF OneHolder, Free
<1>4. HeldIsSafe'
  <2>1. CASE UNCHANGED <<held, hw>>
    BY <1>1, <2>1 DEF HeldIsSafe, shared
  <2>2. CASE manual = "writing" /\ hw' = ByHand /\ held' = config.override
    BY <1>1, <2>2 DEF HeldIsSafe, OneHolder, Holding, shared
  <2> QED
    BY <2>1, <2>2
<1>5. RetryMatchesRules' /\ ApplyingIsCurrent' /\ OutdatedIsHidden' /\ ObservedThroughout'
  BY <1>1 DEF RetryMatchesRules, ApplyingIsCurrent, OutdatedIsHidden, ObservedThroughout,
     Dwelled, Stopped, shared, machine
<1> QED
  BY <1>2, <1>3, <1>4, <1>5

LEMMA BarredKeepsIInv ==
  ASSUME IInv, NEW r, Barred(r), UNCHANGED <<config, manual, lock, hw, machine, held>>
  PROVE  IInv'
<1> USE DEF IInv
<1>1. /\ Applied(r)
      /\ tick' = IF r.decision = "Invalidated" THEN Outdated(tick) ELSE tick
  BY DEF Barred
<1>2. /\ tick' \in Ticks /\ tick'.phase = tick.phase
      /\ tick.phase \in Operating =>
           /\ tick \in Operations /\ tick'.outcome = tick.outcome
           /\ ~tick'.current => ~tick.current \/ r.decision = "Invalidated"
  BY <1>1, OutdatedTick, Shapes DEF TypeOK, Operations
<1>3. CASE UNCHANGED <<policy, retry, status, run>> /\ r.decision # "Invalidated"
  BY <1>1, <1>3
     DEF TypeOK, OneHolder, HeldIsSafe, ApplyingIsCurrent, OutdatedIsHidden, Operating,
         Holding, RetryMatchesRules, ObservedThroughout, Dwelled, Stopped, machine
<1>4. CASE /\ Forgotten
           /\ status'.state = status.state \/ status'.state = "blocked_sample"
           /\ status'.state = "applying" => Stopped(config) # "monitoring"
  BY <1>1, <1>2, <1>4, AppliedForgets, ForgottenIsFine
     DEF TypeOK, OneHolder, HeldIsSafe, ApplyingIsCurrent, OutdatedIsHidden, Operating,
         Holding, RetryMatchesRules, ObservedThroughout, Dwelled, Stopped, Forgotten, machine
<1> QED
  BY <1>1, <1>3, <1>4, AppliedForgets

LEMMA SignalsKeepIInv ==
  ASSUME IInv, ResumeRaisesBarrier \/ \E preparing \in BOOLEAN : SleepSignal(preparing)
  PROVE  IInv'
BY BarredKeepsIInv DEF ResumeRaisesBarrier, SleepSignal

LEMMA TimeKeepsIInv == ASSUME IInv, TimePasses \/ Suspend \/ UNCHANGED vars PROVE IInv'
<1>1. /\ UNCHANGED <<shared, tick, manual, lock, hw, refreshed, run, held>>
      /\ boot' \in {boot, boot + 1}
  BY DEF TimePasses, Suspend, vars, machine
<1>2. TypeOK' /\ OneHolder' /\ HeldIsSafe'
  BY <1>1 DEF IInv, TypeOK, OneHolder, HeldIsSafe, shared
<1>3. RetryMatchesRules' /\ ApplyingIsCurrent' /\ OutdatedIsHidden'
  BY <1>1 DEF IInv, RetryMatchesRules, ApplyingIsCurrent, OutdatedIsHidden, Stopped, shared
<1>4. ObservedThroughout'
  <2>1. run.since \in Nat /\ boot \in Nat /\ Dwell \in Nat
    BY PolicyAssumption DEF IInv, TypeOK
  <2>2. \A s : Dwelled(s) => Dwelled(s)'
    BY <1>1, <2>1 DEF Dwelled
  <2> QED
    BY <1>1, <2>1, <2>2 DEF IInv, ObservedThroughout, shared
<1> QED
  BY <1>2, <1>3, <1>4 DEF IInv

LEMMA InitIInv == Init => IInv
<1> SUFFICES ASSUME Init PROVE IInv
  OBVIOUS
<1>1. config \in Configs
  BY DaemonAssumption DEF Init, Configs
<1>2. policy \in Policies /\ policy.candidate = NoSource
  BY DEF Init, NewPolicy, Policies, SourceOption, PresetOption
<1>3. tick \in Ticks /\ tick.phase = "idle"
  BY DEF Init, Idle, Ticks, Simple
<1>4. TypeOK
  BY <1>1, <1>2, <1>3 DEF Init, TypeOK, States, NoRun, SourceOption
<1> QED
  BY <1>2, <1>3, <1>4
     DEF Init, IInv, OneHolder, HeldIsSafe, RetryMatchesRules, ApplyingIsCurrent,
         OutdatedIsHidden, Operating, Holding, ObservedThroughout, NoRun

LEMMA NextKeepsIInv == IInv /\ [Next]_vars => IInv'
<1> SUFFICES ASSUME IInv, [Next]_vars PROVE IInv'
  OBVIOUS
<1>1. CASE TickStep
  BY <1>1, TickBeginsKeepsIInv, TickReadsKeepsIInv, ReadsConfigKeepsIInv, BlocksKeepsIInv,
     EvaluatesKeepsIInv, StartsKeepsIInv, LocksKeepsIInv, WorksKeepsIInv, UnlocksKeepsIInv,
     ReportsKeepsIInv DEF TickStep
<1>2. CASE ~TickStep
  BY <1>2, SetConfigurationKeepsIInv,
     ResetConfigurationKeepsIInv, ManualRequestKeepsIInv, ManualStepKeepsIInv,
     StoresKeepIInv, PolicyStepsKeepIInv, StatusStepsKeepIInv, SignalsKeepIInv,
     TimeKeepsIInv DEF Next
<1> QED
  BY <1>1, <1>2

LEMMA Invariance == Spec => []IInv
BY InitIInv, NextKeepsIInv, PTL DEF Spec

-----------------------------------------------------------------------------
\* What the user sets by hand while automation is paused stays in force
\* until Resume or a reset, whatever was being written.
THEOREM ManualValuesStick == Spec => []ManualValueSticks
<1>1. IInv => ManualValueSticks
  BY DEF IInv, HeldIsSafe, ManualValueSticks
<1> QED
  BY <1>1, Invariance, PTL

\* No retry target outlives the rules it was chosen under.
THEOREM RetriesFollowRules == Spec => []RetryMatchesRules
<1>1. IInv => RetryMatchesRules
  BY DEF IInv
<1> QED
  BY <1>1, Invariance, PTL

\* A status of "applying" is backed by an operation, or about to be replaced.
THEOREM ApplyingIsNotLeftBehind == Spec => []ApplyingIsCurrent
<1>1. IInv => ApplyingIsCurrent
  BY DEF IInv
<1> QED
  BY <1>1, Invariance, PTL

\* Only TickStartsWrite starts a write, and it has just checked the policy.
LEMMA StartIsChecked ==
  ASSUME IInv, Next, tick.phase = "prepared", tick'.phase = "writing"
  PROVE  policy.stable = tick.source
<1>1. tick \in Operations
  BY Shapes DEF IInv, TypeOK, Operating, Holding
<1>2. tick' # tick /\ tick' # Outdated(tick)
  BY OutdatedTick DEF IInv, TypeOK
<1>3. \A c : ~Reconfigured(c)
  BY <1>2 DEF Reconfigured
<1>4. TickStep
  BY <1>2, <1>3 DEF Next, PauseAutomation, PausePolicy, PauseStatus, ResumeAutomation,
     ResumeRaisesBarrier, ResumeEndsPause, ResumeForgetsRetry, ResumeStatus,
     SetConfiguration, ResetConfiguration, ManualRequest, ManualStep, ManualLocks,
     ManualFinishes, SleepSignal, Barred, TimePasses, Suspend, shared
<1>5. TickStartsWrite \/ TickFails
  BY <1>4 DEF TickStep, TickChecksClocks, TickLosesUPower, TickObserves, TickReadsConfig,
     TickBlocks, TickStarts, TickLocks, TickPreflights, TickCompares, TickFinishesWrite,
     TickUnlocks, TickReports, TickReads, TickEvaluates, Idle
<1>6. tick'.phase # "done"
  OBVIOUS
<1>7. \A outcome \in {"blocked", "failed"} : ~Ended(outcome)
  BY <1>1, <1>6, EndedWith
<1> QED
  BY <1>5, <1>7 DEF TickStartsWrite, TickFails, Preflight

\* A write starts only for a source that every tick of the last dwell has
\* observed without interruption, wherever the task waited in between.
THEOREM WritesWaitForTheDwell == Spec => WriteNeedsDwell
<1>1. ASSUME IInv, [Next]_vars
      PROVE  [tick.phase = "prepared" /\ tick'.phase = "writing" =>
                run.of = tick.source /\ boot - run.since >= Dwell]_vars
  <2>1. ASSUME Next, tick.phase = "prepared", tick'.phase = "writing"
        PROVE  run.of = tick.source /\ boot - run.since >= Dwell
    BY <1>1, <2>1, StartIsChecked DEF IInv, ObservedThroughout, Operating, Holding, Dwelled
  <2> QED
    BY <1>1, <2>1
<1> QED
  BY <1>1, Invariance, PTL DEF Spec, WriteNeedsDwell
=============================================================================
