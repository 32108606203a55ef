------------------------------ MODULE FanControl ------------------------------
(***************************************************************************)
(* Who watches the custom fan curves: the fan methods of the daemon, the   *)
(* fan part of its telemetry loop and its exit (rog-daemon/src/main.rs),   *)
(* calling the root helper of FanHelper.                                   *)
(*                                                                         *)
(* The methods hold hardware_control_lock, so at most one runs; the loop   *)
(* takes no lock, and each access to the control state is a step of its    *)
(* own.  A call of the helper is three steps: request, work, answer.  What *)
(* the helper does to the channels is what FanHelper proves of it: custom  *)
(* channels are armed, so a recovery that succeeds resets every one.       *)
(* Manual percentages, RPM targets and boosts are refused by the provider  *)
(* and change nothing.                                                     *)
(***************************************************************************)
EXTENDS FiniteSets, FanChannels

CONSTANTS
  Untracked,    \* channels without an approved role temperature (Mid)
  DirectWrites  \* the daemon itself may write the channels

ASSUME FanControlAssumption ==
  Fans # {} /\ Untracked \subseteq Fans /\ DirectWrites \in BOOLEAN

VARIABLES
  danger,   \* channels whose temperature or speed is critical or not known
  owned,    \* fan_curve_owned_fan_ids
  mode,     \* fan_mode
  call,     \* the fan method that holds hardware_control_lock
  tick,     \* position of the telemetry loop in its fan part
  probe,    \* next_fan_probe_recovery_ms has passed
  life,     \* life cycle of the daemon
  late,     \* curves the helper still works on for a daemon that is gone
  asked,    \* history: SIGTERM was sent to this daemon
  applied,  \* history: curves this daemon reported applied, still custom
  disturbed \* history: a method did its bookkeeping during a tick or the exit,
            \* or the helper did what an earlier daemon had asked for

control == <<owned, mode>>
history == <<asked, applied, disturbed>>
watchVars == <<custom, danger, owned, mode, call, tick, probe, life, late, history>>

Modes == {"Auto", "Curve", "ReadOnly"}

-----------------------------------------------------------------------------
NoCall == [phase |-> "none"]
Asked(op, fans) == [phase |-> "asked", op |-> op, fans |-> fans]
Answered(op, fans) == [phase |-> "answered", op |-> op, fans |-> fans]
Listed(op, fans, next) ==
  [phase |-> "listed", op |-> op, fans |-> fans, mode |-> next]

Between == [pc |-> "between"]
At(pc) == [pc |-> pc]
Seeing(pc, seen) == [pc |-> pc, seen |-> seen]
Judging(current) == [pc |-> "judge", current |-> current]
Keeping(keep) == [pc |-> "keep", keep |-> keep]
Restoring(watched) == [pc |-> "restoring", watched |-> watched]
Restored(watched) == [pc |-> "restored", watched |-> watched]

(* Mutant: the modes to restore from do not include Curve. *)
ControlledManually(m) == m \in {"ManualPercent", "ManualRpmTarget", "FullSpeedBoost"}

(* fan_mode is one of those the daemon restores from; Curve is the only    *)
(* one of them that a method can reach.                                    *)
Controlled(m) == m = "Curve"

(* Mutant: every watched channel must be in danger. *)
NoneSafe(watched) == watched \subseteq danger

(* fan_safety_temperature_missing, fan_safety_sensor_missing or a critical *)
(* temperature, which endangers every channel.                             *)
Unsafe(watched) ==
  danger = Fans \/ watched \intersect danger # {}

(* What an operation that stopped part way may have left in custom mode.   *)
Partly(fans) == {custom \ done : done \in SUBSET fans}

(* What a direct reset that succeeds leaves: it resets the channels that   *)
(* discovery finds, and fails if it finds none.                            *)
Found(fans) ==
  {custom \ (fans \intersect found) :
     found \in {some \in SUBSET Fans : some \intersect fans # {}}}

WatchInit ==
  /\ custom \in SUBSET Fans
  /\ danger = Untracked
  /\ owned = {} /\ mode = "Auto"
  /\ call = NoCall /\ tick = Between /\ probe = TRUE
  /\ life = "up" /\ late = {}
  /\ asked = FALSE /\ applied = {} /\ disturbed = FALSE

\* Curves that left custom mode are no longer the daemon's concern.
Tracked == applied' = applied \intersect custom'

-----------------------------------------------------------------------------
(* set_fan_curve: always through the helper.                               *)
DaemonSetFanCurve(fan) ==
  /\ life \in {"up", "stopping"} /\ call = NoCall
  /\ call' = Asked("curve", {fan})
  /\ UNCHANGED <<custom, danger, control, tick, probe, life, late, history>>

(* set_fan_auto of channels the daemon owns: through the helper, which     *)
(* also takes them off its marker.                                         *)
SetFanAutoOwned(fans) ==
  /\ life \in {"up", "stopping"} /\ call = NoCall
  /\ IF fans = Fans THEN owned # {} ELSE fans \subseteq owned
  /\ call' = Asked("release", fans)
  /\ UNCHANGED <<custom, danger, control, tick, probe, life, late, history>>

(* set_fan_auto of other channels, and reset_fans_to_auto: directly, and   *)
(* through the helper after PermissionDenied.                              *)
ReleaseDirectly(fans) ==
  /\ life \in {"up", "stopping"} /\ call = NoCall
  /\ fans = Fans \/ fans \intersect owned = {}
  /\ \/ DirectWrites /\ custom' \in Found(fans) /\ call' = Answered("release", fans)
     \/ DirectWrites /\ custom' \in Partly(fans) /\ call' = NoCall
     \/ custom' = custom /\ call' = Asked("release", fans)
  /\ Tracked
  /\ UNCHANGED <<danger, control, tick, probe, life, late, asked, disturbed>>

(* The helper applies the curve, which it refuses while one is active.     *)
HelperSetsCurve ==
  /\ call.phase = "asked" /\ call.op = "curve"
  /\ call.fans \intersect custom = {}
  /\ custom' = custom \union call.fans
  /\ call' = Answered("curve", call.fans)
  /\ UNCHANGED <<danger, control, tick, probe, life, late, history>>

(* The curve is refused, rolled back, or left behind by a failed rollback. *)
HelperFailsCurve ==
  /\ call.phase = "asked" /\ call.op = "curve"
  /\ custom' \in {custom, custom \union call.fans}
  /\ call' = NoCall
  /\ UNCHANGED <<danger, control, tick, probe, life, late, history>>

HelperReleases ==
  /\ call.phase = "asked" /\ call.op = "release"
  /\ custom' = custom \ call.fans
  /\ call' = Answered("release", call.fans)
  /\ Tracked
  /\ UNCHANGED <<danger, control, tick, probe, life, late, asked, disturbed>>

HelperFailsRelease ==
  /\ call.phase = "asked" /\ call.op = "release"
  /\ custom' \in Partly(call.fans)
  /\ call' = NoCall
  /\ Tracked
  /\ UNCHANGED <<danger, control, tick, probe, life, late, asked, disturbed>>

\* The bookkeeping of a method meets a tick that is past its readings.
Overlapping == disturbed' = (disturbed \/ tick # Between \/ life # "up")

(* Success: the list of owned channels changes first, ...                  *)
MethodUpdatesOwned ==
  /\ call.phase = "answered"
  /\ owned' = IF call.op = "curve" THEN owned \union call.fans
              ELSE owned \ call.fans
  /\ call' = Listed(call.op, call.fans, IF owned' = {} THEN "Auto" ELSE "Curve")
  /\ Overlapping
  /\ applied' = IF call.op = "curve" THEN applied ELSE applied \ call.fans
  /\ UNCHANGED <<custom, danger, mode, tick, probe, life, late, asked>>

(* ... then the mode, under another acquisition of the lock.               *)
MethodUpdatesMode ==
  /\ call.phase = "listed"
  /\ mode' = call.mode
  /\ call' = NoCall
  /\ Overlapping
  /\ applied' = IF call.op = "curve" THEN applied \union (call.fans \intersect custom)
                ELSE applied
  /\ UNCHANGED <<custom, danger, owned, tick, probe, life, late, asked>>

-----------------------------------------------------------------------------
(* The telemetry loop reads the fans: those it reads in Auto ...           *)
TickReadsFans(seen) ==
  /\ life = "up" /\ tick = Between
  /\ seen \subseteq Fans \ custom
  /\ tick' = Seeing("seen", seen)
  /\ UNCHANGED <<custom, danger, control, call, probe, life, late, history>>

(* ... or cannot: then a recovery is tried, at most every five seconds.    *)
TickCannotRead ==
  /\ life = "up" /\ tick = Between
  /\ tick' = IF probe THEN At("probing") ELSE Between
  /\ probe' = FALSE
  /\ UNCHANGED <<custom, danger, control, call, life, late, history>>

ProbeDue ==
  /\ probe' = TRUE
  /\ UNCHANGED <<custom, danger, control, call, tick, life, late, history>>

TickReadsMode ==
  /\ tick.pc = "seen"
  /\ tick' = IF mode = "Curve" THEN Seeing("owned", tick.seen) ELSE Judging(mode)
  /\ UNCHANGED <<custom, danger, control, call, probe, life, late, history>>

(* unresolved_owned_fan_curves: only a channel read in Auto is resolved.   *)
TickReadsOwned ==
  /\ tick.pc = "owned"
  /\ tick' = IF owned = {} THEN Judging("Curve") ELSE Keeping(owned \ tick.seen)
  /\ UNCHANGED <<custom, danger, control, call, probe, life, late, history>>

TickKeepsUnresolved ==
  /\ tick.pc = "keep"
  /\ owned' = tick.keep
  /\ tick' = IF tick.keep = {} THEN At("resolved") ELSE Judging("Curve")
  /\ UNCHANGED <<custom, danger, mode, call, probe, life, late, history>>

TickResolves ==
  /\ tick.pc = "resolved"
  /\ mode' = "Auto"
  /\ tick' = Judging("Auto")
  /\ UNCHANGED <<custom, danger, owned, call, probe, life, late, history>>

(* The safety check, with the channels owned now.                          *)
TickJudges ==
  /\ tick.pc = "judge"
  /\ tick' = IF Controlled(tick.current) /\ Unsafe(owned)
             THEN Restoring(owned) ELSE Between
  /\ UNCHANGED <<custom, danger, control, call, probe, life, late, history>>

(* restore_fans_without_prompt, awaited: the helper resets what is armed.  *)
HelperRecovers ==
  /\ tick.pc \in {"restoring", "probing"}
  /\ custom' = {}
  /\ tick' = IF tick.pc = "restoring" /\ tick.watched # {}
             THEN Restored(tick.watched) ELSE Between
  /\ Tracked
  /\ UNCHANGED <<danger, control, call, probe, life, late, asked, disturbed>>

HelperFailsRecovery ==
  /\ tick.pc \in {"restoring", "probing"}
  /\ custom' \in Partly(Fans)
  /\ tick' = IF tick.pc = "restoring" THEN At("failed") ELSE At("unknown")
  /\ Tracked
  /\ UNCHANGED <<danger, control, call, probe, life, late, asked, disturbed>>

(* Readback after a recovery: the list becomes what is left of the         *)
(* channels that were watched before it, less those read in Auto.          *)
TickReadsBack(seen) ==
  /\ tick.pc = "restored"
  /\ seen \subseteq Fans \ custom
  /\ owned' = tick.watched \ seen
  /\ tick' = IF owned' = {} THEN At("confirmed") ELSE Between
  /\ UNCHANGED <<custom, danger, mode, call, probe, life, late, history>>

TickReadsNothingBack ==
  /\ tick.pc = "restored"
  /\ tick' = Between
  /\ UNCHANGED <<custom, danger, control, call, probe, life, late, history>>

TickConfirms ==
  /\ tick.pc = "confirmed"
  /\ mode' = "Auto"
  /\ tick' = Between
  /\ UNCHANGED <<custom, danger, owned, call, probe, life, late, history>>

(* Mutant: a failed restore is reported as read-only. *)
TickFailsReadOnly ==
  /\ tick.pc = "failed"
  /\ mode' = "ReadOnly"
  /\ tick' = Between
  /\ UNCHANGED <<custom, danger, owned, call, probe, life, late, history>>

(* A failed restore leaves owned channels to the next tick.                *)
TickFails ==
  /\ tick.pc = "failed"
  /\ mode' = IF owned = {} THEN "ReadOnly" ELSE "Curve"
  /\ tick' = Between
  /\ UNCHANGED <<custom, danger, owned, call, probe, life, late, history>>

TickKnowsNothing ==
  /\ tick.pc = "unknown"
  /\ tick' = Between
  /\ UNCHANGED <<custom, danger, control, call, probe, life, late, history>>

-----------------------------------------------------------------------------
(* SIGTERM.  shutdown_signal() listens only while the loop waits: it is    *)
(* dropped when a tick starts, and a new listener does not see the signals *)
(* that came before it.                                                    *)
DaemonTerminated ==
  /\ life = "up" /\ ~asked
  /\ asked' = TRUE
  /\ life' = IF tick # Between THEN "up"
             ELSE IF Controlled(mode) THEN "stopping" ELSE "stopped"
  /\ late' = IF life' = "stopped" /\ call.phase = "asked" /\ call.op = "curve"
             THEN late \union call.fans ELSE late
  /\ call' = IF life' = "stopped" THEN NoCall ELSE call
  /\ UNCHANGED <<custom, danger, control, tick, probe, applied, disturbed>>

\* The exit of the process, or its death, leaves the helper at work.
Gone(end) ==
  /\ life' = end
  /\ late' = IF call.phase = "asked" /\ call.op = "curve"
             THEN late \union call.fans ELSE late
  /\ call' = NoCall /\ tick' = Between

(* The restore of the exit, while methods are still served.                *)
ExitRestores ==
  /\ life = "stopping"
  /\ custom' = {}
  /\ Gone("stopped")
  /\ Tracked
  /\ UNCHANGED <<danger, control, probe, asked, disturbed>>

(* The restore failed, a SIGKILL, or a crash.                              *)
DaemonKilled ==
  /\ life \in {"up", "stopping"}
  /\ Gone("killed")
  /\ UNCHANGED <<custom, danger, control, probe, history>>

(* A new daemon owns nothing.                                              *)
DaemonStarts ==
  /\ life \in {"stopped", "killed"}
  /\ life' = "up"
  /\ owned' = {} /\ mode' = "Auto" /\ probe' = TRUE
  /\ asked' = FALSE /\ applied' = {} /\ disturbed' = FALSE
  /\ UNCHANGED <<custom, danger, call, tick, late>>

HelperWorksLate(fan) ==
  /\ fan \in late
  /\ late' = late \ {fan}
  /\ custom' \in {custom, custom \union {fan}}
  /\ disturbed' = TRUE
  /\ UNCHANGED <<danger, control, call, tick, probe, life, asked, applied>>

(* The helper restores on its own start or stop, or the firmware resets.   *)
ResetElsewhere(fan) ==
  /\ fan \in custom
  /\ custom' = custom \ {fan}
  /\ Tracked
  /\ UNCHANGED <<danger, control, call, tick, probe, life, late, asked, disturbed>>

(* Nothing is known of a channel without a role temperature.               *)
ReadingsChange ==
  /\ danger' \in {endangered \in SUBSET Fans : Untracked \subseteq endangered}
  /\ UNCHANGED <<custom, control, call, tick, probe, life, late, history>>

Method ==
  \/ \E fan \in Fans : DaemonSetFanCurve(fan)
  \/ \E fans \in {{fan} : fan \in Fans} \union {Fans} :
       SetFanAutoOwned(fans) \/ ReleaseDirectly(fans)
  \/ HelperSetsCurve \/ HelperFailsCurve
  \/ HelperReleases \/ HelperFailsRelease
  \/ MethodUpdatesOwned \/ MethodUpdatesMode

Telemetry ==
  \/ \E seen \in SUBSET Fans : TickReadsFans(seen) \/ TickReadsBack(seen)
  \/ TickCannotRead
  \/ TickReadsMode \/ TickReadsOwned \/ TickKeepsUnresolved \/ TickResolves
  \/ TickJudges
  \/ HelperRecovers \/ HelperFailsRecovery
  \/ TickReadsNothingBack \/ TickConfirms
  \/ TickFails \/ TickKnowsNothing

WatchNext ==
  \/ Method \/ Telemetry \/ ProbeDue
  \/ DaemonTerminated \/ ExitRestores \/ DaemonKilled \/ DaemonStarts
  \/ \E fan \in Fans : HelperWorksLate(fan) \/ ResetElsewhere(fan)
  \/ ReadingsChange

(* The ticker is due every second and the helper answers its calls.        *)
WatchSpec ==
  WatchInit /\ [][WatchNext]_watchVars /\ WF_watchVars(Telemetry) /\ WF_watchVars(ProbeDue)

-----------------------------------------------------------------------------
Calls ==
  [phase : {"none"}]
    \union [phase : {"asked", "answered"}, op : {"curve", "release"}, fans : SUBSET Fans]
    \union [phase : {"listed"}, op : {"curve", "release"}, fans : SUBSET Fans,
            mode : {"Auto", "Curve"}]

Ticks ==
  [pc : {"between", "resolved", "probing", "confirmed", "failed", "unknown"}]
    \union [pc : {"seen", "owned"}, seen : SUBSET Fans]
    \union [pc : {"keep"}, keep : SUBSET Fans]
    \union [pc : {"judge"}, current : Modes]
    \union [pc : {"restoring", "restored"}, watched : SUBSET Fans]

WatchTypeOK ==
  /\ custom \subseteq Fans /\ danger \subseteq Fans /\ owned \subseteq Fans
  /\ mode \in Modes
  /\ call \in Calls /\ tick \in Ticks
  /\ probe \in BOOLEAN /\ asked \in BOOLEAN /\ disturbed \in BOOLEAN
  /\ life \in {"up", "stopping", "stopped", "killed"}
  /\ late \subseteq Fans
  /\ applied \subseteq custom

(* Between two ticks, every curve this daemon reported applied, that still *)
(* runs and was not reported released, is on the list that the safety      *)
(* check watches, in the mode in which it looks: whatever failed, was lost *)
(* or changed by itself, as long as no method did its bookkeeping while a  *)
(* tick was past its readings.                                             *)
AppliedIsWatched ==
  life = "up" /\ tick = Between /\ call = NoCall /\ ~disturbed =>
    applied \subseteq owned /\ (owned # {} => mode = "Curve")

(* A daemon that stops on SIGTERM leaves none of those curves: the exit    *)
(* restores by mode, not by list.                                          *)
StopReleasesApplied == life = "stopped" /\ ~disturbed => applied = {}

(* As long as a watched channel has a critical, missing or invalid         *)
(* reading, the loop does not only look on: the channel leaves custom mode *)
(* or a recovery is tried and fails.                                       *)
Endangered(fan) ==
  life = "up" /\ mode = "Curve" /\ fan \in owned \intersect custom \intersect danger

DangerIsAnswered ==
  \A fan \in Fans :
    Endangered(fan) ~> (~Endangered(fan) \/ tick.pc \in {"failed", "unknown"})

=============================================================================
