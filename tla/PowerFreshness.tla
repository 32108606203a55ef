--------------------------- MODULE PowerFreshness ---------------------------
(***************************************************************************)
(* The daemon's battery freshness barrier in its environment: the clocks,  *)
(* suspends that may or may not be signalled, UPower readings, and the     *)
(* daemon events that raise the barrier (rog-daemon/src/main.rs:           *)
(* observe_battery_freshness, invalidate_power_freshness,                  *)
(* observe_sleep_signal and the clock check of the telemetry loop).        *)
(*                                                                         *)
(* Every handler below runs under automation_write_gate, so each is one    *)
(* atomic step.  One time unit stands for seconds and for milliseconds:    *)
(* the wall clock is boot + wallStep.                                      *)
(***************************************************************************)
EXTENDS BatteryFreshness

CONSTANTS
  StartTime,      \* wall clock when the daemon starts
  MaxClock        \* bound on CLOCK_BOOTTIME

ASSUME PowerFreshnessAssumption ==
  /\ StartTime \in Nat \ {0}
  /\ MaxClock \in Nat
  /\ StartTime + MaxClock < U64Max

VARIABLES
  barrier,    \* SharedState.power_freshness
  detector,   \* suspend_gap_detector of the telemetry loop
  boot, mono, \* CLOCK_BOOTTIME and CLOCK_MONOTONIC
  wallStep,   \* how far the wall clock was set back
  \* history
  seen,       \* latest UpdateTime of any reading the barrier was shown
  mark,       \* wall clock and seen when the barrier was last raised
  wake,       \* wall clock after the last suspend beyond the tolerance that
              \* began after the detector had a reading to compare with
  unnoticed   \* neither a tick nor another event has followed that suspend

clocks == <<boot, mono, wallStep>>
vars == <<barrier, detector, clocks, seen, mark, wake, unnoticed>>

Wall == StartTime + boot - wallStep

Init ==
  /\ barrier = Invalidate(DefaultBarrier, "DaemonStartup", StartTime).barrier
  /\ detector = NoReading
  /\ boot = 0 /\ mono = 0 /\ wallStep = 0
  /\ seen = 0
  /\ mark = [wall |-> StartTime, seen |-> 0]
  /\ wake = 0
  /\ unnoticed = FALSE

-----------------------------------------------------------------------------
(* The handlers' "now": the wall clock, or u64::MAX when it is unreadable. *)
Nows == {Wall, U64Max}

Apply(r) ==
  /\ barrier' = r.barrier
  /\ IF r.decision = "Invalidated"
     THEN mark' = [wall |-> Wall, seen |-> seen'] /\ unnoticed' = FALSE
     ELSE UNCHANGED <<mark, unnoticed>>

ObserveSample(s, now) ==
  /\ seen' = Larger(seen, s.updateTime)
  /\ Apply(Observe(barrier, s, now))
  /\ UNCHANGED <<detector, clocks, wake>>

SampleMissing(now) ==
  /\ UNCHANGED seen
  /\ Apply(ObserveMissing(barrier, now))
  /\ UNCHANGED <<detector, clocks, wake>>

(* A logind PrepareForSleep signal, true or false. *)
SleepSignal(preparing, now) ==
  /\ UNCHANGED seen
  /\ Apply(PrepareForSleep(barrier, preparing, now))
  /\ UNCHANGED <<detector, clocks, wake>>

(* UPower lost or back, an unreadable logind signal, an explicit resume. *)
RaiseBarrier(event, now) ==
  /\ UNCHANGED seen
  /\ Apply(Invalidate(barrier, event, now))
  /\ UNCHANGED <<detector, clocks, wake>>

(* The first statement of every telemetry tick.  Baseline and Steady leave *)
(* the barrier alone.                                                      *)
TickClocks(reading, now) ==
  LET outcome == ClockOutcome(detector, reading.boot, reading.mono)
      event == IF outcome = "Resumed" THEN "ClockResume" ELSE "ClockAnomaly"
  IN  /\ detector' = ClockReading(detector, reading.boot, reading.mono)
      /\ UNCHANGED seen
      /\ IF outcome \in {"Baseline", "Steady"}
         THEN unnoticed' = FALSE /\ UNCHANGED <<barrier, mark>>
         ELSE Apply(Invalidate(barrier, event, now))
      /\ UNCHANGED <<clocks, wake>>

(* A clock could not be read: the detector starts over. *)
TickClocksUnreadable(now) ==
  /\ detector' = NoReading
  /\ UNCHANGED seen
  /\ Apply(Invalidate(barrier, "ClockAnomaly", now))
  /\ UNCHANGED <<clocks, wake>>

-----------------------------------------------------------------------------
(* Environment *)

TimePasses ==
  /\ boot < MaxClock
  /\ boot' = boot + 1 /\ mono' = mono + 1
  /\ UNCHANGED <<barrier, detector, wallStep, seen, mark, wake, unnoticed>>

(* The machine sleeps for d units.  Only CLOCK_BOOTTIME and the wall clock *)
(* count them.                                                             *)
Suspend(d) ==
  /\ boot + d <= MaxClock
  /\ boot' = boot + d
  /\ UNCHANGED <<mono, wallStep, barrier, detector, seen, mark>>
  /\ IF d > Tolerance /\ detector.known
     THEN wake' = StartTime + boot' - wallStep /\ unnoticed' = TRUE
     ELSE UNCHANGED <<wake, unnoticed>>

(* The wall clock is set back by one unit, at most once. *)
SetWallBack ==
  /\ wallStep = 0 /\ Wall > 1
  /\ wallStep' = 1
  /\ UNCHANGED <<barrier, detector, boot, mono, seen, mark, wake, unnoticed>>

(* What clock_gettime may return: the clocks, or one of them before the    *)
(* detector's last reading.                                                *)
ClockReadings ==
  {[boot |-> boot, mono |-> mono]} \union
  {r \in [boot : {0, boot}, mono : {0, mono}] :
     r.boot < detector.boot \/ r.mono < detector.mono}

(* UPowerProvider::read_status yields only nonzero, nonfuture UpdateTimes. *)
ReadableSamples == FreshnessSamples(1 .. Wall)

Next ==
  \/ \E now \in Nows :
       \/ \E s \in ReadableSamples : ObserveSample(s, now)
       \/ SampleMissing(now)
       \/ \E preparing \in BOOLEAN : SleepSignal(preparing, now)
       \/ \E event \in {"UPowerReconnect", "ClockAnomaly", "ClockResume"} :
            RaiseBarrier(event, now)
       \/ \E reading \in ClockReadings : TickClocks(reading, now)
       \/ TickClocksUnreadable(now)
  \/ TimePasses
  \/ \E d \in 1 .. Tolerance + 1 : Suspend(d)
  \/ SetWallBack

Spec == Init /\ [][Next]_vars

-----------------------------------------------------------------------------
TypeOK ==
  /\ barrier \in Barriers
  /\ detector \in Detectors
  /\ boot \in Nat /\ mono \in Nat /\ wallStep \in {0, 1}
  /\ seen \in Nat
  /\ mark \in [wall : Nat, seen : Nat]
  /\ wake \in Nat
  /\ unnoticed \in BOOLEAN

(* Battery data is trusted only once UPower has refreshed it after the     *)
(* event that last raised the barrier, whatever order signals, readings    *)
(* and clock steps came in: the accepted UpdateTime is later than the wall *)
(* clock at that event.                                                    *)
EligibleNeedsRefresh == ~barrier.raised => barrier.lastUpdate > mark.wall

(* Re-reading cached properties never clears the barrier, as long as the   *)
(* wall clock was not set back: the accepted UpdateTime was not shown to   *)
(* it before it was raised.                                                *)
CachedReadingNeverClears ==
  wallStep = 0 /\ ~barrier.raised => barrier.lastUpdate > mark.seen

(* After a suspend longer than the tolerance, from the next telemetry tick *)
(* on, only a reading refreshed after the wake-up is trusted, even if      *)
(* every logind signal was lost (and the wall clock was not set back).     *)
WokenNeedsRefresh ==
  wallStep = 0 /\ ~barrier.raised /\ ~unnoticed => barrier.lastUpdate > wake

(* Between PrepareForSleep(true) and the matching end of suspend the       *)
(* barrier stays up: observe() does not test `suspended` once it is down.  *)
SuspendedStaysRaised == barrier.suspended => barrier.raised

(* A trusted reading never changes its power source in place: the barrier  *)
(* is raised for the new source first.                                     *)
SourceFlipRearms ==
  [][~barrier.raised /\ ~barrier'.raised /\ barrier.lastSource \in Sources
       => barrier'.lastSource = barrier.lastSource]_vars

(* Losing eligibility is always a new generation, so work started under    *)
(* the old one can be told apart, until the counter saturates.             *)
LosingEligibilityIsANewGeneration ==
  [][~barrier.raised /\ barrier'.raised
       => barrier'.generation = Saturating(barrier.generation + 1)]_vars

=============================================================================
