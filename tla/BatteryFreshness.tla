-------------------------- MODULE BatteryFreshness --------------------------
(***************************************************************************)
(* The two state machines of rog-core/src/power_freshness.rs as operators  *)
(* on records: BatteryFreshnessBarrier, which decides whether a battery    *)
(* reading may drive automation, and SuspendGapDetector, which notices a   *)
(* suspend from two kernel clocks.  An operator takes the old state and    *)
(* returns [barrier, decision] or [detector, outcome].                     *)
(*                                                                         *)
(* Option<u64> update times are modelled by 0 for None: the code reads     *)
(* them only through unwrap_or_default() and comparisons with a nonzero    *)
(* UpdateTime.                                                             *)
(***************************************************************************)
EXTENDS Integers, PowerSource

CONSTANTS
  U64Max,     \* largest u64: the generation saturates there, and it stands
              \* for "now" when the wall clock cannot be read
  Tolerance   \* CLOCK_SUSPEND_GAP_TOLERANCE_MS

ASSUME FreshnessAssumption ==
  /\ U64Max \in Nat \ {0}
  /\ Tolerance \in Nat

Larger(a, b) == IF a >= b THEN a ELSE b
(* Mutant: plain addition. *)
Unsaturated(n) == n

Saturating(n) == IF n > U64Max THEN U64Max ELSE n

-----------------------------------------------------------------------------
(* BatteryFreshnessBarrier *)

Barriers ==
  [lastUpdate : Nat, lastSource : SourceOption, raised : BOOLEAN,
   floor : Nat, expected : SourceOption, generation : 0 .. U64Max,
   suspended : BOOLEAN]

FreshnessSamples(times) ==
  [source : Sources, updateTime : times, consistent : BOOLEAN, fresh : BOOLEAN]

DefaultBarrier ==
  [lastUpdate |-> 0, lastSource |-> NoSource, raised |-> FALSE, floor |-> 0,
   expected |-> NoSource, generation |-> 0, suspended |-> FALSE]

Decided(b, d) == [barrier |-> b, decision |-> d]

(* Mutant: the floor forgets the wall clock of the event. *)
BeginBarrierOnReadings(b, now, observed, expected) ==
  Decided([b EXCEPT !.raised = TRUE, !.floor = Larger(b.lastUpdate, observed),
                    !.expected = expected, !.generation = Saturating(@ + 1)],
          "Invalidated")

BeginBarrier(b, now, observed, expected) ==
  Decided([b EXCEPT !.raised = TRUE,
                    !.floor = Larger(b.lastUpdate, Larger(observed, now)),
                    !.expected = expected,
                    !.generation = Saturating(@ + 1)],
          "Invalidated")

Withheld(b) == Decided(b, IF b.suspended THEN "Suspended" ELSE "AwaitingRefresh")

(* observed = 0 for a sample that is missing altogether *)
BlockMissing(b, now, observed) ==
  IF b.raised
  THEN Withheld([b EXCEPT !.floor = Larger(@, observed)])
  ELSE BeginBarrier(b, now, observed, b.lastSource)

Invalidate(b, event, now) ==
  LET awake == [b EXCEPT !.suspended = @ /\ event # "ClockResume"]
  IN  BeginBarrier(awake, now, 0, b.lastSource)

PrepareForSleep(b, preparing, now) ==
  IF preparing /\ b.suspended
  THEN Decided(b, "Suspended")
  ELSE BeginBarrier([b EXCEPT !.suspended = preparing], now, 0, b.lastSource)

Unusable(s) == s.updateTime = 0 \/ ~s.consistent \/ ~s.fresh

SourceChanged(b, s) ==
  \/ b.lastSource \in Sources \ {s.source}
  \/ b.raised /\ b.expected \in Sources \ {s.source}

(* A changed source restarts the barrier on that source. *)
Rebase(b, s, now) ==
  LET started == BeginBarrier(b, now, s.updateTime, s.source).barrier
  IN  Decided([started EXCEPT !.lastSource = s.source,
                              !.lastUpdate = Larger(@, s.updateTime)],
              "Invalidated")

Accept(b, s) ==
  Decided([b EXCEPT !.raised = FALSE, !.floor = 0, !.expected = NoSource,
                    !.lastSource = s.source, !.lastUpdate = s.updateTime],
          "Eligible")

ObserveMissing(b, now) == BlockMissing(b, now, 0)

(* Mutant: a reading as old as the floor clears the barrier. *)
ObserveUsableAtFloor(b, s, now) ==
  IF s.updateTime < b.lastUpdate THEN Invalidate(b, "ClockAnomaly", now)
  ELSE IF SourceChanged(b, s) THEN Rebase(b, s, now)
  ELSE IF b.raised /\ (b.suspended \/ s.updateTime < b.floor) THEN Withheld(b)
  ELSE Accept(b, s)

(* Mutant: a refreshed reading clears the barrier during a suspend. *)
ObserveUsableAsleep(b, s, now) ==
  IF s.updateTime < b.lastUpdate THEN Invalidate(b, "ClockAnomaly", now)
  ELSE IF SourceChanged(b, s) THEN Rebase(b, s, now)
  ELSE IF b.raised /\ s.updateTime <= b.floor THEN Withheld(b)
  ELSE Accept(b, s)

ObserveUsable(b, s, now) ==
  IF s.updateTime < b.lastUpdate THEN Invalidate(b, "ClockAnomaly", now)
  ELSE IF SourceChanged(b, s) THEN Rebase(b, s, now)
  ELSE IF b.raised /\ (b.suspended \/ s.updateTime <= b.floor) THEN Withheld(b)
  ELSE Accept(b, s)

Observe(b, s, now) ==
  IF Unusable(s)
  THEN BlockMissing([b EXCEPT !.lastUpdate = Larger(@, s.updateTime)],
                    now, s.updateTime)
  ELSE ObserveUsable(b, s, now)

IsEligible(b, s) ==
  /\ ~b.raised /\ ~b.suspended
  /\ ~Unusable(s)
  /\ s.source = b.lastSource
  /\ s.updateTime = b.lastUpdate

-----------------------------------------------------------------------------
(* SuspendGapDetector *)

Detectors == [known : BOOLEAN, boot : Nat, mono : Nat]
NoReading == [known |-> FALSE, boot |-> 0, mono |-> 0]

(* Mutant: a gap one unit beyond the tolerance is steady. *)
ClockOutcomeLenient(d, boot, mono) ==
  IF ~d.known THEN "Baseline"
  ELSE IF boot < d.boot \/ mono < d.mono THEN "Regression"
  ELSE IF (boot - d.boot) - (mono - d.mono) > Tolerance + 1 THEN "Resumed"
  ELSE IF (mono - d.mono) - (boot - d.boot) > Tolerance THEN "Anomaly" ELSE "Steady"

ClockOutcome(d, boot, mono) ==
  CASE ~d.known -> "Baseline"
    [] d.known /\ (boot < d.boot \/ mono < d.mono) -> "Regression"
    [] d.known /\ boot >= d.boot /\ mono >= d.mono ->
         LET gap == (boot - d.boot) - (mono - d.mono)
         IN  IF gap > Tolerance THEN "Resumed"
             ELSE IF -gap > Tolerance THEN "Anomaly" ELSE "Steady"

(* A regression forgets the reading; every other outcome stores the new one. *)
ClockReading(d, boot, mono) ==
  IF ClockOutcome(d, boot, mono) = "Regression" THEN NoReading
  ELSE [known |-> TRUE, boot |-> boot, mono |-> mono]

=============================================================================
