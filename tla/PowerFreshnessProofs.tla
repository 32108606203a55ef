------------------------ MODULE PowerFreshnessProofs ------------------------
(***************************************************************************)
(* Proofs about PowerFreshness.  Each operation of the barrier falls into  *)
(* one of three classes (Raises, Withholds, Clears); the lemmas below put  *)
(* each operator into its classes once, and the invariants are then proved *)
(* from the classes without looking at the operators again.                *)
(***************************************************************************)
EXTENDS PowerFreshness, TLAPS

(* r is a barrier raised at `now` in place of b. *)
Raises(b, r, now) ==
  /\ r.decision = "Invalidated"
  /\ r.barrier \in Barriers
  /\ r.barrier.raised
  /\ r.barrier.floor >= now
  /\ r.barrier.generation = Saturating(b.generation + 1)

(* r keeps the raised barrier b up, its floor no lower. *)
Withholds(b, r) ==
  /\ r.decision \in {"Suspended", "AwaitingRefresh"}
  /\ r.barrier \in Barriers
  /\ b.raised /\ r.barrier.raised
  /\ r.barrier.floor >= b.floor
  /\ r.barrier.generation = b.generation

(* r trusts reading s: it is past b's floor, or b trusted its source. *)
Clears(b, r, s) ==
  /\ r.decision = "Eligible"
  /\ r.barrier \in Barriers
  /\ ~r.barrier.raised /\ r.barrier.suspended = b.suspended
  /\ r.barrier.lastSource = s.source
  /\ r.barrier.lastUpdate = s.updateTime
  /\ b.raised => ~b.suspended /\ s.updateTime > b.floor
  /\ ~b.raised => s.updateTime >= b.lastUpdate
  /\ b.lastSource \in Sources => s.source = b.lastSource

LEMMA SaturatingType ==
  ASSUME NEW n \in Nat
  PROVE  Saturating(n) \in 0 .. U64Max
  BY FreshnessAssumption DEF Saturating

LEMMA BeginBarrierRaises ==
  ASSUME NEW b \in Barriers, NEW now \in Nat, NEW observed \in Nat,
         NEW expected \in SourceOption
  PROVE  /\ Raises(b, BeginBarrier(b, now, observed, expected), now)
         /\ BeginBarrier(b, now, observed, expected).barrier.lastUpdate = b.lastUpdate
<1>1. Saturating(b.generation + 1) \in 0 .. U64Max
  BY SaturatingType, FreshnessAssumption DEF Barriers
<1>2. Larger(b.lastUpdate, Larger(observed, now)) \in Nat
      /\ Larger(b.lastUpdate, Larger(observed, now)) >= now
  BY DEF Larger, Barriers
<1> QED
  BY <1>1, <1>2 DEF Raises, BeginBarrier, Decided, Barriers

LEMMA InvalidateRaises ==
  ASSUME NEW b \in Barriers, NEW now \in Nat, NEW event
  PROVE  Raises(b, Invalidate(b, event, now), now)
<1> DEFINE awake == [b EXCEPT !.suspended = b.suspended /\ event # "ClockResume"]
<1>1. awake \in Barriers /\ awake.generation = b.generation
      /\ b.lastSource \in SourceOption
  BY DEF Barriers
<1>2. Raises(awake, BeginBarrier(awake, now, 0, b.lastSource), now)
  BY <1>1, BeginBarrierRaises
<1>3. Invalidate(b, event, now) = BeginBarrier(awake, now, 0, b.lastSource)
  BY DEF Invalidate
<1> QED
  BY <1>1, <1>2, <1>3 DEF Raises

LEMMA PrepareForSleepClass ==
  ASSUME NEW b \in Barriers, NEW now \in Nat, NEW preparing \in BOOLEAN,
         b.suspended => b.raised
  PROVE  \/ Raises(b, PrepareForSleep(b, preparing, now), now)
         \/ Withholds(b, PrepareForSleep(b, preparing, now))
<1> DEFINE flagged == [b EXCEPT !.suspended = preparing]
<1>1. flagged \in Barriers /\ flagged.generation = b.generation
      /\ b.lastSource \in SourceOption
  BY DEF Barriers
<1>2. Raises(flagged, BeginBarrier(flagged, now, 0, b.lastSource), now)
  BY <1>1, BeginBarrierRaises
<1>3. CASE preparing /\ b.suspended
  BY <1>3 DEF PrepareForSleep, Withholds, Decided, Barriers
<1>4. CASE ~(preparing /\ b.suspended)
  BY <1>1, <1>2, <1>4 DEF PrepareForSleep, Raises
<1> QED
  BY <1>3, <1>4

LEMMA BlockMissingClass ==
  ASSUME NEW b \in Barriers, NEW now \in Nat, NEW observed \in Nat
  PROVE  \/ Raises(b, BlockMissing(b, now, observed), now)
         \/ Withholds(b, BlockMissing(b, now, observed))
<1>1. CASE b.raised
  <2>1. Larger(b.floor, observed) \in Nat /\ Larger(b.floor, observed) >= b.floor
    BY DEF Larger, Barriers
  <2> QED
    BY <1>1, <2>1 DEF BlockMissing, Withheld, Decided, Withholds, Barriers
<1>2. CASE ~b.raised
  BY <1>2, BeginBarrierRaises DEF BlockMissing, Barriers
<1> QED
  BY <1>1, <1>2

LEMMA RebaseRaises ==
  ASSUME NEW b \in Barriers, NEW now \in Nat, NEW s \in FreshnessSamples(Nat)
  PROVE  Raises(b, Rebase(b, s, now), now)
<1> DEFINE started == BeginBarrier(b, now, s.updateTime, s.source)
<1>1. s.updateTime \in Nat /\ s.source \in SourceOption /\ s.source \in Sources
  BY DEF FreshnessSamples, SourceOption
<1>2. Raises(b, started, now)
  BY <1>1, BeginBarrierRaises
<1>3. Larger(started.barrier.lastUpdate, s.updateTime) \in Nat
  BY <1>1, <1>2 DEF Larger, Raises, Barriers
<1> QED
  BY <1>1, <1>2, <1>3 DEF Rebase, Decided, Raises, Barriers

LEMMA AcceptClears ==
  ASSUME NEW b \in Barriers, NEW s \in FreshnessSamples(Nat),
         s.updateTime >= b.lastUpdate, ~SourceChanged(b, s),
         ~(b.raised /\ (b.suspended \/ s.updateTime <= b.floor))
  PROVE  Clears(b, Accept(b, s), s)
<1>1. s.updateTime \in Nat /\ s.source \in Sources /\ s.source \in SourceOption
  BY DEF FreshnessSamples, SourceOption
<1>2. b.lastSource \in Sources => s.source = b.lastSource
  BY DEF SourceChanged
<1>3. b.raised => ~b.suspended /\ s.updateTime > b.floor
  BY <1>1 DEF Barriers
<1>4. Accept(b, s).barrier \in Barriers
  BY <1>1 DEF Accept, Decided, Barriers, SourceOption
<1>5. /\ Accept(b, s).decision = "Eligible"
      /\ Accept(b, s).barrier.raised = FALSE
      /\ Accept(b, s).barrier.suspended = b.suspended
      /\ Accept(b, s).barrier.lastSource = s.source
      /\ Accept(b, s).barrier.lastUpdate = s.updateTime
  BY <1>1 DEF Accept, Decided, Barriers
<1> QED
  BY <1>2, <1>3, <1>4, <1>5 DEF Clears

(* Every observation raises, withholds, or clears past the floor. *)
LEMMA ObserveClass ==
  ASSUME NEW b \in Barriers, NEW now \in Nat, NEW s \in FreshnessSamples(Nat)
  PROVE  \/ Raises(b, Observe(b, s, now), now)
         \/ Withholds(b, Observe(b, s, now))
         \/ Clears(b, Observe(b, s, now), s)
<1>1. s.updateTime \in Nat
  BY DEF FreshnessSamples
<1>2. CASE Unusable(s)
  <2> DEFINE noted == [b EXCEPT !.lastUpdate = Larger(b.lastUpdate, s.updateTime)]
  <2>1. noted \in Barriers
    BY <1>1 DEF Larger, Barriers
  <2>2. \/ Raises(noted, BlockMissing(noted, now, s.updateTime), now)
        \/ Withholds(noted, BlockMissing(noted, now, s.updateTime))
    BY <1>1, <2>1, BlockMissingClass
  <2>3. /\ noted.generation = b.generation
        /\ noted.raised = b.raised /\ noted.floor = b.floor
    BY DEF Barriers
  <2> QED
    BY <1>2, <2>2, <2>3 DEF Observe, Raises, Withholds
<1>3. CASE ~Unusable(s)
  <2>1. CASE s.updateTime < b.lastUpdate
    BY <1>3, <2>1, InvalidateRaises DEF Observe, ObserveUsable
  <2>2. CASE ~(s.updateTime < b.lastUpdate) /\ SourceChanged(b, s)
    BY <1>3, <2>2, RebaseRaises DEF Observe, ObserveUsable
  <2>3. CASE /\ ~(s.updateTime < b.lastUpdate) /\ ~SourceChanged(b, s)
             /\ b.raised /\ (b.suspended \/ s.updateTime <= b.floor)
    <3>1. Observe(b, s, now) = Withheld(b)
      BY <1>3, <2>3 DEF Observe, ObserveUsable
    <3> QED
      BY <2>3, <3>1 DEF Withheld, Decided, Withholds, Barriers
  <2>4. CASE /\ ~(s.updateTime < b.lastUpdate) /\ ~SourceChanged(b, s)
             /\ ~(b.raised /\ (b.suspended \/ s.updateTime <= b.floor))
    <3>1. s.updateTime >= b.lastUpdate
      BY <1>1, <2>4 DEF Barriers
    <3>2. Observe(b, s, now) = Accept(b, s)
      BY <1>3, <2>4 DEF Observe, ObserveUsable
    <3> QED
      BY <2>4, <3>1, <3>2, AcceptClears
  <2> QED
    BY <2>1, <2>2, <2>3, <2>4
<1> QED
  BY <1>2, <1>3

-----------------------------------------------------------------------------
(* The inductive invariant.  A raised barrier keeps its floor at or above  *)
(* the event (and the wake-up) it was raised for, and a lowered one has an *)
(* update time above it; that needs the clocks to be ordered and a suspend *)
(* in progress to hold the barrier up.                                     *)
ClocksOrdered ==
  /\ boot <= MaxClock
  /\ Wall \in Nat
  /\ detector.boot <= boot /\ detector.mono <= mono

Above(n) ==
  IF barrier.raised THEN barrier.floor >= n ELSE barrier.lastUpdate > n

IInv ==
  /\ TypeOK
  /\ ClocksOrdered
  /\ SuspendedStaysRaised
  /\ Above(mark.wall)

(* What holds besides until the wall clock is set back. *)
SteadyIInv ==
  /\ wallStep = 0
  /\ seen <= Wall
  /\ wake <= Wall
  /\ Above(mark.seen)
  /\ ~unnoticed => Above(wake)
  /\ boot >= mono
  /\ boot - detector.boot >= mono - detector.mono
  /\ ~detector.known => detector = NoReading
  /\ unnoticed => /\ detector.known
                  /\ (boot - detector.boot) - (mono - detector.mono) > Tolerance

LEMMA WallInRange ==
  ASSUME boot \in Nat, boot <= MaxClock, wallStep \in {0, 1}, Wall \in Nat
  PROVE  Wall < U64Max
  BY PowerFreshnessAssumption, FreshnessAssumption DEF Wall

(* A handler's step applies a result of one of the three classes. *)
HandlerStep(now, r) ==
  /\ now \in Nows
  /\ Apply(r)
  /\ \/ Raises(barrier, r, now)
     \/ Withholds(barrier, r)
     \/ \E s \in ReadableSamples : Clears(barrier, r, s)
  /\ r.barrier.suspended => r.barrier.raised
  /\ seen' \in Nat
  /\ seen' = seen \/ seen' <= Wall
  /\ UNCHANGED <<clocks, wake>>

LEMMA NowsType ==
  ASSUME TypeOK, ClocksOrdered, NEW now \in Nows
  PROVE  now \in Nat /\ now >= Wall
  BY FreshnessAssumption, WallInRange DEF TypeOK, ClocksOrdered, Nows

LEMMA ReadableSamplesType ==
  ASSUME TypeOK, ClocksOrdered, NEW s \in ReadableSamples
  PROVE  /\ s \in FreshnessSamples(Nat)
         /\ s.updateTime \in Nat /\ s.updateTime <= Wall
<1>1. 1 .. Wall \subseteq Nat /\ \A t \in 1 .. Wall : t <= Wall
  BY DEF ClocksOrdered
<1> QED
  BY <1>1 DEF ReadableSamples, FreshnessSamples

(* Above survives each class, for the bound n of the current mark or wake  *)
(* and for a new bound n that `now` already exceeds.                       *)
LEMMA AboveAfterWithholds ==
  ASSUME TypeOK, NEW r, Withholds(barrier, r), barrier' = r.barrier,
         NEW n \in Nat, Above(n)
  PROVE  IF barrier'.raised THEN barrier'.floor >= n ELSE barrier'.lastUpdate > n
  BY DEF Withholds, Above, TypeOK, Barriers

LEMMA AboveAfterClears ==
  ASSUME TypeOK, NEW r, NEW s \in FreshnessSamples(Nat), Clears(barrier, r, s),
         barrier' = r.barrier, NEW n \in Nat, Above(n)
  PROVE  IF barrier'.raised THEN barrier'.floor >= n ELSE barrier'.lastUpdate > n
<1>1. s.updateTime \in Nat
  BY DEF FreshnessSamples
<1> QED
  BY <1>1 DEF Clears, Above, TypeOK, Barriers

LEMMA AboveAfterRaises ==
  ASSUME TypeOK, NEW now \in Nat, NEW r, Raises(barrier, r, now),
         barrier' = r.barrier, NEW n \in Nat, n <= now
  PROVE  IF barrier'.raised THEN barrier'.floor >= n ELSE barrier'.lastUpdate > n
  BY DEF Raises, Barriers

LEMMA HandlerPreserves ==
  ASSUME IInv, NEW now, NEW r, HandlerStep(now, r)
  PROVE  /\ barrier' \in Barriers /\ unnoticed' \in BOOLEAN
         /\ mark' \in [wall : Nat, seen : Nat]
         /\ SuspendedStaysRaised'
         /\ Above(mark.wall)'
<1> USE DEF IInv
<1>0. now \in Nat /\ now >= Wall /\ Wall \in Nat
  BY NowsType DEF HandlerStep, ClocksOrdered
<1>1. barrier' = r.barrier /\ SuspendedStaysRaised'
  BY DEF HandlerStep, Apply, SuspendedStaysRaised
<1>2. mark.wall \in Nat /\ Above(mark.wall)
  BY DEF TypeOK
<1>3. CASE Raises(barrier, r, now)
  <2>1. mark' = [wall |-> Wall, seen |-> seen'] /\ unnoticed' = FALSE
    BY <1>3 DEF HandlerStep, Apply, Raises
  <2>2. IF barrier'.raised THEN barrier'.floor >= Wall ELSE barrier'.lastUpdate > Wall
    BY <1>0, <1>1, <1>3, AboveAfterRaises
  <2> QED
    BY <1>0, <1>1, <1>3, <2>1, <2>2 DEF HandlerStep, Raises, Above
<1>4. CASE Withholds(barrier, r)
  <2>1. UNCHANGED <<mark, unnoticed>>
    BY <1>4 DEF HandlerStep, Apply, Withholds
  <2>2. IF barrier'.raised THEN barrier'.floor >= mark.wall ELSE barrier'.lastUpdate > mark.wall
    BY <1>1, <1>2, <1>4, AboveAfterWithholds
  <2> QED
    BY <1>1, <1>4, <2>1, <2>2 DEF Withholds, Above, TypeOK
<1>5. ASSUME NEW s \in ReadableSamples, Clears(barrier, r, s)
      PROVE  /\ UNCHANGED <<mark, unnoticed>>
             /\ barrier' \in Barriers
             /\ Above(mark.wall)'
  <2>1. UNCHANGED <<mark, unnoticed>>
    BY <1>5 DEF HandlerStep, Apply, Clears
  <2>2. IF barrier'.raised THEN barrier'.floor >= mark.wall ELSE barrier'.lastUpdate > mark.wall
    BY <1>1, <1>2, <1>5, ReadableSamplesType, AboveAfterClears
  <2> QED
    BY <1>1, <1>5, <2>1, <2>2 DEF Clears, Above
<1> QED
  BY <1>1, <1>3, <1>4, <1>5 DEF HandlerStep, TypeOK

(* The same for the bounds that need a wall clock that never steps back. *)
LEMMA HandlerPreservesSteady ==
  ASSUME IInv, SteadyIInv, NEW now, NEW r, HandlerStep(now, r)
  PROVE  /\ seen' <= Wall'
         /\ Above(mark.seen)'
         /\ ~unnoticed' => Above(wake)'
         /\ unnoticed' => unnoticed
<1> USE DEF IInv
<1>0. /\ now \in Nat /\ now >= Wall /\ Wall \in Nat /\ Wall' = Wall
      /\ seen' \in Nat /\ seen' <= Wall /\ wake' = wake /\ wake \in Nat /\ wake <= Wall
  BY NowsType DEF HandlerStep, ClocksOrdered, SteadyIInv, TypeOK, clocks, Wall
<1>1. barrier' = r.barrier
  BY DEF HandlerStep, Apply
<1>2. mark.seen \in Nat /\ Above(mark.seen) /\ (~unnoticed => Above(wake))
  BY DEF TypeOK, SteadyIInv
<1>3. CASE Raises(barrier, r, now)
  <2>1. mark' = [wall |-> Wall, seen |-> seen'] /\ unnoticed' = FALSE
    BY <1>3 DEF HandlerStep, Apply, Raises
  <2>2. IF barrier'.raised THEN barrier'.floor >= seen' ELSE barrier'.lastUpdate > seen'
    BY <1>0, <1>1, <1>3, AboveAfterRaises
  <2>3. IF barrier'.raised THEN barrier'.floor >= wake ELSE barrier'.lastUpdate > wake
    BY <1>0, <1>1, <1>3, AboveAfterRaises
  <2> QED
    BY <1>0, <2>1, <2>2, <2>3 DEF Above
<1>4. CASE Withholds(barrier, r)
  <2>1. UNCHANGED <<mark, unnoticed>>
    BY <1>4 DEF HandlerStep, Apply, Withholds
  <2>2. IF barrier'.raised THEN barrier'.floor >= mark.seen ELSE barrier'.lastUpdate > mark.seen
    BY <1>1, <1>2, <1>4, AboveAfterWithholds
  <2>3. ~unnoticed =>
          IF barrier'.raised THEN barrier'.floor >= wake ELSE barrier'.lastUpdate > wake
    BY <1>0, <1>1, <1>2, <1>4, AboveAfterWithholds
  <2> QED
    BY <1>0, <2>1, <2>2, <2>3 DEF Above
<1>5. ASSUME NEW s \in ReadableSamples, Clears(barrier, r, s)
      PROVE  /\ UNCHANGED <<mark, unnoticed>>
             /\ Above(mark.seen)'
             /\ ~unnoticed => Above(wake)'
  <2>1. UNCHANGED <<mark, unnoticed>>
    BY <1>5 DEF HandlerStep, Apply, Clears
  <2>2. IF barrier'.raised THEN barrier'.floor >= mark.seen ELSE barrier'.lastUpdate > mark.seen
    BY <1>1, <1>2, <1>5, ReadableSamplesType, AboveAfterClears
  <2>3. ~unnoticed =>
          IF barrier'.raised THEN barrier'.floor >= wake ELSE barrier'.lastUpdate > wake
    BY <1>0, <1>1, <1>2, <1>5, ReadableSamplesType, AboveAfterClears
  <2> QED
    BY <1>0, <2>1, <2>2, <2>3 DEF Above
<1> QED
  BY <1>0, <1>3, <1>4, <1>5 DEF HandlerStep

-----------------------------------------------------------------------------
(* Each handler of the daemon is a HandlerStep. *)
LEMMA ObserveSampleStep ==
  ASSUME IInv, NEW now \in Nows, NEW s \in ReadableSamples, ObserveSample(s, now)
  PROVE  HandlerStep(now, Observe(barrier, s, now))
<1> USE DEF IInv
<1>1. /\ now \in Nat /\ s \in FreshnessSamples(Nat) /\ barrier \in Barriers
      /\ s.updateTime \in Nat /\ s.updateTime <= Wall
  BY NowsType, ReadableSamplesType DEF TypeOK
<1>2. \/ Raises(barrier, Observe(barrier, s, now), now)
      \/ Withholds(barrier, Observe(barrier, s, now))
      \/ Clears(barrier, Observe(barrier, s, now), s)
  BY <1>1, ObserveClass
<1>3. Observe(barrier, s, now).barrier.suspended
        => Observe(barrier, s, now).barrier.raised
  BY <1>2 DEF Raises, Withholds, Clears, SuspendedStaysRaised
<1>4. seen' \in Nat /\ (seen' = seen \/ seen' <= Wall)
  BY <1>1 DEF ObserveSample, Larger, TypeOK
<1> QED
  BY <1>2, <1>3, <1>4 DEF ObserveSample, HandlerStep

LEMMA SampleMissingStep ==
  ASSUME IInv, NEW now \in Nows, SampleMissing(now)
  PROVE  HandlerStep(now, ObserveMissing(barrier, now))
<1> USE DEF IInv
<1>1. now \in Nat /\ barrier \in Barriers /\ seen \in Nat
  BY NowsType DEF TypeOK
<1>2. \/ Raises(barrier, ObserveMissing(barrier, now), now)
      \/ Withholds(barrier, ObserveMissing(barrier, now))
  BY <1>1, BlockMissingClass DEF ObserveMissing
<1> QED
  BY <1>1, <1>2 DEF SampleMissing, HandlerStep, Raises, Withholds

LEMMA SleepSignalStep ==
  ASSUME IInv, NEW now \in Nows, NEW preparing \in BOOLEAN,
         SleepSignal(preparing, now)
  PROVE  HandlerStep(now, PrepareForSleep(barrier, preparing, now))
<1> USE DEF IInv
<1>1. now \in Nat /\ barrier \in Barriers /\ seen \in Nat
  BY NowsType DEF TypeOK
<1>2. \/ Raises(barrier, PrepareForSleep(barrier, preparing, now), now)
      \/ Withholds(barrier, PrepareForSleep(barrier, preparing, now))
  BY <1>1, PrepareForSleepClass DEF SuspendedStaysRaised
<1> QED
  BY <1>1, <1>2 DEF SleepSignal, HandlerStep, Raises, Withholds

LEMMA InvalidateStep ==
  ASSUME IInv, NEW now \in Nows, NEW event, Apply(Invalidate(barrier, event, now)),
         UNCHANGED <<seen, clocks, wake>>
  PROVE  HandlerStep(now, Invalidate(barrier, event, now))
<1> USE DEF IInv
<1>1. now \in Nat /\ barrier \in Barriers /\ seen \in Nat
  BY NowsType DEF TypeOK
<1>2. Raises(barrier, Invalidate(barrier, event, now), now)
  BY <1>1, InvalidateRaises
<1> QED
  BY <1>1, <1>2 DEF HandlerStep, Raises

(* The clock check either applies an invalidation or leaves the barrier,   *)
(* and in the latter case no tolerated gap hides an unnoticed suspend.     *)
LEMMA ReadingsType ==
  ASSUME TypeOK, NEW reading \in ClockReadings
  PROVE  /\ reading.boot \in Nat /\ reading.mono \in Nat
         /\ reading.boot <= boot /\ reading.mono <= mono
         /\ \/ reading.boot = boot /\ reading.mono = mono
            \/ reading.boot < detector.boot \/ reading.mono < detector.mono
  BY DEF TypeOK, ClockReadings

LEMMA DetectorAfterTick ==
  ASSUME TypeOK, ClocksOrdered, NEW reading \in ClockReadings,
         detector' = ClockReading(detector, reading.boot, reading.mono)
  PROVE  /\ detector' \in Detectors
         /\ detector'.boot <= boot /\ detector'.mono <= mono
<1>1. /\ reading.boot \in Nat /\ reading.mono \in Nat
      /\ reading.boot <= boot /\ reading.mono <= mono
  BY ReadingsType
<1> QED
  BY <1>1 DEF ClockReading, NoReading, Detectors, TypeOK

LEMMA SteadyOutcome ==
  ASSUME TypeOK, NEW reading \in ClockReadings, detector.known,
         ClockOutcome(detector, reading.boot, reading.mono) \in {"Baseline", "Steady"}
  PROVE  (boot - detector.boot) - (mono - detector.mono) <= Tolerance
<1>1. /\ reading.boot \in Nat /\ reading.mono \in Nat
      /\ \/ reading.boot = boot /\ reading.mono = mono
         \/ reading.boot < detector.boot \/ reading.mono < detector.mono
  BY ReadingsType
<1>2. detector.boot \in Nat /\ detector.mono \in Nat /\ boot \in Nat /\ mono \in Nat
  BY DEF TypeOK, Detectors
<1>3. CASE reading.boot < detector.boot \/ reading.mono < detector.mono
  <2>1. ClockOutcome(detector, reading.boot, reading.mono) = "Regression"
    BY <1>1, <1>2, <1>3 DEF ClockOutcome
  <2> QED
    BY <2>1
<1>4. CASE ~(reading.boot < detector.boot \/ reading.mono < detector.mono)
  <2>1. /\ reading.boot = boot /\ reading.mono = mono
        /\ boot >= detector.boot /\ mono >= detector.mono
    BY <1>1, <1>2, <1>4
  <2> QED
    BY <1>2, <2>1, FreshnessAssumption DEF ClockOutcome
<1> QED
  BY <1>3, <1>4

-----------------------------------------------------------------------------
(* Every step is a HandlerStep that leaves the detector alone, a clock     *)
(* check, or a step of the environment.                                    *)
ByHandler ==
  /\ UNCHANGED detector
  /\ \E now \in Nows : \E r \in {Observe(barrier, s, now) : s \in ReadableSamples}
       \union {PrepareForSleep(barrier, preparing, now) : preparing \in BOOLEAN}
       \union {Invalidate(barrier, event, now) :
                 event \in {"UPowerReconnect", "ClockAnomaly", "ClockResume"}}
       \union {ObserveMissing(barrier, now)} :
       HandlerStep(now, r)

ByClockCheck ==
  /\ \/ detector' = NoReading
     \/ \E reading \in ClockReadings :
          detector' = ClockReading(detector, reading.boot, reading.mono)
  /\ \E now \in Nows, event \in {"ClockAnomaly", "ClockResume"} :
       HandlerStep(now, Invalidate(barrier, event, now))

ByToleratedTick ==
  /\ \E reading \in ClockReadings :
       /\ detector' = ClockReading(detector, reading.boot, reading.mono)
       /\ ClockOutcome(detector, reading.boot, reading.mono) \in {"Baseline", "Steady"}
  /\ unnoticed' = FALSE
  /\ UNCHANGED <<barrier, mark, seen, clocks, wake>>

ByEnvironment == TimePasses \/ SetWallBack \/ \E d \in 1 .. Tolerance + 1 : Suspend(d)

LEMMA NextCases ==
  ASSUME IInv, Next
  PROVE  ByHandler \/ ByClockCheck \/ ByToleratedTick \/ ByEnvironment
<1>1. ASSUME NEW now \in Nows, NEW s \in ReadableSamples, ObserveSample(s, now)
      PROVE  ByHandler
  BY <1>1, ObserveSampleStep DEF ByHandler, ObserveSample
<1>2. ASSUME NEW now \in Nows, SampleMissing(now)
      PROVE  ByHandler
  BY <1>2, SampleMissingStep DEF ByHandler, SampleMissing
<1>3. ASSUME NEW now \in Nows, NEW preparing \in BOOLEAN, SleepSignal(preparing, now)
      PROVE  ByHandler
  BY <1>3, SleepSignalStep DEF ByHandler, SleepSignal
<1>4. ASSUME NEW now \in Nows,
             NEW event \in {"UPowerReconnect", "ClockAnomaly", "ClockResume"},
             RaiseBarrier(event, now)
      PROVE  ByHandler
  <2>1. HandlerStep(now, Invalidate(barrier, event, now)) /\ UNCHANGED detector
    BY <1>4, InvalidateStep DEF RaiseBarrier
  <2> QED
    BY <2>1 DEF ByHandler
<1>5. ASSUME NEW now \in Nows, NEW reading \in ClockReadings, TickClocks(reading, now)
      PROVE  ByClockCheck \/ ByToleratedTick
  <2> DEFINE outcome == ClockOutcome(detector, reading.boot, reading.mono)
             event == IF outcome = "Resumed" THEN "ClockResume" ELSE "ClockAnomaly"
  <2>1. CASE outcome \in {"Baseline", "Steady"}
    BY <1>5, <2>1 DEF TickClocks, ByToleratedTick
  <2>2. CASE outcome \notin {"Baseline", "Steady"}
    <3>1. /\ Apply(Invalidate(barrier, event, now))
          /\ UNCHANGED <<seen, clocks, wake>>
          /\ detector' = ClockReading(detector, reading.boot, reading.mono)
      BY <1>5, <2>2 DEF TickClocks
    <3> HIDE DEF outcome
    <3>2. HandlerStep(now, Invalidate(barrier, event, now))
      BY <3>1, InvalidateStep
    <3>3. event \in {"ClockAnomaly", "ClockResume"}
      OBVIOUS
    <3> HIDE DEF event
    <3> QED
      BY <3>1, <3>2, <3>3 DEF ByClockCheck
  <2> QED
    BY <2>1, <2>2
<1>6. ASSUME NEW now \in Nows, TickClocksUnreadable(now)
      PROVE  ByClockCheck
  BY <1>6, InvalidateStep DEF TickClocksUnreadable, ByClockCheck
<1> QED
  BY <1>1, <1>2, <1>3, <1>4, <1>5, <1>6 DEF Next, ByEnvironment

-----------------------------------------------------------------------------
LEMMA InitIInv == Init => IInv
<1> SUFFICES ASSUME Init PROVE IInv
  OBVIOUS
<1>1. DefaultBarrier \in Barriers
  BY FreshnessAssumption DEF DefaultBarrier, Barriers, SourceOption
<1>2. StartTime \in Nat /\ Raises(DefaultBarrier,
        Invalidate(DefaultBarrier, "DaemonStartup", StartTime), StartTime)
  BY <1>1, InvalidateRaises, PowerFreshnessAssumption
<1>3. TypeOK
  BY <1>2 DEF Init, TypeOK, Raises, NoReading, Detectors
<1>4. ClocksOrdered
  BY PowerFreshnessAssumption DEF Init, ClocksOrdered, Wall, NoReading
<1> QED
  BY <1>2, <1>3, <1>4 DEF Init, IInv, Raises, SuspendedStaysRaised, Above

LEMMA HandlerIInv ==
  ASSUME IInv, NEW now, NEW r, HandlerStep(now, r),
         detector' \in Detectors, detector'.boot <= boot, detector'.mono <= mono
  PROVE  IInv'
<1>1. /\ barrier' \in Barriers /\ unnoticed' \in BOOLEAN
      /\ mark' \in [wall : Nat, seen : Nat]
      /\ SuspendedStaysRaised' /\ Above(mark.wall)'
  BY HandlerPreserves
<1>2. seen' \in Nat /\ UNCHANGED <<boot, mono, wallStep, wake>>
  BY DEF HandlerStep, clocks
<1> QED
  BY <1>1, <1>2 DEF IInv, TypeOK, ClocksOrdered, Wall

LEMMA NextIInv == IInv /\ [Next]_vars => IInv'
<1> SUFFICES ASSUME IInv, [Next]_vars PROVE IInv'
  OBVIOUS
<1>1. CASE ByHandler
  <2>1. PICK now, r : HandlerStep(now, r)
    BY <1>1 DEF ByHandler
  <2>2. UNCHANGED detector
    BY <1>1 DEF ByHandler
  <2> QED
    BY <2>1, <2>2, HandlerIInv DEF IInv, TypeOK, ClocksOrdered
<1>2. CASE ByClockCheck
  <2>1. PICK now, r : HandlerStep(now, r)
    BY <1>2 DEF ByClockCheck
  <2>2. detector' \in Detectors /\ detector'.boot <= boot /\ detector'.mono <= mono
    <3>1. CASE detector' = NoReading
      BY <3>1 DEF NoReading, Detectors, IInv, TypeOK
    <3>2. CASE detector' # NoReading
      BY <1>2, <3>2, DetectorAfterTick DEF ByClockCheck, IInv
    <3> QED
      BY <3>1, <3>2
  <2> QED
    BY <2>1, <2>2, HandlerIInv
<1>3. CASE ByToleratedTick
  <2>1. detector' \in Detectors /\ detector'.boot <= boot /\ detector'.mono <= mono
    BY <1>3, DetectorAfterTick DEF ByToleratedTick, IInv
  <2> QED
    BY <1>3, <2>1 DEF ByToleratedTick, IInv, TypeOK, ClocksOrdered, Wall, clocks,
                      SuspendedStaysRaised, Above
<1>4. CASE ByEnvironment
  <2>1. /\ UNCHANGED <<barrier, detector, seen, mark>>
        /\ boot' \in Nat /\ mono' \in Nat /\ wallStep' \in {0, 1}
        /\ boot' <= MaxClock /\ boot <= boot' /\ mono <= mono'
        /\ unnoticed' \in BOOLEAN /\ Wall' \in Nat /\ wake' \in Nat
    <3>1. CASE TimePasses
      BY <3>1, PowerFreshnessAssumption DEF TimePasses, IInv, TypeOK, ClocksOrdered, Wall
    <3>2. CASE SetWallBack
      BY <3>2, PowerFreshnessAssumption DEF SetWallBack, IInv, TypeOK, ClocksOrdered, Wall
    <3>3. ASSUME NEW d \in 1 .. Tolerance + 1, Suspend(d)
          PROVE  /\ UNCHANGED <<barrier, detector, seen, mark, mono, wallStep>>
                 /\ boot' = boot + d /\ d \in Nat /\ boot' <= MaxClock
                 /\ boot' \in Nat /\ Wall' = Wall + d /\ Wall' \in Nat
                 /\ wake' = Wall' \/ wake' = wake
                 /\ unnoticed' \in BOOLEAN
      <4>1. d \in Nat /\ boot \in Nat /\ mono \in Nat /\ wallStep \in {0, 1} /\ Wall \in Nat
        BY FreshnessAssumption DEF IInv, TypeOK, ClocksOrdered
      <4>2. /\ UNCHANGED <<barrier, detector, seen, mark, mono, wallStep>>
            /\ boot' = boot + d /\ boot' <= MaxClock
        BY <3>3, <4>1 DEF Suspend
      <4>3. Wall' = Wall + d /\ Wall' \in Nat /\ boot' \in Nat
        BY <4>1, <4>2, PowerFreshnessAssumption DEF Wall
      <4>4. CASE d > Tolerance /\ detector.known
        BY <3>3, <4>1, <4>2, <4>3, <4>4 DEF Suspend, Wall
      <4>5. CASE ~(d > Tolerance /\ detector.known)
        BY <3>3, <4>1, <4>2, <4>3, <4>5 DEF Suspend, IInv, TypeOK
      <4> QED
        BY <4>1, <4>2, <4>3, <4>4, <4>5
    <3> QED
      BY <1>4, <3>1, <3>2, <3>3 DEF ByEnvironment, IInv, TypeOK
  <2> QED
    BY <2>1 DEF IInv, TypeOK, ClocksOrdered, SuspendedStaysRaised, Above, Detectors
<1>5. CASE UNCHANGED vars
  BY <1>5 DEF vars, clocks, IInv, TypeOK, ClocksOrdered, Wall, SuspendedStaysRaised, Above
<1> QED
  BY <1>1, <1>2, <1>3, <1>4, <1>5, NextCases

(* Every reachable state has the right types, for all bounds. *)
THEOREM TypeCorrect == Spec => []TypeOK
<1>1. IInv => TypeOK
  BY DEF IInv
<1> QED
  BY InitIInv, NextIInv, <1>1, PTL DEF Spec

(* A trusted reading was refreshed after the event that raised the barrier,*)
(* even when the wall clock is set back: observe/begin_barrier.            *)
THEOREM RefreshBeforeTrust == Spec => []EligibleNeedsRefresh
<1>1. IInv => EligibleNeedsRefresh
  BY DEF IInv, Above, EligibleNeedsRefresh
<1> QED
  BY InitIInv, NextIInv, <1>1, PTL DEF Spec

(* While logind says the machine is going to sleep the barrier is up.      *)
THEOREM SuspendBlocksTrust == Spec => []SuspendedStaysRaised
<1>1. IInv => SuspendedStaysRaised
  BY DEF IInv
<1> QED
  BY InitIInv, NextIInv, <1>1, PTL DEF Spec

-----------------------------------------------------------------------------
(* The same argument until the wall clock is set back. *)
LEMMA InitSteadyIInv == Init => SteadyIInv
<1> SUFFICES ASSUME Init PROVE SteadyIInv
  OBVIOUS
<1>1. IInv
  BY InitIInv
<1>2. barrier.raised /\ barrier.floor \in Nat
  <2>1. DefaultBarrier \in Barriers /\ StartTime \in Nat
    BY FreshnessAssumption, PowerFreshnessAssumption
    DEF DefaultBarrier, Barriers, SourceOption
  <2> QED
    BY <2>1, InvalidateRaises DEF Init, Raises, Barriers
<1> QED
  BY <1>1, <1>2, PowerFreshnessAssumption
  DEF Init, SteadyIInv, IInv, ClocksOrdered, Above, Wall, NoReading

(* What a clock check stores is never ahead in CLOCK_MONOTONIC. *)
LEMMA DetectorAfterSteadyTick ==
  ASSUME IInv, SteadyIInv, UNCHANGED clocks,
         \/ detector' = NoReading
         \/ \E reading \in ClockReadings :
              detector' = ClockReading(detector, reading.boot, reading.mono)
  PROVE  /\ boot' - detector'.boot >= mono' - detector'.mono
         /\ ~detector'.known => detector' = NoReading
<1>1. boot' = boot /\ mono' = mono /\ boot \in Nat /\ mono \in Nat /\ boot >= mono
  BY DEF clocks, IInv, TypeOK, SteadyIInv
<1>2. CASE detector' = NoReading
  BY <1>1, <1>2 DEF NoReading
<1>3. ASSUME NEW reading \in ClockReadings,
             detector' = ClockReading(detector, reading.boot, reading.mono),
             detector' # NoReading
      PROVE  detector' = [known |-> TRUE, boot |-> boot, mono |-> mono]
  <2>1. /\ ClockOutcome(detector, reading.boot, reading.mono) # "Regression"
        /\ detector' = [known |-> TRUE, boot |-> reading.boot, mono |-> reading.mono]
    BY <1>3 DEF ClockReading
  <2>2. detector.boot \in Nat /\ detector.mono \in Nat
    BY DEF IInv, TypeOK, Detectors
  <2>3. /\ reading.boot \in Nat /\ reading.mono \in Nat
        /\ \/ reading.boot = boot /\ reading.mono = mono
           \/ reading.boot < detector.boot \/ reading.mono < detector.mono
    BY ReadingsType DEF IInv
  <2>4. CASE detector.known
    <3>1. ~(reading.boot < detector.boot \/ reading.mono < detector.mono)
      BY <2>1, <2>2, <2>3, <2>4 DEF ClockOutcome
    <3>2. reading.boot = boot /\ reading.mono = mono
      BY <2>3, <3>1
    <3> QED
      BY <2>1, <3>2
  <2>5. CASE ~detector.known
    <3>1. detector.boot = 0 /\ detector.mono = 0
      BY <2>5 DEF SteadyIInv, NoReading
    <3>2. reading.boot = boot /\ reading.mono = mono
      BY <2>3, <3>1
    <3> QED
      BY <2>1, <3>2
  <2> QED
    BY <2>4, <2>5
<1> QED
  BY <1>1, <1>2, <1>3

LEMMA NextSteadyIInv ==
  ASSUME IInv, SteadyIInv, [Next]_vars, wallStep' = 0
  PROVE  SteadyIInv'
<1>0. /\ boot \in Nat /\ mono \in Nat /\ detector.boot \in Nat /\ detector.mono \in Nat
      /\ seen \in Nat /\ wake \in Nat /\ Wall \in Nat /\ detector.known \in BOOLEAN
  BY DEF IInv, TypeOK, ClocksOrdered, Detectors
<1>1. CASE ByHandler
  <2>1. PICK now, r : HandlerStep(now, r)
    BY <1>1 DEF ByHandler
  <2>2. UNCHANGED detector /\ UNCHANGED <<boot, mono, wallStep, wake>>
    BY <1>1, <2>1 DEF ByHandler, HandlerStep, clocks
  <2>3. /\ seen' <= Wall' /\ Above(mark.seen)' /\ (~unnoticed' => Above(wake)')
        /\ (unnoticed' => unnoticed)
    BY <2>1, HandlerPreservesSteady
  <2> QED
    BY <2>2, <2>3 DEF SteadyIInv, Wall
<1>2. CASE ByClockCheck
  <2>1. PICK now \in Nows, event \in {"ClockAnomaly", "ClockResume"} :
          HandlerStep(now, Invalidate(barrier, event, now))
    BY <1>2 DEF ByClockCheck
  <2>2. UNCHANGED <<boot, mono, wallStep, wake>> /\ UNCHANGED clocks
    BY <2>1 DEF HandlerStep, clocks
  <2>3. /\ seen' <= Wall' /\ Above(mark.seen)' /\ (~unnoticed' => Above(wake)')
    BY <2>1, HandlerPreservesSteady
  <2>4. unnoticed' = FALSE
    <3>1. Invalidate(barrier, event, now).decision = "Invalidated"
      BY <1>0, NowsType, InvalidateRaises DEF IInv, TypeOK, Raises
    <3> QED
      BY <2>1, <3>1 DEF HandlerStep, Apply
  <2>5. /\ boot' - detector'.boot >= mono' - detector'.mono
        /\ ~detector'.known => detector' = NoReading
    BY <1>2, <2>2, DetectorAfterSteadyTick DEF ByClockCheck
  <2> QED
    BY <2>2, <2>3, <2>4, <2>5 DEF SteadyIInv, Wall
<1>3. CASE ByToleratedTick
  <2>1. PICK reading \in ClockReadings :
          /\ detector' = ClockReading(detector, reading.boot, reading.mono)
          /\ ClockOutcome(detector, reading.boot, reading.mono) \in {"Baseline", "Steady"}
    BY <1>3 DEF ByToleratedTick
  <2>2. ~unnoticed
    <3>1. SUFFICES ASSUME unnoticed PROVE FALSE
      OBVIOUS
    <3>2. detector.known /\ (boot - detector.boot) - (mono - detector.mono) > Tolerance
      BY <3>1 DEF SteadyIInv
    <3>3. (boot - detector.boot) - (mono - detector.mono) <= Tolerance
      BY <2>1, <3>2, SteadyOutcome DEF IInv
    <3> QED
      BY <1>0, <3>2, <3>3, FreshnessAssumption
  <2>3. UNCHANGED <<barrier, mark, seen, wake, boot, mono, wallStep>> /\ UNCHANGED clocks
        /\ unnoticed' = FALSE
    BY <1>3 DEF ByToleratedTick, clocks
  <2>4. /\ boot' - detector'.boot >= mono' - detector'.mono
        /\ ~detector'.known => detector' = NoReading
    BY <2>1, <2>3, DetectorAfterSteadyTick
  <2> QED
    BY <2>2, <2>3, <2>4 DEF SteadyIInv, Wall, Above
<1>4. CASE TimePasses
  BY <1>0, <1>4, PowerFreshnessAssumption DEF TimePasses, SteadyIInv, Wall, Above
<1>5. ASSUME NEW d \in 1 .. Tolerance + 1, Suspend(d)
      PROVE  SteadyIInv'
  <2>1. d \in Nat /\ d >= 1 /\ Tolerance \in Nat /\ StartTime \in Nat
    BY FreshnessAssumption, PowerFreshnessAssumption
  <2>2. /\ boot' = boot + d /\ UNCHANGED <<mono, wallStep, barrier, detector, seen, mark>>
        /\ Wall' = Wall + d /\ wallStep = 0
    BY <1>0, <1>5, <2>1 DEF Suspend, Wall, SteadyIInv
  <2>3. CASE d > Tolerance /\ detector.known
    <3>1. wake' = Wall' /\ unnoticed' = TRUE
      BY <1>5, <2>2, <2>3 DEF Suspend, Wall
    <3> QED
      BY <1>0, <2>1, <2>2, <2>3, <3>1 DEF SteadyIInv, Above
  <2>4. CASE ~(d > Tolerance /\ detector.known)
    <3>1. UNCHANGED <<wake, unnoticed>>
      BY <1>5, <2>4 DEF Suspend
    <3> QED
      BY <1>0, <2>1, <2>2, <3>1 DEF SteadyIInv, Above
  <2> QED
    BY <2>3, <2>4
<1>6. CASE UNCHANGED vars
  BY <1>6 DEF vars, clocks, SteadyIInv, Wall, Above
<1> QED
  BY <1>1, <1>2, <1>3, <1>4, <1>5, <1>6, NextCases DEF ByEnvironment, SetWallBack

(* A wall clock that was not set back is as it was before the step. *)
LEMMA StepsBackStay ==
  ASSUME IInv, wallStep = 0 => SteadyIInv, [Next]_vars
  PROVE  (wallStep = 0 => SteadyIInv)'
<1>1. wallStep' = 0 => wallStep = 0
  BY NextCases DEF ByHandler, ByClockCheck, ByToleratedTick, ByEnvironment, HandlerStep,
    TimePasses, Suspend, SetWallBack, clocks, vars
<1> QED
  BY <1>1, NextSteadyIInv

(* Until the wall clock is set back, no reading the barrier was shown      *)
(* before it went up can clear it.                                         *)
THEOREM CachedReadingsBlocked == Spec => []CachedReadingNeverClears
<1> DEFINE Steady == wallStep = 0 => SteadyIInv
<1>1. Init => Steady
  BY InitSteadyIInv
<1>2. IInv /\ Steady /\ [Next]_vars => Steady'
  BY StepsBackStay
<1>3. IInv /\ Steady => CachedReadingNeverClears
  BY DEF SteadyIInv, Above, CachedReadingNeverClears
<1> HIDE DEF Steady
<1> QED
  BY InitIInv, NextIInv, <1>1, <1>2, <1>3, PTL DEF Spec

(* Until the wall clock is set back, a suspend longer than the       *)
(* tolerance is followed, from the next tick, by trust only in readings    *)
(* refreshed after the wake-up, whether or not logind announced it.        *)
THEOREM WakeUpsNoticed == Spec => []WokenNeedsRefresh
<1> DEFINE Steady == wallStep = 0 => SteadyIInv
<1>1. Init => Steady
  BY InitSteadyIInv
<1>2. IInv /\ Steady /\ [Next]_vars => Steady'
  BY StepsBackStay
<1>3. IInv /\ Steady => WokenNeedsRefresh
  BY DEF SteadyIInv, Above, WokenNeedsRefresh
<1> HIDE DEF Steady
<1> QED
  BY InitIInv, NextIInv, <1>1, <1>2, <1>3, PTL DEF Spec

-----------------------------------------------------------------------------
LEMMA BarrierStep ==
  ASSUME IInv, [Next]_vars
  PROVE  \/ barrier' = barrier
         \/ \E now, r : HandlerStep(now, r) /\ barrier' = r.barrier
<1>1. CASE ByHandler
  BY <1>1 DEF ByHandler, HandlerStep, Apply
<1>2. CASE ByClockCheck
  BY <1>2 DEF ByClockCheck, HandlerStep, Apply
<1>3. CASE ByToleratedTick
  BY <1>3 DEF ByToleratedTick
<1>4. CASE ByEnvironment
  BY <1>4 DEF ByEnvironment, TimePasses, SetWallBack, Suspend
<1>5. CASE UNCHANGED vars
  BY <1>5 DEF vars
<1> QED
  BY <1>1, <1>2, <1>3, <1>4, <1>5, NextCases

(* observe() never moves trust from one power source to the other without  *)
(* raising the barrier in between.                                         *)
THEOREM SourceFlipsRearm == Spec => SourceFlipRearms
<1> DEFINE Flip == ~barrier.raised /\ ~barrier'.raised /\ barrier.lastSource \in Sources
                     => barrier'.lastSource = barrier.lastSource
<1>1. IInv /\ [Next]_vars => [Flip]_vars
  <2> SUFFICES ASSUME IInv, [Next]_vars PROVE Flip
    OBVIOUS
  <2>1. CASE barrier' = barrier
    BY <2>1
  <2>2. ASSUME NEW now, NEW r, HandlerStep(now, r), barrier' = r.barrier
        PROVE  Flip
    BY <2>2 DEF HandlerStep, Raises, Withholds, Clears
  <2> QED
    BY <2>1, <2>2, BarrierStep
<1> QED
  BY InitIInv, NextIInv, <1>1, PTL DEF Spec, SourceFlipRearms

(* begin_barrier() gives every loss of eligibility a generation of its own,*)
(* up to u64::MAX.                                                         *)
THEOREM EveryLossIsANewGeneration == Spec => LosingEligibilityIsANewGeneration
<1> DEFINE Counted == ~barrier.raised /\ barrier'.raised
                        => barrier'.generation = Saturating(barrier.generation + 1)
<1>1. IInv /\ [Next]_vars => [Counted]_vars
  <2> SUFFICES ASSUME IInv, [Next]_vars PROVE Counted
    OBVIOUS
  <2>1. CASE barrier' = barrier
    BY <2>1
  <2>2. ASSUME NEW now, NEW r, HandlerStep(now, r), barrier' = r.barrier
        PROVE  Counted
    BY <2>2 DEF HandlerStep, Raises, Withholds, Clears
  <2> QED
    BY <2>1, <2>2, BarrierStep
<1> QED
  BY InitIInv, NextIInv, <1>1, PTL DEF Spec, LosingEligibilityIsANewGeneration

=============================================================================
