------------------------ MODULE KeyboardLightingProofs ------------------------
(***************************************************************************)
(* Proofs about the helper's Aura calls (AuraHelper) and the daemon's      *)
(* lighting record on top of them (KeyboardLighting), for any sessions,    *)
(* effects, number of reports and of devices.                              *)
(***************************************************************************)
EXTENDS KeyboardLighting, TLAPS

(***************************************************************************)
(* The helper alone.                                                       *)
(***************************************************************************)

Places == {"idle", "queued", "locked", "checking", "sending"}
Holding == {"locked", "checking", "sending"}

TypeOK ==
  /\ device \in Nat /\ plugged \in Nat /\ asusd \in BOOLEAN
  /\ last \in [request: Effects \union {None}, device: Nat]
  /\ call \in [Callers -> [at: Places, request: Effects \union {None},
                           sent: Nat, file: Nat]]
  /\ disturbed \in BOOLEAN /\ intruding \in Nat

\* The AsyncMutex: one call is past its lock.
OneWriter ==
  \A c, d \in Callers:
    call[c].at \in Holding /\ call[d].at \in Holding => c = d

\* No call works on a device that is yet to come.
KnownDevices ==
  /\ device <= plugged /\ last.device <= plugged
  /\ \A c \in Callers: call[c].file <= plugged

\* The last request is what the keyboard shows.
Remembered ==
  ~disturbed /\ device # 0 /\ last.device = device => shown = last.request

\* A report is only under way for asusd to see if none was before it.
Yields ==
  /\ intruding <= 1
  /\ asusd /\ (\E c \in Callers: call[c].at = "sending") => intruding = 0

IInv == TypeOK /\ OneWriter /\ KnownDevices /\ Remembered /\ Yields

LEMMA InitIInv == Init => IInv
<1> SUFFICES ASSUME Init PROVE IInv
  OBVIOUS
<1> USE DEF Init, Gone, NoCall, At
<1>1. TypeOK
  BY DEF TypeOK, Places
<1>2. OneWriter /\ KnownDevices
  BY DEF OneWriter, KnownDevices, Holding
<1>3. Remembered /\ Yields
  BY DEF Remembered, Yields
<1> QED
  BY <1>1, <1>2, <1>3 DEF IInv

\* Every step of a call keeps the invariant.
LEMMA StepKeepsIInv ==
  ASSUME IInv, NEW c \in Callers, Step(c)
  PROVE  IInv'
<1> USE AuraAssumption
    DEF IInv, TypeOK, OneWriter, KnownDevices, Remembered, Yields, world,
        Places, Holding
<1>1. CASE Ask(c)
  BY <1>1 DEF Ask, NoCall, At, None
<1>2. CASE Lock(c)
  BY <1>2 DEF Lock, Locked
<1>3. CASE Refuse(c)
  BY <1>3 DEF Refuse, NoCall, At, None
<1>4. CASE Suppress(c)
  BY <1>4 DEF Suppress, NoCall, At, None
<1>5. CASE Proceed(c)
  BY <1>5 DEF Proceed
<1>6. CASE CheckOwner(c)
  BY <1>6 DEF CheckOwner
<1>7. CASE SendReport(c)
  BY <1>7 DEF SendReport
<1>8. CASE SendLastReport(c)
  BY <1>8 DEF SendLastReport, NoCall, At, None
<1>9. CASE Abort(c)
  BY <1>9 DEF Abort, NoCall, At, None
<1> QED
  BY <1>1, <1>2, <1>3, <1>4, <1>5, <1>6, <1>7, <1>8, <1>9 DEF Step

LEMMA NextKeepsIInv == IInv /\ [Next]_vars => IInv'
<1> SUFFICES ASSUME IInv, [Next]_vars PROVE IInv'
  OBVIOUS
<1>1. CASE \E c \in Callers: Step(c)
  BY <1>1, StepKeepsIInv
<1> USE AuraAssumption
    DEF IInv, TypeOK, OneWriter, KnownDevices, Remembered, Yields, world,
        Places, Holding
<1>2. CASE IntervalEnds
  BY <1>2 DEF IntervalEnds
<1>3. CASE HelperRestarts
  BY <1>3 DEF HelperRestarts, Gone, NoCall, At, None
<1>4. CASE AsusdStarts
  BY <1>4 DEF AsusdStarts
<1>5. CASE AsusdWrites
  BY <1>5 DEF AsusdWrites
<1>6. CASE AsusdStops
  BY <1>6 DEF AsusdStops
<1>7. CASE Unplug
  <2>1. TypeOK' /\ OneWriter'
    BY <1>7 DEF Unplug
  <2>2. KnownDevices' /\ Remembered' /\ Yields'
    BY <1>7 DEF Unplug
  <2> QED
    BY <2>1, <2>2
<1>8. CASE Plug
  BY <1>8 DEF Plug
<1>9. CASE UNCHANGED vars
  BY <1>9 DEF vars
<1> QED
  BY <1>1, <1>2, <1>3, <1>4, <1>5, <1>6, <1>7, <1>8, <1>9 DEF Next

LEMMA Invariant == Spec => []IInv
BY InitIInv, NextKeepsIInv, PTL DEF Spec

\* asusd is overtaken by at most one report of a call that had just looked.
THEOREM AsusdIsYieldedTo == Spec => []YieldsToAsusd
<1>1. IInv => YieldsToAsusd
  BY DEF IInv, Yields, YieldsToAsusd
<1> QED
  BY <1>1, Invariant, PTL

\* A request is only suppressed if the keyboard shows it, as far as the helper
\* can know.
THEOREM SuppressionIsRight == Spec => SuppressedIsShown
<1>1. ASSUME IInv, [Next]_vars
      PROVE  [\A c \in Callers:
                Suppress(c) /\ ~disturbed => shown = call[c].request]_vars
  BY <1>1 DEF IInv, Remembered, Suppress, Suppressed
<1> QED
  BY <1>1, Invariant, PTL DEF Spec, SuppressedIsShown

(***************************************************************************)
(* The daemon's record, whose calls are those of the helper.               *)
(***************************************************************************)

LightingTypeOK ==
  /\ backend \in {"asusd", "native", "sysfs"}
  /\ set \in [at : {"idle", "waiting", "answered", "changed", "levelling", "ending"},
              effect : Effects \union {None}, level : BOOLEAN]
  /\ recorded \in Effects \union {None}
  /\ outcome \in {"none", "failed", "accepted", "verified"}
  /\ foreign \in BOOLEAN /\ repeated \in BOOLEAN /\ mixers \subseteq {"own", "others"}

\* A keyboard that shows no whole effect was left so by someone.
MixtureHasSource == disturbed => mixers # {}

\* A call of the helper is under way for this daemon while set_lighting waits,
\* and for the effect it waits for; only the native backend waits.
Awaits ==
  /\ set.at = "waiting" <=> call[Daemon] # NoCall
  /\ set.at = "waiting" => call[Daemon].request = set.effect /\ set.effect # None
  /\ set.at \in {"waiting", "answered"} => backend = "native"
  /\ set.at = "changed" => backend = "asusd"
  /\ set.at = "idle" => set = Idle

\* The answered effect is what the keyboard shows ...
Excused == foreign \/ repeated
AnsweredIsShown ==
  set.at = "answered" => set.effect # None /\ (Excused \/ shown = set.effect)

\* ... and so is the recorded one, once the answer is recorded.
Reported == outcome = "accepted" \/ (set.at \in {"levelling", "ending"} /\ set.effect # None)
RecordedIsShown ==
  backend = "native" /\ Reported =>
    /\ recorded # None
    /\ set.at \notin {"waiting", "answered"} => Excused \/ shown = recorded

LInv ==
  /\ IInv /\ LightingTypeOK /\ MixtureHasSource
  /\ Awaits /\ AnsweredIsShown /\ RecordedIsShown

-----------------------------------------------------------------------------
LEMMA EffectsAreNotNone == \A e \in Effects : e # None
BY AuraAssumption DEF None

\* A mode and a colour make an effect; so does asusd's with fields of a request.
LEMMA MergedIsAnEffect == \A wish : Merged(wish) \subseteq Effects /\ Changed(wish) \subseteq Effects
BY DEF Merged, Supported, Changed

LEMMA SelectableIsABackend == Selectable \subseteq {"asusd", "native", "sysfs"}
BY DEF Selectable, AsusdProbed

LEMMA InitLInv == LightingInit => LInv
<1> SUFFICES ASSUME LightingInit PROVE LInv
  OBVIOUS
<1>1. IInv
  BY InitIInv DEF LightingInit
<1>2. LightingTypeOK
  BY SelectableIsABackend DEF LightingInit, LightingTypeOK, Idle
<1>3. call[Daemon] = NoCall
  BY LightingAssumption DEF LightingInit, Init
<1>4. MixtureHasSource /\ Awaits /\ AnsweredIsShown /\ RecordedIsShown
  BY <1>3 DEF LightingInit, Init, MixtureHasSource, Awaits, AnsweredIsShown, RecordedIsShown, Reported, Idle
<1> QED
  BY <1>1, <1>2, <1>4 DEF LInv

-----------------------------------------------------------------------------
(* The helper's invariant.                                                 *)

\* A call that is handed on is as good as it was.
LEMMA RestartKeepsIInv ==
  ASSUME IInv, DaemonRestarts PROVE IInv'
<1> USE LightingAssumption DEF IInv, DaemonRestarts, world
<1>1. CASE UNCHANGED call
  BY <1>1 DEF TypeOK, OneWriter, KnownDevices, Remembered, Yields
<1>2. ASSUME NEW c \in Callers \ {Daemon}, call[c] = NoCall,
             call' = [call EXCEPT ![c] = call[Daemon], ![Daemon] = NoCall]
      PROVE  IInv'
  <2>1. /\ call'[c] = call[Daemon] /\ call'[Daemon] = call[c]
        /\ \A d \in Callers \ {c, Daemon} : call'[d] = call[d]
    BY <1>2 DEF TypeOK
  <2>2. TypeOK'
    BY <1>2, <2>1 DEF TypeOK
  <2>3. OneWriter'
    <3> SUFFICES ASSUME NEW d \in Callers, NEW e \in Callers,
                        call'[d].at \in Holding, call'[e].at \in Holding
                 PROVE  d = e
      BY DEF OneWriter
    <3>1. call[c].at \notin Holding
      BY <1>2 DEF Holding, NoCall, At
    <3>2. d # Daemon /\ e # Daemon
      BY <2>1, <3>1
    <3> QED
      BY <2>1, <3>1, <3>2 DEF OneWriter
  <2>4. KnownDevices' /\ Remembered'
    <3>1. \A d \in Callers : call'[d].file <= plugged
      BY <2>1 DEF KnownDevices
    <3> QED
      BY <3>1 DEF KnownDevices, Remembered
  <2>5. Yields'
    BY <1>2, <2>1 DEF Yields
  <2> QED
    BY <2>2, <2>3, <2>4, <2>5
<1> QED
  BY <1>1, <1>2

\* Every other step is one of AuraHelper or leaves its variables alone.
LEMMA LightingIsAura ==
  ASSUME LightingNext, ~DaemonRestarts PROVE [Next]_vars
<1> USE LightingAssumption DEF Next, Step
<1>1. ASSUME NEW wish \in Wishes,
             NativeAsks(wish) \/ NativeIsRefused(wish) \/ NativeLevels(wish)
             \/ AsusdIsRead(wish) \/ SysfsLevels(wish)
      PROVE  [Next]_vars
  BY <1>1 DEF NativeAsks, NativeIsRefused, NativeLevels, AsusdIsRead, SysfsLevels
<1>2. CASE HelperWorks \/ HelperFinishes \/ HelperRefuses \/ HelperExits
  BY <1>2 DEF HelperWorks, HelperFinishes, Completes, HelperRefuses, HelperExits
<1>3. CASE NativeRecords \/ AsusdFails \/ AsusdLevels \/ LevelSucceeds
           \/ LevelFails \/ LevelIsMissing \/ SetEnds
  BY <1>3 DEF NativeRecords, AsusdFails, AsusdLevels, LevelSucceeds,
       LevelFails, LevelIsMissing, SetEnds
<1>4. CASE AsusdIsSet \/ OthersCall \/ OthersWrite \/ WorldTurns
  BY <1>4 DEF AsusdIsSet, OthersCall, Completes, OthersWrite, WorldTurns
<1> QED
  BY <1>1, <1>2, <1>3, <1>4 DEF LightingNext

LEMMA LightingKeepsIInv ==
  ASSUME IInv, [LightingNext]_lightingVars PROVE IInv'
<1>1. CASE UNCHANGED lightingVars
  <2>1. UNCHANGED vars
    BY <1>1 DEF lightingVars
  <2> QED
    BY <2>1, NextKeepsIInv
<1>2. CASE DaemonRestarts
  BY <1>2, RestartKeepsIInv
<1>3. CASE LightingNext /\ ~DaemonRestarts
  BY <1>3, LightingIsAura, NextKeepsIInv
<1> QED
  BY <1>1, <1>2, <1>3

-----------------------------------------------------------------------------
(* The daemon's part.  DPart is what LInv adds to the helper's invariant.  *)
DPart ==
  /\ LightingTypeOK /\ MixtureHasSource
  /\ Awaits /\ AnsweredIsShown /\ RecordedIsShown

LEMMA NativeKeepsDPart ==
  ASSUME LInv, NEW wish \in Wishes,
         NativeAsks(wish) \/ NativeIsRefused(wish) \/ NativeLevels(wish)
  PROVE  DPart'
<1> USE EffectsAreNotNone, MergedIsAnEffect, LightingAssumption
    DEF LInv, DPart, LightingTypeOK, MixtureHasSource, Awaits, AnsweredIsShown,
        RecordedIsShown, Reported, Excused, touched
<1>0. wish.level \in BOOLEAN /\ None = "none"
  BY DEF Wishes, None
<1>1. ASSUME NativeAsks(wish) PROVE DPart'
  <2>1. PICK e \in Merged(wish) :
          Ask(Daemon) /\ call'[Daemon].request = e
          /\ set' = Busy("waiting", e, wish.level)
    BY <1>1 DEF NativeAsks
  <2>2. call'[Daemon] # NoCall /\ shown' = shown /\ disturbed' = disturbed
    BY <2>1 DEF Ask, IInv, TypeOK, At, NoCall
  <2> QED
    BY <1>0, <1>1, <2>1, <2>2 DEF NativeAsks, Busy, report
<1>2. ASSUME NativeIsRefused(wish) PROVE DPart'
  BY <1>0, <1>2 DEF NativeIsRefused, Fails, Idle, vars
<1>3. ASSUME NativeLevels(wish) PROVE DPart'
  BY <1>0, <1>3 DEF NativeLevels, Busy, Idle, report, vars
<1> QED
  BY <1>1, <1>2, <1>3

LEMMA HelperKeepsDPart ==
  ASSUME LInv, HelperWorks \/ HelperFinishes \/ HelperRefuses \/ HelperExits
  PROVE  DPart'
<1> USE LightingAssumption
    DEF LInv, DPart, LightingTypeOK, MixtureHasSource, Awaits, AnsweredIsShown,
        RecordedIsShown, Reported, Excused, touched
<1>1. CASE HelperWorks
  <2>1. call[Daemon] # NoCall /\ call'[Daemon] # NoCall
        /\ call'[Daemon].request = call[Daemon].request
    BY <1>1 DEF HelperWorks, Lock, Proceed, CheckOwner, SendReport, IInv, TypeOK, NoCall, At
  <2>2. /\ mixers \subseteq mixers' /\ mixers' \subseteq {"own", "others"}
        /\ disturbed' => mixers' # {}
    BY <1>1 DEF HelperWorks, Lock, Proceed, CheckOwner, SendReport
  <2> QED
    BY <1>1, <2>1, <2>2 DEF HelperWorks, report
<1>2. CASE HelperFinishes
  <2>1. call[Daemon] # NoCall /\ call'[Daemon] = NoCall
    BY <1>2 DEF HelperFinishes, Completes, SendLastReport, Suppress, IInv, TypeOK, NoCall, At
  <2>2. mixers' # {} \/ shown' = call[Daemon].request
    <3>1. CASE Completes(Daemon)
      BY <3>1 DEF Completes, SendLastReport
    <3>2. CASE Suppress(Daemon) /\ mixers' = mixers
      BY <3>2 DEF Suppress, Suppressed, IInv, Remembered
    <3> QED
      BY <1>2, <3>1, <3>2 DEF HelperFinishes
  <2>3. mixers' \subseteq {"own", "others"} /\ (disturbed' => mixers' # {})
    BY <1>2 DEF HelperFinishes, Completes, SendLastReport, Suppress
  <2>4. /\ set.at = "waiting" /\ set.effect = call[Daemon].request
        /\ set' = [set EXCEPT !.at = "answered"] /\ set'.at = "answered"
        /\ set'.effect = set.effect /\ set.effect # None
    BY <1>2, <2>1 DEF HelperFinishes
  <2>5. /\ foreign' \in BOOLEAN /\ repeated' \in BOOLEAN
        /\ Excused' \/ shown' = set'.effect
    <3>1. foreign' = ("others" \in mixers') /\ repeated' = ("own" \in mixers')
      BY <1>2 DEF HelperFinishes
    <3>2. foreign' \in BOOLEAN /\ repeated' \in BOOLEAN
      BY ONLY <3>1
    <3>3. CASE mixers' = {}
      BY <2>2, <2>4, <3>2, <3>3
    <3>4. CASE mixers' # {}
      <4>1. "others" \in mixers' \/ "own" \in mixers'
        BY <2>3, <3>4
      <4>2. foreign' \/ repeated'
        BY ONLY <3>1, <4>1
      <4> QED
        BY <3>2, <4>2
    <3> QED
      BY <3>3, <3>4
  <2>6. LightingTypeOK' /\ MixtureHasSource'
    <3>1. UNCHANGED <<backend, recorded, outcome>>
      BY <1>2 DEF HelperFinishes, report
    <3>2. set' \in [at : {"idle", "waiting", "answered", "changed", "levelling", "ending"},
                    effect : Effects \union {None}, level : BOOLEAN]
      BY <2>4
    <3> QED
      BY <2>3, <2>5, <3>1, <3>2
  <2>7. Awaits' /\ AnsweredIsShown'
    BY <1>2, <2>1, <2>4, <2>5 DEF HelperFinishes
  <2>8. RecordedIsShown'
    BY <1>2, <2>4 DEF HelperFinishes, report
  <2> QED
    BY <2>6, <2>7, <2>8
<1>3. CASE HelperRefuses
  <2>1. call'[Daemon] = NoCall /\ shown' = shown /\ disturbed' = disturbed
    BY <1>3 DEF HelperRefuses, Refuse, Abort, IInv, TypeOK
  <2>2. UNCHANGED <<backend, recorded, foreign, repeated, mixers>> /\ outcome' = "failed" /\ set' = Idle
    BY <1>3 DEF HelperRefuses, Fails
  <2> QED
    BY <2>1, <2>2 DEF Idle, None
<1>4. CASE HelperExits
  <2>1. call'[Daemon] = NoCall /\ shown' = shown /\ disturbed' = disturbed
    BY <1>4 DEF HelperExits, HelperRestarts
  <2>2. CASE set.at \in {"waiting", "answered"}
    <3>1. set' = Idle /\ outcome' = "failed" /\ UNCHANGED <<recorded, backend, touched>>
      BY <1>4, <2>2 DEF HelperExits, Fails
    <3> QED
      BY <2>1, <3>1 DEF Idle, None
  <2>3. CASE set.at \notin {"waiting", "answered"}
    BY <1>4, <2>1, <2>3 DEF HelperExits, report
  <2> QED
    BY <2>2, <2>3
<1> QED
  BY <1>1, <1>2, <1>3, <1>4

LEMMA AnswersKeepDPart ==
  ASSUME LInv, NativeRecords \/ LevelSucceeds \/ LevelFails \/ LevelIsMissing \/ SetEnds
  PROVE  DPart'
<1> USE LightingAssumption
    DEF LInv, DPart, LightingTypeOK, MixtureHasSource, Awaits, AnsweredIsShown,
        RecordedIsShown, Reported, Excused, touched
<1>1. CASE NativeRecords
  BY <1>1 DEF NativeRecords, vars
<1>2. CASE LevelSucceeds
  BY <1>2 DEF LevelSucceeds, Levelling, Busy, vars, report
<1>3. CASE LevelFails
  BY <1>3 DEF LevelFails, Levelling, Idle, None, vars
<1>4. CASE LevelIsMissing
  BY <1>4 DEF LevelIsMissing, Levelling, Idle, None, vars, report
<1>5. CASE SetEnds
  BY <1>5 DEF SetEnds, Idle, None, vars
<1> QED
  BY <1>1, <1>2, <1>3, <1>4, <1>5

LEMMA OtherBackendsKeepDPart ==
  ASSUME LInv,
         AsusdIsSet \/ AsusdFails \/ AsusdLevels
         \/ \E wish \in Wishes : AsusdIsRead(wish) \/ SysfsLevels(wish)
  PROVE  DPart'
<1> USE EffectsAreNotNone, MergedIsAnEffect, LightingAssumption
    DEF LInv, DPart, LightingTypeOK, MixtureHasSource, Awaits, AnsweredIsShown,
        RecordedIsShown, Reported, Excused, touched
<1>1. CASE AsusdIsSet
  BY <1>1 DEF AsusdIsSet, AsusdWrites, report
<1>2. CASE AsusdFails
  BY <1>2 DEF AsusdFails, Idle, None, vars, report
<1>3. CASE AsusdLevels
  BY <1>3 DEF AsusdLevels, Busy, vars, report
<1>4. ASSUME NEW wish \in Wishes, AsusdIsRead(wish) \/ SysfsLevels(wish) PROVE DPart'
  <2>1. wish.level \in BOOLEAN
    BY DEF Wishes
  <2>2. CASE SysfsLevels(wish)
    BY <2>2 DEF SysfsLevels, Busy, Idle, None, vars, report
  <2>3. CASE AsusdIsRead(wish) /\ ForEffect(wish)
    <3>1. PICK e \in Effects : set' = Busy("changed", e, wish.level)
      BY <2>3 DEF AsusdIsRead
    <3> QED
      BY <2>1, <2>3, <3>1 DEF AsusdIsRead, Busy, Idle, None, vars, report
  <2>4. CASE AsusdIsRead(wish) /\ ~ForEffect(wish)
    BY <2>1, <2>4 DEF AsusdIsRead, Busy, Idle, None, vars, report
  <2> QED
    BY <1>4, <2>2, <2>3, <2>4
<1> QED
  BY <1>1, <1>2, <1>3, <1>4

LEMMA WorldKeepsDPart ==
  ASSUME LInv, DaemonRestarts \/ OthersCall \/ OthersWrite \/ WorldTurns
  PROVE  DPart'
<1> USE LightingAssumption
    DEF LInv, DPart, LightingTypeOK, MixtureHasSource, Awaits, AnsweredIsShown,
        RecordedIsShown, Reported, Excused, touched
<1>1. CASE DaemonRestarts
  <2>1. call'[Daemon] = NoCall
    BY <1>1 DEF DaemonRestarts, IInv, TypeOK
  <2> QED
    BY <1>1, <2>1, SelectableIsABackend DEF DaemonRestarts, Idle, None
<1>2. CASE OthersCall
  <2>1. PICK c \in Callers \ {Daemon} :
          \/ /\ Ask(c) \/ Lock(c) \/ Refuse(c) \/ Suppress(c) \/ Proceed(c)
                \/ CheckOwner(c) \/ Abort(c)
             /\ UNCHANGED touched
          \/ /\ foreign' = TRUE /\ UNCHANGED repeated
             /\ \/ SendReport(c) /\ mixers' = mixers \union {"others"}
                \/ Completes(c)
    BY <1>2 DEF OthersCall
  <2>2. call'[Daemon] = call[Daemon]
    BY <2>1 DEF Ask, Lock, Refuse, Suppress, Proceed, CheckOwner,
         SendReport, Completes, SendLastReport, Abort, IInv, TypeOK
  <2>3. /\ foreign' \in BOOLEAN /\ (foreign => foreign') /\ repeated' = repeated
        /\ foreign' \/ (shown' = shown /\ mixers' = mixers)
        /\ mixers' \subseteq {"own", "others"} /\ (disturbed' => mixers' # {})
    <3>1. CASE /\ SendReport(c) /\ foreign' = TRUE /\ mixers' = mixers \union {"others"}
               /\ UNCHANGED repeated
      BY <3>1 DEF SendReport
    <3>2. CASE Completes(c) /\ foreign' = TRUE /\ UNCHANGED repeated
      BY <3>2 DEF Completes, SendLastReport
    <3>3. CASE /\ Ask(c) \/ Lock(c) \/ Refuse(c) \/ Suppress(c) \/ Proceed(c)
                  \/ CheckOwner(c) \/ Abort(c)
               /\ UNCHANGED touched
      <4>1. UNCHANGED <<foreign, repeated, mixers>>
        BY <3>3
      <4>2. shown' = shown /\ disturbed' = disturbed
        BY <3>3 DEF Ask, Lock, Refuse, Suppress, Proceed, CheckOwner, Abort
      <4> QED
        BY <4>1, <4>2
    <3> QED
      BY <2>1, <3>1, <3>2, <3>3
  <2> QED
    BY <1>2, <2>2, <2>3 DEF OthersCall, report
<1>3. CASE OthersWrite
  BY <1>3 DEF OthersWrite, AsusdWrites, report
<1>4. CASE WorldTurns
  <2>1. /\ call' = call
        /\ foreign' \in BOOLEAN /\ (foreign => foreign') /\ repeated' = repeated
        /\ foreign' \/ (shown' = shown /\ mixers' = mixers)
        /\ mixers' \subseteq {"own", "others"} /\ (disturbed' => mixers' # {})
    <3>1. CASE (IntervalEnds \/ AsusdStarts \/ AsusdStops) /\ UNCHANGED touched
      <4>1. UNCHANGED <<foreign, repeated, mixers>>
        BY <3>1
      <4>2. call' = call /\ shown' = shown /\ disturbed' = disturbed
        BY <3>1 DEF IntervalEnds, AsusdStarts, AsusdStops
      <4> QED
        BY <4>1, <4>2
    <3>2. CASE Unplug /\ mixers' = {} /\ foreign' = TRUE /\ UNCHANGED repeated
      BY <3>2 DEF Unplug
    <3>3. CASE Plug /\ mixers' = mixers /\ foreign' = TRUE /\ UNCHANGED repeated
      BY <3>3 DEF Plug
    <3> QED
      BY <1>4, <3>1, <3>2, <3>3 DEF WorldTurns
  <2> QED
    BY <1>4, <2>1 DEF WorldTurns, report
<1> QED
  BY <1>1, <1>2, <1>3, <1>4

LEMMA NextKeepsLInv == LInv /\ [LightingNext]_lightingVars => LInv'
<1> SUFFICES ASSUME LInv, [LightingNext]_lightingVars PROVE LInv'
  OBVIOUS
<1>1. IInv'
  BY LightingKeepsIInv DEF LInv
<1>2. DPart'
  <2>1. CASE UNCHANGED lightingVars
    BY <2>1 DEF lightingVars, vars, world, report, touched, LInv, DPart,
         LightingTypeOK, MixtureHasSource, Awaits, AnsweredIsShown, RecordedIsShown,
         Reported, Excused
  <2>2. CASE LightingNext
    BY <2>2, NativeKeepsDPart, HelperKeepsDPart, AnswersKeepDPart,
       OtherBackendsKeepDPart, WorldKeepsDPart DEF LightingNext
  <2> QED
    BY <2>1, <2>2
<1> QED
  BY <1>1, <1>2 DEF LInv, DPart

LEMMA LightingInvariant == LightingSpec => []LInv
BY InitLInv, NextKeepsLInv, PTL DEF LightingSpec

-----------------------------------------------------------------------------
\* What the daemon reports as accepted by a keyboard that cannot be read is what
\* it shows, unless someone else wrote to it or it was replaced, or the helper
\* suppressed a repeat after an effect of this daemon had broken off midway.
THEOREM AcceptedEffectsAreShown == LightingSpec => []AcceptedIsShown
<1>1. LInv => AcceptedIsShown
  BY DEF LInv, RecordedIsShown, Reported, Excused, AcceptedIsShown,
     ReportedAsAccepted, ReportedEffect, Idle
<1> QED
  BY <1>1, LightingInvariant, PTL

\* A request that does not name the mode or the colour keeps the one shown.
THEOREM UnnamedFieldsAreKept == LightingSpec => UnnamedFieldsKept
<1>1. ASSUME LInv, [LightingNext]_lightingVars,
             ReportedAsAccepted, ~foreign, ~repeated,
             NEW wish \in Wishes, NativeAsks(wish)
      PROVE  /\ wish.mode = None => ModeOf[set'.effect] = ModeOf[shown]
             /\ wish.colour = None =>
                  ColourOf[set'.effect] \in {None, ColourOf[shown]}
  <2>1. shown = recorded /\ recorded # None
    BY <1>1 DEF LInv, RecordedIsShown, Reported, Excused, ReportedAsAccepted, Idle
  <2>2. set'.effect \in Merged(wish)
    BY <1>1 DEF NativeAsks, Busy
  <2> QED
    BY <2>1, <2>2 DEF Merged, Supported
<1>2. ASSUME LInv, [LightingNext]_lightingVars
      PROVE  [ReportedAsAccepted /\ ~foreign /\ ~repeated
                /\ set'.at = "waiting" =>
                \A wish \in Wishes : NativeAsks(wish) =>
                  /\ wish.mode = None => ModeOf[set'.effect] = ModeOf[shown]
                  /\ wish.colour = None =>
                       ColourOf[set'.effect] \in {None, ColourOf[shown]}]_lightingVars
  BY <1>1, <1>2
<1> QED
  BY <1>2, LightingInvariant, PTL DEF LightingSpec, UnnamedFieldsKept

\* Also with the daemon's restarts, asusd is overtaken by at most one report.
THEOREM AsusdIsYieldedToThroughRestarts == LightingSpec => []YieldsToAsusd
<1>1. LInv => YieldsToAsusd
  BY DEF LInv, IInv, Yields, YieldsToAsusd
<1> QED
  BY <1>1, LightingInvariant, PTL
=============================================================================
