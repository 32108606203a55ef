---------------------------- MODULE DesktopProofs ----------------------------
(***************************************************************************)
(* Proofs about the desktop UI, for any fans, curves and values: what the  *)
(* Cooling page (FanPage) says of a curve it submitted and what it keeps   *)
(* of the drafts of all fans; and that the last request of another control *)
(* (ControlDraft) is not forgotten, not even one for the brightness of the *)
(* keyboard, which two pages request (KeyboardBrightness).                 *)
(***************************************************************************)
EXTENDS FanPage, KeyboardBrightness, TLAPS

CurveOption == Curves \union {None}
DraftOption == [points : Curves, dirty : BOOLEAN] \union {NoDraft}

TypeOK ==
  /\ target \in Fans \union {None}
  /\ fields \in Curves /\ preview \in Curves
  /\ drafts \in [Fans -> DraftOption]
  /\ baselines \in [Fans -> CurveOption]
  /\ dirty \in BOOLEAN
  /\ pending \in CurveRequests \union {NoRequest}
  /\ report \in [Fans -> CurveOption]
  /\ accepted \in BOOLEAN

\* Before the first tab is chosen there is nothing to edit or to apply.
NothingSelected == target = None => sensitive = {} /\ ~dirty

\* The confirmation of an earlier request is never taken for the pending one.
ConfirmationIsNew == pending # NoRequest /\ confirmed = pending => accepted

IInv == TypeOK /\ NothingSelected /\ ConfirmationIsNew /\ DirtyMeansDifferent

LEMMA NoneIsNothing == None \notin Fans /\ None \notin Curves
BY FanPageAssumption

LEMMA InitIInv == Init => IInv
<1> SUFFICES ASSUME Init PROVE IInv
  OBVIOUS
<1>1. TypeOK
  BY DEF Init, TypeOK, CurveOption, DraftOption
<1> QED
  BY <1>1 DEF Init, IInv, NothingSelected, ConfirmationIsNew, DirtyMeansDifferent

\* A new draft of the selected fan, with the flag that SetDraft computes.
LEMMA SetDraftIsFine ==
  ASSUME TypeOK, DirtyMeansDifferent, NEW c \in Curves, target \in Fans, SetDraft(c),
         UNCHANGED <<target, baselines>>
  PROVE  /\ drafts' \in [Fans -> DraftOption]
         /\ dirty' \in BOOLEAN
         /\ DirtyMeansDifferent'
<1>1. drafts' = [drafts EXCEPT ![target] = Draft(c, c # baselines[target])]
      /\ dirty' = (c # baselines[target])
  BY DEF SetDraft
<1>2. /\ drafts'[target].points = c /\ drafts'[target].dirty = dirty'
      /\ \A f \in Fans \ {target} : drafts'[f] = drafts[f]
  BY <1>1 DEF TypeOK, Draft
<1>3. drafts'[target] # NoDraft
  BY <1>2, NoneIsNothing DEF NoDraft, Draft
<1>4. drafts' \in [Fans -> DraftOption] /\ dirty' \in BOOLEAN
  BY <1>1 DEF TypeOK, Draft, DraftOption
<1>5. DirtyMeansDifferent'
  BY <1>1, <1>2, <1>3 DEF DirtyMeansDifferent
<1> QED
  BY <1>4, <1>5

LEMMA EditKeepsIInv == ASSUME IInv, NEW c \in Curves, Edit(c) PROVE IInv'
<1>1. target \in Fans
  BY DEF IInv, TypeOK, NothingSelected, Edit
<1> QED
  BY <1>1, SetDraftIsFine
     DEF IInv, TypeOK, NothingSelected, ConfirmationIsNew, Edit, shared, history

LEMMA ImportKeepsIInv == ASSUME IInv, Import PROVE IInv'
<1>1. target \in Fans /\ report[target] \in Curves
  BY DEF IInv, TypeOK, Import, CurveOption
<1> QED
  BY <1>1, SetDraftIsFine
     DEF IInv, TypeOK, NothingSelected, ConfirmationIsNew, Import, shared, history

LEMMA SelectKeepsIInv == ASSUME IInv, NEW f \in Fans, Select(f) PROVE IInv'
<1> DEFINE current == IF report[f] = None THEN Balanced ELSE report[f]
           new == drafts[f] = NoDraft
           draft == IF new THEN Draft(current, FALSE) ELSE drafts[f]
<1>1. current \in Curves
  BY DEF IInv, TypeOK, Balanced, CurveOption
<1>2. /\ target' = f
      /\ drafts' = [drafts EXCEPT ![f] = draft]
      /\ baselines' = IF new THEN [baselines EXCEPT ![f] = current] ELSE baselines
      /\ fields' = draft.points /\ preview' = draft.points
      /\ dirty' = draft.dirty
      /\ UNCHANGED <<pending, shared, history>>
  BY DEF Select
<1>3. draft \in [points : Curves, dirty : BOOLEAN] /\ draft # NoDraft
  <2>1. CASE new
    BY <1>1, <2>1, NoneIsNothing DEF Draft, NoDraft
  <2>2. CASE ~new
    BY <2>2 DEF IInv, TypeOK, DraftOption
  <2> QED
    BY <2>1, <2>2
<1>4. new => ~draft.dirty /\ draft.points = current
  BY DEF Draft
<1>5. ~new => draft = drafts[f]
  OBVIOUS
<1> HIDE DEF draft, new, current
<1>6. TypeOK'
  BY <1>1, <1>2, <1>3 DEF IInv, TypeOK, DraftOption, CurveOption, shared, history
<1>7. NothingSelected' /\ ConfirmationIsNew'
  BY <1>2, NoneIsNothing DEF IInv, NothingSelected, ConfirmationIsNew, shared, history
<1>8. DirtyMeansDifferent'
  <2>1. drafts'[f] = draft /\ \A g \in Fans \ {f} : drafts'[g] = drafts[g]
    BY <1>2 DEF IInv, TypeOK
  <2>2. /\ \A g \in Fans \ {f} : baselines'[g] = baselines[g]
        /\ baselines'[f] = IF new THEN current ELSE baselines[f]
    BY <1>2 DEF IInv, TypeOK
  <2>3. draft.dirty <=> draft.points # baselines'[f]
    BY <1>3, <1>4, <1>5, <2>2 DEF IInv, DirtyMeansDifferent
  <2> QED
    BY <1>2, <1>3, <2>1, <2>2, <2>3 DEF IInv, DirtyMeansDifferent
<1> QED
  BY <1>6, <1>7, <1>8 DEF IInv

LEMMA ApplyKeepsIInv == ASSUME IInv, Apply PROVE IInv'
<1>1. target \in Fans
  BY DEF IInv, TypeOK, NothingSelected, Apply
<1>2. pending' \in CurveRequests
  BY <1>1 DEF IInv, TypeOK, Apply, Request, CurveRequests
<1> QED
  BY <1>1, <1>2 DEF IInv, TypeOK, NothingSelected, ConfirmationIsNew, DirtyMeansDifferent,
     Apply, editor

\* The answer the page renders.
LEMMA RenderKeepsIInv == ASSUME IInv, Render PROVE IInv'
<1>1. UNCHANGED <<target, fields, preview, shared, worker>>
  BY DEF Render
<1>2. sensitive' \subseteq {} \/ target # None
  BY DEF Render
<1>3. /\ pending' \in {pending, NoRequest} /\ accepted' \in BOOLEAN
      /\ pending' = NoRequest \/ accepted' = accepted
  BY DEF Render, IInv, TypeOK, history
<1>4. CASE Answer = "confirmed"
  <2>1. /\ pending.fan \in Fans /\ pending.points \in Curves
    BY <1>4 DEF Answer, IInv, TypeOK, CurveRequests
  <2>2. /\ drafts' = [drafts EXCEPT ![pending.fan] = Draft(pending.points, FALSE)]
        /\ baselines' = [baselines EXCEPT ![pending.fan] = pending.points]
        /\ dirty' = (dirty /\ target # pending.fan)
    BY <1>4 DEF Render, Confirmed
  <2>3. Draft(pending.points, FALSE) \in [points : Curves, dirty : BOOLEAN]
        /\ Draft(pending.points, FALSE) # NoDraft
    BY <2>1, NoneIsNothing DEF Draft, NoDraft
  <2>4. TypeOK'
    BY <1>1, <1>3, <2>1, <2>2, <2>3 DEF IInv, TypeOK, shared, DraftOption, CurveOption
  <2>5. /\ drafts'[pending.fan] = Draft(pending.points, FALSE)
        /\ baselines'[pending.fan] = pending.points
        /\ \A f \in Fans \ {pending.fan} :
             drafts'[f] = drafts[f] /\ baselines'[f] = baselines[f]
    BY <2>1, <2>2 DEF IInv, TypeOK
  <2>6. /\ drafts'[pending.fan].dirty = FALSE
        /\ drafts'[pending.fan].points = pending.points
        /\ drafts'[pending.fan] # NoDraft
    BY <2>3, <2>5 DEF Draft
  <2>7. DirtyMeansDifferent'
    <3>1. target' # None => drafts'[target'] # NoDraft /\ dirty' = drafts'[target'].dirty
      <4>1. CASE target = pending.fan
        BY <1>1, <2>2, <2>6, <4>1
      <4>2. CASE target # pending.fan
        BY <1>1, <2>2, <2>5, <4>2 DEF IInv, TypeOK, DirtyMeansDifferent
      <4> QED
        BY <4>1, <4>2
    <3>2. \A f \in Fans :
            drafts'[f] # NoDraft => (drafts'[f].dirty <=> drafts'[f].points # baselines'[f])
      BY <2>5, <2>6 DEF IInv, DirtyMeansDifferent
    <3> QED
      BY <3>1, <3>2 DEF DirtyMeansDifferent
  <2>8. NothingSelected'
    BY <1>1, <1>2, <2>2 DEF IInv, TypeOK, NothingSelected
  <2>9. ConfirmationIsNew'
    BY <1>1, <1>3 DEF IInv, ConfirmationIsNew, shared
  <2> QED
    BY <2>4, <2>7, <2>8, <2>9 DEF IInv
<1>5. CASE Answer # "confirmed"
  <2>1. UNCHANGED <<drafts, baselines, dirty>>
    BY <1>5 DEF Render
  <2> QED
    BY <1>1, <1>2, <1>3, <2>1
       DEF IInv, TypeOK, NothingSelected, ConfirmationIsNew, DirtyMeansDifferent, shared
<1> QED
  BY <1>4, <1>5

LEMMA WorkerKeepsIInv ==
  ASSUME IInv, Worker \/ UnrelatedFails \/ AskOther \/ ErrorCleared
  PROVE  IInv'
<1>1. UNCHANGED <<editor, pending, sensitive>>
  BY DEF Worker, Take, NothingToTake, OtherAccepted, CurveAccepted, CallFails, Answered,
     Fetched, FetchFails, UnrelatedFails, AskOther, ErrorCleared
<1>2. report' \in [Fans -> CurveOption]
  BY DEF Worker, Take, NothingToTake, OtherAccepted, CurveAccepted, CallFails, Answered,
     Fetched, FetchFails, UnrelatedFails, AskOther, ErrorCleared, IInv, TypeOK, CurveOption,
     shared
<1>3. accepted' \in BOOLEAN /\ ConfirmationIsNew'
  <2>1. CASE UNCHANGED <<accepted, confirmed>>
    BY <1>1, <2>1 DEF IInv, TypeOK, ConfirmationIsNew
  <2>2. CASE confirmed' = NoRequest /\ accepted' = accepted
    BY <1>1, <2>2 DEF IInv, TypeOK, ConfirmationIsNew
  <2>3. ASSUME NEW r \in CurveRequests, CurveAccepted(r)
        PROVE  accepted' \in BOOLEAN /\ ConfirmationIsNew'
    BY <1>1, <2>3 DEF IInv, TypeOK, ConfirmationIsNew, CurveAccepted
  <2> QED
    BY <2>1, <2>2, <2>3 DEF Worker, Take, NothingToTake, OtherAccepted, CallFails, Answered,
     Fetched, FetchFails, UnrelatedFails, AskOther, ErrorCleared, shared, history
<1> QED
  BY <1>1, <1>2, <1>3 DEF IInv, TypeOK, NothingSelected, DirtyMeansDifferent, editor

LEMMA NextKeepsIInv == IInv /\ [Next]_vars => IInv'
<1> SUFFICES ASSUME IInv, [Next]_vars PROVE IInv'
  OBVIOUS
<1>1. CASE UNCHANGED vars
  BY <1>1 DEF IInv, TypeOK, NothingSelected, ConfirmationIsNew, DirtyMeansDifferent,
     vars, editor, shared, history
<1> QED
  BY <1>1, EditKeepsIInv, ImportKeepsIInv, SelectKeepsIInv, ApplyKeepsIInv, RenderKeepsIInv,
     WorkerKeepsIInv DEF Next, User

\* Nothing is called applied and confirmed that the daemon did not accept
\* after it was submitted.
THEOREM ConfirmationsAreTrue == Spec => []ConfirmedWasApplied
<1>1. IInv => ConfirmedWasApplied
  BY DEF IInv, ConfirmationIsNew, ConfirmedWasApplied, Answer
<1> QED
  BY <1>1, InitIInv, NextKeepsIInv, PTL DEF Spec

\* The dirty flag of every draft, and of the selected one, is right.
THEOREM DraftsAreMarked == Spec => []DirtyMeansDifferent
<1>1. IInv => DirtyMeansDifferent
  BY DEF IInv
<1> QED
  BY <1>1, InitIInv, NextKeepsIInv, PTL DEF Spec

-----------------------------------------------------------------------------
(* Another control of the window.                                          *)

ControlTypeOK ==
  /\ kind \in {"guarded", "shared", "open", "radio", "switch"}
  /\ edit \in [reported: Options, draft: Options, applying: Options]
  /\ queued \in Options /\ asked \in Options /\ daemon \in Values
  /\ round \in [at: {"between", "sending", "fetching", "reporting"},
                 value: Options]
  /\ round.at = "sending" => round.value # NoValue
  /\ outcome \in {"none", "open", "held", "lost", "refused"}

\* The slot holds the last request, and the worker sends that one unless a
\* newer one waits or was replaced.
LastRequestIsUnderWay ==
  /\ queued # NoValue => queued = asked /\ outcome = "open"
  /\ round.at = "sending" /\ queued = NoValue =>
       outcome = "lost" \/ (round.value = asked /\ outcome = "open")
  /\ outcome = "open" =>
       asked # NoValue /\ (queued = asked \/ round = At("sending", asked))

HeldByTheDaemon == outcome = "held" => daemon = asked

ControlInv == ControlTypeOK /\ LastRequestIsUnderWay /\ HeldByTheDaemon

LEMMA InitControlInv == ControlInit => ControlInv
BY ControlDraftAssumption
   DEF ControlInit, ControlInv, ControlTypeOK, LastRequestIsUnderWay, HeldByTheDaemon,
   Between, At,
       Options, NoValue

LEMMA UpdateType ==
  ASSUME ControlTypeOK, NEW r \in Options
  PROVE  UpdateReported(r) \in [reported: Options, draft: Options, applying: Options]
BY DEF ControlTypeOK, UpdateReported, Options

LEMMA UserKeepsControlInv ==
  ASSUME ControlInv, UserActs
  PROVE  ControlInv'
<1> USE ControlDraftAssumption
    DEF ControlInv, ControlTypeOK, LastRequestIsUnderWay, HeldByTheDaemon, Options, At
<1>1. CASE ApplyDraft
  BY <1>1 DEF ApplyDraft, CanApply, RequestValue
<1>2. CASE Reset
  BY <1>2 DEF Reset, ResetDraft
<1>3. ASSUME NEW v \in Values, Choose(v) PROVE ControlInv'
  BY <1>3 DEF Choose, SetUserDraft
<1>4. ASSUME NEW v \in Values, Pick(v) PROVE ControlInv'
  BY <1>4 DEF Pick, SetUserDraft, RequestValue, NoValue
<1>5. ASSUME NEW v \in Values, TrayPicks(v) PROVE ControlInv'
  BY <1>5 DEF TrayPicks, RequestValue, NoValue
<1>6. ASSUME NEW v \in Values, Toggle(v) PROVE ControlInv'
  BY <1>6 DEF Toggle, SetUserDraft, RequestValue, NoValue
<1>7. CASE OtherFanAction
  BY <1>7 DEF OtherFanAction
<1> QED
  BY <1>1, <1>2, <1>3, <1>4, <1>5, <1>6, <1>7 DEF UserActs

LEMMA WorkerKeepsControlInv ==
  ASSUME ControlInv, WorkerActs
  PROVE  ControlInv'
<1> USE ControlDraftAssumption
    DEF ControlInv, ControlTypeOK, LastRequestIsUnderWay, HeldByTheDaemon, Options, At,
    ui
<1>1. CASE TakeRequest
  BY <1>1 DEF TakeRequest, Between
<1>2. CASE NothingQueued
  BY <1>2 DEF NothingQueued, Between
<1>3. CASE Accepted
  <2>1. ControlTypeOK'
    BY <1>3 DEF Accepted
  <2>2. LastRequestIsUnderWay' /\ HeldByTheDaemon'
    BY <1>3 DEF Accepted
  <2> QED
    BY <2>1, <2>2
<1>4. CASE Rejected
  <2>1. ControlTypeOK'
    BY <1>4 DEF Rejected, ApplyFailed, ResetDraft
  <2>2. LastRequestIsUnderWay' /\ HeldByTheDaemon'
    BY <1>4 DEF Rejected
  <2> QED
    BY <2>1, <2>2
<1>5. ASSUME NEW r \in Options, StateFetched(r) PROVE ControlInv'
  BY <1>5 DEF StateFetched
<1>6. CASE StateFetchFails
  BY <1>6 DEF StateFetchFails, Between
<1>7. CASE Report
  BY <1>7, UpdateType DEF Report, Between
<1> QED
  BY <1>1, <1>2, <1>3, <1>4, <1>5, <1>6, <1>7 DEF WorkerActs

LEMMA NextKeepsControlInv == ControlInv /\ [ControlNext]_controlVars => ControlInv'
<1> SUFFICES ASSUME ControlInv, [ControlNext]_controlVars PROVE ControlInv'
  OBVIOUS
<1> USE DEF ControlInv, ControlTypeOK, LastRequestIsUnderWay, HeldByTheDaemon, Options,
   At, ui
<1>1. CASE RenderControl
  BY <1>1 DEF RenderControl
<1>2. ASSUME NEW v \in Values, OtherSets(v) PROVE ControlInv'
  BY <1>2 DEF OtherSets
<1>3. CASE UNCHANGED controlVars
  BY <1>3 DEF controlVars
<1> QED
  BY <1>1, <1>2, <1>3, UserKeepsControlInv, WorkerKeepsControlInv DEF ControlNext

-----------------------------------------------------------------------------
(* All controls, with the Lighting page.                                   *)

\* The page waits for the shared control only.
BrightnessTypeOK ==
  /\ scale \in Values /\ pageBase \in Options
  /\ pageApplying \in BOOLEAN /\ (kind # "shared" => ~pageApplying)
  /\ kind = "shared" /\ edit.draft = NoValue => edit.reported = NoValue

BrightnessInv == ControlInv /\ BrightnessTypeOK /\ ApplyingHasRequest

LEMMA InitBrightnessInv == ControlsInit => BrightnessInv
<1> SUFFICES ASSUME ControlsInit PROVE BrightnessInv
  OBVIOUS
<1>1. ControlInv
  BY InitControlInv DEF ControlsInit
<1>2. BrightnessTypeOK /\ ApplyingHasRequest
  BY BrightnessAssumption
     DEF ControlsInit, BrightnessTypeOK, ApplyingHasRequest, ControlInit, Options
<1> QED
  BY <1>1, <1>2 DEF BrightnessInv

\* The steps of the dashboard, of the worker and of others are ControlDraft's.
LEMMA ControlKeepsBrightnessInv ==
  ASSUME BrightnessInv, kind = "shared",
         DashboardActs \/ LightingWorker \/ \E v \in Values : KeyChanges(v)
  PROVE  BrightnessInv'
<1> USE ControlDraftAssumption
    DEF BrightnessInv, BrightnessTypeOK, ApplyingHasRequest, pageVars
<1>1. ControlNext
  BY DEF ControlNext, UserActs, WorkerActs, DashboardActs, LightingWorker, LightingTaken,
     LightingAnswered, LightingFetched, LightingReported, KeyChanges
<1>2. ControlInv'
  BY <1>1, NextKeepsControlInv
<1>3. UNCHANGED <<scale, pageBase>>
  BY DEF DashboardActs, LightingWorker, LightingTaken, LightingAnswered, LightingFetched,
     LightingReported, KeyChanges
<1>4. CASE DashboardActs
  BY <1>2, <1>3, <1>4 DEF DashboardActs, ApplyDraft, CanApply, RequestValue, Reset, ResetDraft,
     Choose, SetUserDraft, ControlInv, ControlTypeOK, Options, NoValue
<1>5. CASE LightingTaken
  BY <1>2, <1>3, <1>5 DEF LightingTaken, TakeRequest, NothingQueued, Between, At, ui
<1>6. CASE LightingAnswered
  <2>1. kind' = "shared" /\ edit'.draft = NoValue => edit'.reported = NoValue
    BY <1>6 DEF LightingAnswered, Accepted, Rejected, ApplyFailed, ResetDraft, ControlInv,
       ControlTypeOK, ui
  <2>2. pageApplying' = FALSE
    BY <1>6 DEF LightingAnswered
  <2> QED
    BY <1>2, <1>3, <2>1, <2>2
<1>7. CASE LightingFetched(daemon) \/ LightingFetched(NoValue)
  BY <1>2, <1>3, <1>7 DEF LightingFetched, StateFetched, ui
<1>8. CASE LightingReported
  BY <1>2, <1>3, <1>8 DEF LightingReported, StateFetchFails, Report, UpdateReported, ui
<1>9. ASSUME NEW v \in Values, KeyChanges(v) PROVE BrightnessInv'
  BY <1>2, <1>3, <1>9 DEF KeyChanges, OtherSets, ui
<1> QED
  BY <1>4, <1>5, <1>6, <1>7, <1>8, <1>9 DEF LightingWorker

LEMMA PageKeepsBrightnessInv ==
  ASSUME BrightnessInv, kind = "shared",
         PageStyles \/ PageApplies \/ PageResets \/ RenderLighting \/ RenderNoLighting
         \/ \E v \in Values : PageDims(v)
  PROVE  BrightnessInv'
<1> USE ControlDraftAssumption, BrightnessAssumption
    DEF BrightnessInv, BrightnessTypeOK, ApplyingHasRequest, pageVars, controlVars, ui,
        ControlInv, ControlTypeOK, LastRequestIsUnderWay, HeldByTheDaemon, Options, At,
        SetUserDraft, NoValue
<1>1. CASE PageStyles
  BY <1>1 DEF PageStyles
<1>2. CASE PageApplies
  BY <1>2 DEF PageApplies, RequestValue, CanApply
<1>3. CASE PageResets
  BY <1>3 DEF PageResets
<1>4. CASE RenderLighting
  <2>1. scale' \in Values /\ pageBase' \in Options
    BY <1>4 DEF RenderLighting, SyncPage, Dirty
  <2> QED
    BY <1>4, <2>1 DEF RenderLighting
<1>5. CASE RenderNoLighting
  BY <1>5 DEF RenderNoLighting
<1>6. ASSUME NEW v \in Values, PageDims(v) PROVE BrightnessInv'
  BY <1>6 DEF PageDims
<1> QED
  BY <1>1, <1>2, <1>3, <1>4, <1>5, <1>6

\* The other controls leave the page alone.
LEMMA OthersKeepBrightnessInv ==
  ASSUME BrightnessInv, kind # "shared", ControlNext, UNCHANGED <<pageVars, pageApplying>>
  PROVE  BrightnessInv'
<1>1. ControlInv'
  BY NextKeepsControlInv DEF BrightnessInv
<1>2. kind' = kind
  BY DEF ControlNext, UserActs, RenderControl, WorkerActs, ApplyDraft, Reset, OtherFanAction,
     Choose, Pick, TrayPicks, Toggle, TakeRequest, NothingQueued, Accepted, Rejected,
     StateFetched, StateFetchFails, Report, OtherSets, ui
<1> QED
  BY <1>1, <1>2 DEF BrightnessInv, BrightnessTypeOK, ApplyingHasRequest, pageVars

LEMMA NextKeepsBrightnessInv ==
  BrightnessInv /\ [ControlsNext]_brightnessVars => BrightnessInv'
<1> SUFFICES ASSUME BrightnessInv, [ControlsNext]_brightnessVars PROVE BrightnessInv'
  OBVIOUS
<1>1. CASE UNCHANGED brightnessVars
  BY <1>1 DEF brightnessVars, controlVars, ui, pageVars, BrightnessInv, BrightnessTypeOK,
     ApplyingHasRequest, ControlInv, ControlTypeOK, LastRequestIsUnderWay, HeldByTheDaemon
<1>2. CASE kind = "shared" /\ BrightnessStep
  BY <1>2, ControlKeepsBrightnessInv, PageKeepsBrightnessInv DEF BrightnessStep
<1>3. CASE kind # "shared" /\ ControlNext /\ UNCHANGED <<pageVars, pageApplying>>
  BY <1>3, OthersKeepBrightnessInv
<1> QED
  BY <1>1, <1>2, <1>3 DEF ControlsNext

LEMMA BrightnessInvariant == ControlsSpec => []BrightnessInv
BY InitBrightnessInv, NextKeepsBrightnessInv, PTL DEF ControlsSpec

\* The last request of a control of any kind, from whichever page, is waiting,
\* being sent or answered, and one the daemon took is what it holds until
\* someone else changes it.
THEOREM RequestsAreNotForgotten == ControlsSpec => []LastRequestCounts
<1>1. BrightnessInv => LastRequestCounts
  BY DEF BrightnessInv, ControlInv, LastRequestIsUnderWay, HeldByTheDaemon, LastRequestCounts
<1> QED
  BY <1>1, BrightnessInvariant, PTL

\* The Lighting page is only waiting while there is a request to wait for.
THEOREM ApplyingIsUnderWay == ControlsSpec => []ApplyingHasRequest
<1>1. BrightnessInv => ApplyingHasRequest
  BY DEF BrightnessInv
<1> QED
  BY <1>1, BrightnessInvariant, PTL
=============================================================================
