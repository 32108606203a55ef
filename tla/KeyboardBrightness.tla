--------------------------- MODULE KeyboardBrightness ---------------------------
(***************************************************************************)
(* The controls of the desktop UI (rog-ui/src/main.rs): those of           *)
(* ControlDraft as they are, and the keyboard's brightness, the "shared"   *)
(* one, with the Lighting page, which keeps a draft of brightness and      *)
(* effect of its own, moves the dashboard's draft along, and shares its    *)
(* slot (pending_lighting).                                                *)
(*                                                                         *)
(* The page's Apply sends brightness and effect, whatever waits in the     *)
(* slot and whatever the dashboard waits for.  Its brightness scale always *)
(* shows the brightness of its draft, if it has one.  Of the effect the    *)
(* model keeps whether it differs from the baseline.                       *)
(***************************************************************************)
EXTENDS ControlDraft

CONSTANT Off  \* the brightness 0

ASSUME BrightnessAssumption == Off \in Values

VARIABLES
  scale,         \* brightness_scale
  page,          \* lighting_draft: none, its effect as in the baseline, or restyled
  pageBase,      \* brightness of lighting_baseline
  pageShown,     \* widgets of the page that are sensitive, as last rendered
  pageApplying   \* lighting_apply_in_progress

pageVars == <<scale, page, pageBase, pageShown>>
brightnessVars == <<controlVars, pageVars, pageApplying>>

ControlsInit ==
  /\ ControlInit
  /\ scale = Off /\ page = "none" /\ pageBase = NoValue
  /\ pageShown = {} /\ pageApplying = FALSE

PageDiffers == page = "restyled" \/ (page = "same" /\ scale # pageBase)

-----------------------------------------------------------------------------
(* The render of both, from one snapshot.                                  *)

(* A dirty draft is put into the page; without one the page follows the    *)
(* report if it is unchanged, shows what is reported, or is of another     *)
(* device.                                                                 *)
SyncPage ==
  IF Dirty
  THEN /\ scale' = IF page = "none" THEN edit.reported ELSE edit.draft
       /\ UNCHANGED <<page, pageBase>>
  ELSE \/ /\ scale' = edit.reported /\ page' = "same" /\ pageBase' = edit.reported
       \/ /\ PageDiffers
          /\ UNCHANGED <<scale, page, pageBase>>

RenderLighting ==
  /\ edit.reported # NoValue
  /\ shown' = Sensitive
  /\ SyncPage
  /\ pageShown' = {"choose"} \union
       (IF PageDiffers' /\ ~pageApplying THEN {"apply", "reset"} ELSE {})
  /\ UNCHANGED <<kind, edit, queued, asked, round, daemon, outcome, pageApplying>>

(* Without a report of the lighting the scale is set to 0, unless it has   *)
(* the focus; its handler takes that for a choice of the user.             *)
RenderNoLighting ==
  /\ edit.reported = NoValue
  /\ shown' = {} /\ pageShown' = {}
  /\ \/ UNCHANGED <<edit, scale>>
     \/ scale # Off /\ scale' = Off /\ edit' = SetUserDraft(Off)
  /\ UNCHANGED <<kind, queued, asked, round, daemon, outcome, page, pageBase, pageApplying>>

-----------------------------------------------------------------------------
(* The user.                                                               *)

\* The dashboard's spin button, Apply and Reset.
DashboardActs ==
  /\ ApplyDraft \/ Reset \/ \E v \in Values : Choose(v)
  /\ UNCHANGED <<pageVars, pageApplying>>

\* The scale moves the dashboard's draft, also while a value is applied.
PageDims(v) ==
  /\ "choose" \in pageShown /\ v # scale
  /\ scale' = v
  /\ edit' = SetUserDraft(v)
  /\ UNCHANGED <<kind, shown, queued, asked, round, daemon, outcome,
                 page, pageBase, pageShown, pageApplying>>

\* A mode, a colour, a speed or a direction.
PageStyles ==
  /\ "choose" \in pageShown /\ page # "none"
  /\ page' \in {"same", "restyled"}
  /\ UNCHANGED <<controlVars, scale, pageBase, pageShown, pageApplying>>

(* The page's request takes the place of any other; begin_apply may refuse *)
(* the draft, and nobody looks.                                            *)
PageApplies ==
  /\ "apply" \in pageShown /\ edit.reported # NoValue /\ page # "none"
  /\ RequestValue(scale)
  /\ edit' = IF CanApply THEN [edit EXCEPT !.applying = edit.draft] ELSE edit
  /\ pageApplying' = TRUE
  /\ UNCHANGED <<kind, shown, round, daemon, pageVars>>

(* The page's Reset leaves the dashboard's draft as it is.                 *)
PageResets ==
  /\ "reset" \in pageShown /\ pageBase # NoValue
  /\ scale' = pageBase /\ page' = "same"
  /\ UNCHANGED <<controlVars, pageBase, pageShown, pageApplying>>

-----------------------------------------------------------------------------
(* The worker.                                                             *)
LightingTaken ==
  /\ TakeRequest \/ NothingQueued
  /\ UNCHANGED <<pageVars, pageApplying>>

\* Mutant: only a failure ends the page's waiting.
LightingAnsweredFailuresOnly ==
  /\ Accepted \/ Rejected
  /\ pageApplying' = (pageApplying /\ edit' = edit)
  /\ UNCHANGED pageVars

\* Any answer ends the page's waiting, and any failure that of the dashboard.
LightingAnswered ==
  /\ Accepted \/ Rejected
  /\ pageApplying' = FALSE
  /\ UNCHANGED pageVars

LightingFetched(reported) ==
  /\ StateFetched(reported)
  /\ UNCHANGED <<pageVars, pageApplying>>

LightingReported ==
  /\ StateFetchFails \/ Report
  /\ UNCHANGED <<pageVars, pageApplying>>

LightingWorker ==
  \/ LightingTaken \/ LightingAnswered
  \/ LightingFetched(daemon) \/ LightingFetched(NoValue) \/ LightingReported

KeyChanges(v) == OtherSets(v) /\ UNCHANGED <<pageVars, pageApplying>>

BrightnessStep ==
  \/ RenderLighting \/ RenderNoLighting
  \/ DashboardActs \/ PageStyles \/ PageApplies \/ PageResets
  \/ LightingWorker
  \/ \E v \in Values : PageDims(v) \/ KeyChanges(v)

ControlsNext ==
  \/ kind = "shared" /\ BrightnessStep
  \/ kind # "shared" /\ ControlNext /\ UNCHANGED <<pageVars, pageApplying>>

(* The worker polls for ever and its calls return; if it polls for ever,   *)
(* some polls succeed.                                                     *)
ControlsSpec ==
  /\ ControlsInit /\ [][ControlsNext]_brightnessVars
  /\ WF_brightnessVars(LightingWorker) /\ SF_brightnessVars(LightingFetched(daemon))

-----------------------------------------------------------------------------
(* The page says "Applying" only as long as a request waits or is sent,    *)
(* although either control may replace the other's request and an answer   *)
(* may belong to an earlier one.                                           *)
ApplyingHasRequest == pageApplying => queued # NoValue \/ round.at = "sending"

(* A control that is insensitive while it waits for a value, or refuses    *)
(* another one, is not dead for good: the value is confirmed by a report   *)
(* or given up, unless the daemon took another value instead, someone      *)
(* changed it, or another fan action replaced the request.  The brightness *)
(* of the keyboard too, once the page's Apply is left alone, unless the    *)
(* page had applied another brightness after it: then it may stay dead.    *)
ApplySettles ==
  <>[][~PageApplies]_brightnessVars =>
    (kind \in {"guarded", "shared", "switch"} /\ edit.applying # NoValue ~>
       edit.applying = NoValue \/ outcome = "lost" \/ asked # edit.applying)
=============================================================================
