----------------------------- MODULE ControlDraft -----------------------------
(***************************************************************************)
(* One hardware control of the desktop UI (rog-ui/src/main.rs): its        *)
(* EditableDraft, its widgets, the slot for its next request, and the      *)
(* worker thread that sends requests to the daemon and polls its state.    *)
(*                                                                         *)
(* Five kinds of control have such a draft: "guarded" ones (charge limit)  *)
(* have Apply and Reset, and are insensitive while a value is applied; the *)
(* "shared" one (the keyboard's brightness) is guarded too, but shares its *)
(* draft and slot with the Lighting page (KeyboardBrightness); "open" ones *)
(* (GPU mode) have an Apply that is always sensitive, and a tray menu;     *)
(* "radio" ones (performance profile) also have buttons that request at    *)
(* once; and the "switch" (fan sync) applies what it is set to, through    *)
(* the slot of all fan actions, where another one (FanPage) may replace    *)
(* it.  The GTK thread and the worker share a mutex, held for one handler  *)
(* or one access at a time, and widgets follow the draft only when the     *)
(* window is rendered.                                                     *)
(***************************************************************************)
CONSTANTS
  Values, \* what the control can be set to
  Kinds   \* kinds of control to consider

ASSUME ControlDraftAssumption ==
  Kinds \subseteq {"guarded", "shared", "open", "radio", "switch"} /\ "none" \notin Values

VARIABLES
  kind,    \* the kind of the control; never changes
  edit,    \* EditableDraft: the reported, draft and applying values
  shown,   \* widgets that are sensitive, as last rendered
  queued,  \* the pending request (pending_battery_limit and the like)
  round,   \* position of the worker in its round
  daemon,  \* the value in the state of the daemon
  asked,   \* history: the value requested last
  outcome  \* history: what became of that request

ui == <<kind, edit, shown, queued, asked>>
controlVars == <<ui, round, daemon, outcome>>

NoValue == "none"
Options == Values \union {NoValue}

At(place, value) == [at |-> place, value |-> value]
Between == At("between", NoValue)

-----------------------------------------------------------------------------
(* EditableDraft.                                                          *)
Dirty == edit.draft # edit.reported

UpdateReported(reported) ==
  LET confirmed == edit.applying # NoValue /\ edit.applying = reported
  IN [reported |-> reported,
      draft    |-> IF confirmed \/ edit.draft \in {NoValue, reported}
                   THEN reported ELSE edit.draft,
      applying |-> IF confirmed THEN NoValue ELSE edit.applying]

SetUserDraft(v) == [edit EXCEPT !.draft = v]
ApplyFailed == [edit EXCEPT !.applying = NoValue]
ResetDraft == [edit EXCEPT !.applying = NoValue, !.draft = edit.reported]

CanApply == edit.draft # NoValue /\ Dirty /\ edit.applying = NoValue

ControlInit ==
  /\ kind \in Kinds
  /\ edit = [reported |-> NoValue, draft |-> NoValue, applying |-> NoValue]
  /\ shown = {}
  /\ queued = NoValue /\ round = Between
  /\ daemon \in Values
  /\ asked = NoValue /\ outcome = "none"

-----------------------------------------------------------------------------
(* The GTK thread.                                                         *)
Sensitive ==
  CASE kind \in {"open", "radio"} -> {"choose", "apply"}
    [] kind = "switch"        -> {"choose"}
    [] edit.applying # NoValue   -> {}
    [] Dirty                  -> {"choose", "apply", "reset"}
    [] OTHER                  -> {"choose"}

RenderControl ==
  /\ shown' = Sensitive
  /\ UNCHANGED <<kind, edit, queued, asked, round, daemon, outcome>>

Choose(v) ==
  /\ kind # "switch" /\ "choose" \in shown
  /\ edit' = SetUserDraft(v)
  /\ UNCHANGED <<kind, shown, queued, asked, round, daemon, outcome>>

\* A request waits in the slot, in place of one that the worker did not take.
RequestValue(v) == queued' = v /\ asked' = v /\ outcome' = "open"

(* begin_apply.                                                            *)
ApplyDraft ==
  /\ "apply" \in shown
  /\ CanApply
  /\ edit' = [edit EXCEPT !.applying = edit.draft]
  /\ RequestValue(edit.draft)
  /\ UNCHANGED <<kind, shown, round, daemon>>

(* Reset is local: a request in the slot stays there.                      *)
Reset ==
  /\ "reset" \in shown
  /\ edit' = ResetDraft
  /\ UNCHANGED <<kind, shown, queued, asked, round, daemon, outcome>>

(* A radio button requests its value without begin_apply.                  *)
Pick(v) ==
  /\ kind = "radio" /\ "choose" \in shown
  /\ edit' = SetUserDraft(v)
  /\ RequestValue(v)
  /\ UNCHANGED <<kind, shown, round, daemon>>

(* The tray menu requests a value and leaves the draft as it is.           *)
TrayPicks(v) ==
  /\ kind \in {"open", "radio"}
  /\ RequestValue(v)
  /\ UNCHANGED <<kind, edit, shown, round, daemon>>

(* The switch requests what it is set to, unless it waits for a value.     *)
Toggle(v) ==
  LET set == SetUserDraft(v)
  IN  /\ kind = "switch" /\ "choose" \in shown
      /\ IF v # edit.reported /\ edit.applying = NoValue
         THEN edit' = [set EXCEPT !.applying = v] /\ RequestValue(v)
         ELSE edit' = set /\ UNCHANGED <<queued, asked, outcome>>
      /\ UNCHANGED <<kind, shown, round, daemon>>

(* Auto, a curve, a percentage or a boost takes the place of the request.  *)
OtherFanAction ==
  /\ kind = "switch" /\ queued # NoValue
  /\ queued' = NoValue
  /\ outcome' = "lost"
  /\ UNCHANGED <<kind, edit, shown, asked, round, daemon>>

-----------------------------------------------------------------------------
(* The worker.                                                             *)
TakeRequest ==
  /\ round = Between /\ queued # NoValue
  /\ round' = At("sending", queued)
  /\ queued' = NoValue
  /\ UNCHANGED <<kind, edit, shown, asked, daemon, outcome>>

NothingQueued ==
  /\ round = Between /\ queued = NoValue
  /\ round' = At("fetching", NoValue)
  /\ UNCHANGED <<ui, daemon, outcome>>

(* Mutant: the slot is emptied when the call returns. *)
AcceptedEmptiesSlot ==
  /\ round.at = "sending"
  /\ daemon' \in {daemon, round.value}
  /\ outcome' = IF queued # NoValue THEN outcome
                ELSE IF daemon' = asked THEN "held" ELSE "lost"
  /\ queued' = NoValue
  /\ round' = At("fetching", NoValue)
  /\ UNCHANGED <<kind, edit, shown, asked>>

(* Success changes nothing in the UI: the draft waits for a report.  A     *)
(* mode may be accepted that only takes effect later.                      *)
Accepted ==
  /\ round.at = "sending"
  /\ daemon' \in {daemon, round.value}
  /\ outcome' = IF queued # NoValue THEN outcome
                ELSE IF daemon' = asked THEN "held" ELSE "lost"
  /\ round' = At("fetching", NoValue)
  /\ UNCHANGED ui

(* Mutant: a failure leaves the draft applying. *)
RejectedUnnoticed ==
  /\ round.at = "sending"
  /\ daemon' \in {daemon, round.value}
  /\ outcome' = IF queued # NoValue THEN outcome ELSE "refused"
  /\ round' = At("fetching", NoValue)
  /\ UNCHANGED ui

(* A call that fails may have had its effect.                              *)
Rejected ==
  /\ round.at = "sending"
  /\ daemon' \in {daemon, round.value}
  /\ edit' = IF kind = "switch" THEN ResetDraft ELSE ApplyFailed
  /\ outcome' = IF queued # NoValue THEN outcome ELSE "refused"
  /\ round' = At("fetching", NoValue)
  /\ UNCHANGED <<kind, shown, queued, asked>>

(* fetch_state: the value, or nothing where the daemon could not read it.  *)
StateFetched(reported) ==
  /\ round.at = "fetching"
  /\ round' = At("reporting", reported)
  /\ UNCHANGED <<ui, daemon, outcome>>

StateFetchFails ==
  /\ round.at = "fetching"
  /\ round' = Between
  /\ UNCHANGED <<ui, daemon, outcome>>

Report ==
  /\ round.at = "reporting"
  /\ edit' = UpdateReported(round.value)
  /\ round' = Between
  /\ UNCHANGED <<kind, shown, queued, asked, daemon, outcome>>

(* Automation, the CLI, a hot key or the firmware changes the value.       *)
OtherSets(v) ==
  /\ daemon' = v /\ v # daemon
  /\ outcome' = IF outcome = "held" THEN "lost" ELSE outcome
  /\ UNCHANGED <<ui, round>>

UserActs ==
  \/ ApplyDraft \/ Reset \/ OtherFanAction
  \/ \E v \in Values : Choose(v) \/ Pick(v) \/ TrayPicks(v) \/ Toggle(v)

WorkerActs ==
  \/ TakeRequest \/ NothingQueued \/ Accepted \/ Rejected
  \/ StateFetched(daemon) \/ StateFetched(NoValue) \/ StateFetchFails
  \/ Report

ControlNext == UserActs \/ RenderControl \/ WorkerActs \/ \E v \in Values : OtherSets(v)

-----------------------------------------------------------------------------
(* The last request is not forgotten: once the slot is empty and nothing   *)
(* is being sent, it was answered or, a switch's, replaced by another fan  *)
(* action, and one that the daemon took is what it holds until someone     *)
(* else changes it, however clicks, calls and other changes interleave.    *)
LastRequestCounts ==
  /\ outcome = "open" => queued = asked \/ round = At("sending", asked)
  /\ outcome = "held" => daemon = asked

=============================================================================
