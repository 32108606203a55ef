------------------------------- MODULE FanPage -------------------------------
(***************************************************************************)
(* The curve editor of the Cooling page (rog-ui/src/main.rs): numeric      *)
(* fields, graph, a draft and a baseline per fan, and the one slot         *)
(* (pending_fan_action) that its Apply shares with every other fan action. *)
(* The worker thread empties the slot, calls the daemon, and polls; the    *)
(* GTK thread learns what became of a curve only when it renders, from     *)
(* action_error, which all controls share, and fan_curve_apply_confirmed.  *)
(*                                                                         *)
(* Abstractions: curves are model values that validation accepts (Apply is *)
(* insensitive otherwise), readbacks fit the fields, and every fan is      *)
(* authorized.  Auto, percentage, boost and sync requests are one Other.   *)
(***************************************************************************)
CONSTANTS Fans, Curves

None == "none"
ASSUME FanPageAssumption == {None, "other"} \intersect (Fans \union Curves) = {}

VARIABLES
  target,    \* curve_target_fan: the selected tab
  fields,    \* the curve in the numeric fields and in the list of points
  preview,   \* the curve in the graph, which Apply reads
  drafts,    \* curve_drafts: points and dirty flag of each fan visited
  baselines, \* curve_baselines
  dirty,     \* curve_dirty
  pending,   \* curve_apply_pending: the request that waits for an answer
  sensitive, \* widgets that are sensitive
  slot,      \* pending_fan_action
  confirmed, \* fan_curve_apply_confirmed
  error,     \* action_error is set
  report,    \* the readbacks of the last poll
  worker,    \* position of the worker in its round
  accepted,  \* history: a call for the pending curve succeeded since Apply
  overtaken  \* history: another action took its place or its answer

editor == <<target, fields, preview, drafts, baselines, dirty>>
shared == <<slot, confirmed, error, report>>
history == <<accepted, overtaken>>
vars == <<editor, pending, sensitive, shared, worker, history>>

Request(f, c) == [fan |-> f, points |-> c]
NoRequest == Request(None, None)
Other == Request("other", None)
CurveRequests == [fan: Fans, points: Curves]

Draft(c, isDirty) == [points |-> c, dirty |-> isDirty]
NoDraft == Draft(None, FALSE)
Balanced == CHOOSE c \in Curves : TRUE

Idle == [at |-> "idle", request |-> NoRequest]

\* The window before it is rendered with the first poll.
Init ==
  /\ target = None /\ dirty = FALSE
  /\ fields \in Curves /\ preview = fields
  /\ drafts = [f \in Fans |-> NoDraft] /\ baselines = [f \in Fans |-> None]
  /\ pending = NoRequest /\ sensitive = {}
  /\ slot = NoRequest /\ confirmed = NoRequest /\ error = FALSE
  /\ report \in [Fans -> Curves]
  /\ worker = Idle
  /\ accepted = FALSE /\ overtaken = FALSE

-----------------------------------------------------------------------------
(* The GTK thread: the editor.                                             *)

\* Handlers that change the draft make Apply follow it, even while a curve
\* is pending: the click itself is then ignored.
FollowDraft ==
  sensitive' = IF dirty' THEN sensitive \union {"apply"} ELSE sensitive \ {"apply"}

SetDraft(c) ==
  /\ dirty' = (c # baselines[target])
  /\ drafts' = [drafts EXCEPT ![target] = Draft(c, dirty')]
  /\ FollowDraft

\* A field, the graph, a preset or Reset Draft: fields and graph agree.
Edit(c) ==
  /\ "edit" \in sensitive
  /\ fields' = c /\ preview' = c
  /\ SetDraft(c)
  /\ UNCHANGED <<target, baselines, pending, shared, worker, history>>

(* Import Current sets the fields under curve_syncing, so that nothing     *)
(* tells the graph.  It stays sensitive while a curve is pending.          *)
Import ==
  /\ target # None /\ report[target] # None
  /\ fields' = report[target]
  /\ SetDraft(report[target])
  /\ UNCHANGED <<target, preview, baselines, pending, shared, worker,
                 history>>

(* A tab, clicked by the user or by the first render.                      *)
Select(f) ==
  LET current == IF report[f] = None THEN Balanced ELSE report[f]
      new == drafts[f] = NoDraft
      draft == IF new THEN Draft(current, FALSE) ELSE drafts[f]
  IN  /\ target # f
      /\ target' = f
      /\ drafts' = [drafts EXCEPT ![f] = draft]
      /\ baselines' = IF new THEN [baselines EXCEPT ![f] = current] ELSE baselines
      /\ fields' = draft.points /\ preview' = draft.points
      /\ dirty' = draft.dirty
      /\ FollowDraft
      /\ UNCHANGED <<pending, shared, worker, history>>

(* Mutant: Apply keeps the confirmation of an earlier request. *)
ApplyKeepingAnswer ==
  /\ "apply" \in sensitive
  /\ dirty /\ pending = NoRequest
  /\ pending' = Request(target, preview)
  /\ slot' = pending'
  /\ error' = FALSE
  /\ sensitive' = sensitive \ {"apply"}
  /\ accepted' = FALSE /\ overtaken' = FALSE
  /\ UNCHANGED <<editor, confirmed, report, worker>>

Apply ==
  /\ "apply" \in sensitive
  /\ dirty /\ pending = NoRequest
  /\ pending' = Request(target, preview)
  /\ slot' = pending'
  /\ confirmed' = NoRequest /\ error' = FALSE
  /\ sensitive' = sensitive \ {"apply"}
  /\ accepted' = FALSE /\ overtaken' = FALSE
  /\ UNCHANGED <<editor, report, worker>>

(* Return to Auto, Restore Auto, Apply of the percentage, Boost and Sync   *)
(* all write the slot, whatever waits in it.                               *)
AskOther ==
  /\ slot' = Other
  /\ error' = FALSE
  /\ overtaken' = (overtaken \/ (pending # NoRequest /\ (slot = pending \/ error)))
  /\ UNCHANGED <<editor, pending, sensitive, confirmed, report, worker,
                 accepted>>

(* A control of another page is used and its handler clears the error, as  *)
(* the worker does when a GPU or CPU request succeeds.                     *)
ErrorCleared ==
  /\ error /\ error' = FALSE
  /\ overtaken' = (overtaken \/ pending # NoRequest)
  /\ UNCHANGED <<editor, pending, sensitive, slot, confirmed, report,
                 worker, accepted>>

-----------------------------------------------------------------------------
(* The GTK thread: rendering.  Sensitivity is decided before the answer is *)
(* looked at.                                                              *)
(* Mutant: a confirmed curve leaves the editor clean, whichever fan it is. *)
ConfirmedAnyFan ==
  /\ drafts' = [drafts EXCEPT ![pending.fan] = Draft(pending.points, FALSE)]
  /\ baselines' = [baselines EXCEPT ![pending.fan] = pending.points]
  /\ dirty' = FALSE

Confirmed ==
  /\ drafts' = [drafts EXCEPT ![pending.fan] = Draft(pending.points, FALSE)]
  /\ baselines' = [baselines EXCEPT ![pending.fan] = pending.points]
  /\ dirty' = (dirty /\ target # pending.fan)

(* What the page says of the pending curve.  Any error counts as its own,  *)
(* and the readback is the one polled last, perhaps before the call.       *)
Answer ==
  IF pending = NoRequest \/ (~error /\ confirmed # pending) THEN "waiting"
  ELSE IF error THEN "failed"
  ELSE IF report[pending.fan] # pending.points THEN "not confirmed" ELSE "confirmed"

Render ==
  /\ sensitive' = IF target = None \/ pending # NoRequest THEN {}
                  ELSE IF dirty THEN {"edit", "apply"} ELSE {"edit"}
  /\ IF Answer = "confirmed" THEN Confirmed ELSE UNCHANGED <<drafts, baselines, dirty>>
  /\ IF Answer = "waiting" THEN UNCHANGED <<pending, history>>
     ELSE pending' = NoRequest /\ accepted' = FALSE /\ overtaken' = FALSE
  /\ UNCHANGED <<target, fields, preview, shared, worker>>

-----------------------------------------------------------------------------
(* The worker.                                                             *)
Take ==
  /\ worker = Idle /\ slot # NoRequest
  /\ worker' = [at |-> "calling", request |-> slot]
  /\ slot' = NoRequest
  /\ UNCHANGED <<editor, pending, sensitive, confirmed, error, report,
                 history>>

NothingToTake ==
  /\ worker = Idle /\ slot = NoRequest
  /\ worker' = [at |-> "fetching", request |-> NoRequest]
  /\ UNCHANGED <<editor, pending, sensitive, shared, history>>

Answered(request) ==
  /\ worker = [at |-> "calling", request |-> request]
  /\ worker' = [at |-> "fetching", request |-> NoRequest]
  /\ UNCHANGED <<editor, pending, sensitive, slot, report>>

CurveAccepted(r) ==
  /\ Answered(r)
  /\ confirmed' = r /\ error' = FALSE
  /\ accepted' = (accepted \/ r = pending)
  /\ overtaken' = (overtaken \/ (error /\ pending \notin {NoRequest, r}))

OtherAccepted ==
  /\ Answered(Other)
  /\ confirmed' = NoRequest /\ error' = FALSE
  /\ overtaken' = (overtaken \/ (pending # NoRequest /\ (error \/ confirmed = pending)))
  /\ UNCHANGED accepted

(* Mutant: a failed curve is reported in the toast only. *)
CallFailsUnnoticed(r) ==
  /\ Answered(r)
  /\ confirmed' = NoRequest
  /\ UNCHANGED <<error, history>>

CallFails(r) ==
  /\ Answered(r)
  /\ confirmed' = NoRequest /\ error' = TRUE
  /\ UNCHANGED history

(* In the same round, before the slot is looked at, a request for the      *)
(* profile, the GPU mode, the charge limit or the CPU ends.                *)
UnrelatedFails ==
  /\ worker = Idle
  /\ error' = TRUE
  /\ UNCHANGED <<editor, pending, sensitive, slot, confirmed, report,
                 worker, history>>

(* fetch_state.  Auto, a profile change, the CLI or the firmware may have  *)
(* set another curve, and a curve may not be readable.                     *)
Fetched(readback) ==
  /\ worker.at = "fetching"
  /\ report' = readback
  /\ worker' = Idle
  /\ UNCHANGED <<editor, pending, sensitive, slot, confirmed, error, history>>

FetchFails ==
  /\ worker.at = "fetching"
  /\ worker' = Idle
  /\ UNCHANGED <<editor, pending, sensitive, shared, history>>

-----------------------------------------------------------------------------
User ==
  \/ Import \/ Apply \/ AskOther \/ ErrorCleared
  \/ \E c \in Curves : Edit(c)
  \/ \E f \in Fans : Select(f)

Worker ==
  \/ Take \/ NothingToTake \/ OtherAccepted \/ FetchFails
  \/ \E r \in CurveRequests : CurveAccepted(r)
  \/ \E r \in CurveRequests \union {Other} : CallFails(r)
  \/ \E readback \in [Fans -> Curves \union {None}] : Fetched(readback)

Next == User \/ Render \/ Worker \/ UnrelatedFails

(* Calls return and the worker goes on polling; the window is rendered     *)
(* four times a second.                                                    *)
Spec == Init /\ [][Next]_vars /\ WF_vars(Render) /\ WF_vars(Worker)

-----------------------------------------------------------------------------
(* A submitted curve is answered: the editor, dead while it waits, comes   *)
(* back to life, unless another fan action replaced the curve in the slot, *)
(* or another action removed its answer before it was rendered.            *)
CurveIsAnswered == pending # NoRequest ~> pending = NoRequest \/ overtaken

(* "Applied and confirmed" is said of a curve only if a call for exactly   *)
(* this curve succeeded after it was submitted, whatever was submitted,    *)
(* refused and submitted again before.                                     *)
ConfirmedWasApplied == Answer = "confirmed" => accepted

(* A draft is dirty exactly if it differs from its fan's baseline, and the *)
(* Apply button follows the draft of the selected fan, although answers    *)
(* for one fan come while another is edited, imported or selected.         *)
DirtyMeansDifferent ==
  /\ target # None => drafts[target] # NoDraft /\ dirty = drafts[target].dirty
  /\ \A f \in Fans :
       drafts[f] # NoDraft => (drafts[f].dirty <=> drafts[f].points # baselines[f])

(* What Apply submits is what the fields and the list of points show: all  *)
(* eight points are visible before a curve is submitted.                   *)
SubmittedIsShown == [][slot' \notin {slot, NoRequest, Other} => slot'.points = fields]_vars

=============================================================================
