--------------------------- MODULE FanHelperProofs ---------------------------
(***************************************************************************)
(* Proofs about the fans, for any set of channels: of the root helper      *)
(* (FanHelper), when no older helper has left its one-entry marker, and of *)
(* the daemon that calls it (FanControl): as long as no method does its    *)
(* bookkeeping inside a tick, applied curves are watched, and a daemon     *)
(* that stops has released them.                                           *)
(***************************************************************************)
EXTENDS FanHelper, FanControl, TLAPS

(* Once all channels of a reset that did not fail are handled, those it    *)
(* forgets are in Auto.                                                    *)
ResetsBeforeForgetting ==
  op.phase = "resetting" =>
    op.failed \/ (op.forget \ op.left) \intersect custom = {}

(* Curves are written while the helper serves; behind the closed gate only *)
(* restores run, and they concern the whole marker.                        *)
ClosedRestoresAll ==
  /\ op.phase = "staging" => proc \in {"serving", "leaving"}
  /\ proc \in {"stopped", "killed"} => op.phase = "idle"
  /\ proc \in {"closing", "stopped", "killed"} =>
       /\ op.phase = "resetting" => op.forget = marker
       /\ op.phase = "idle" /\ op.ok => marker = {}

IInv ==
  /\ TypeOK
  /\ CustomIsArmed
  /\ ResetsBeforeForgetting
  /\ ClosedRestoresAll

(* The three forms an operation takes. *)
LEMMA OperationForms ==
  ASSUME op \in Operations
  PROVE  \/ op.phase = "idle" /\ op.ok \in BOOLEAN /\ op = Done(op.ok)
         \/ op.phase = "staging" /\ op.fan \in Fans /\ op = Staging(op.fan)
         \/ /\ op.phase = "resetting"
            /\ op.left \in SUBSET Fans /\ op.failed \in BOOLEAN
            /\ op.forget \in SUBSET Entries
  BY DEF Operations, Done, Staging

(* What may be restored is restored whole, or not at all. *)
LEMMA RestoreWhole ==
  ASSUME ~LegacyMarker, TypeOK
  PROVE  /\ RestoreOp \in Operations
         /\ \/ RestoreOp = Done(TRUE) /\ marker = {}
            \/ RestoreOp = Done(FALSE)
            \/ RestoreOp = Resetting(marker, marker)
<1>1. Legacy \notin marker /\ marker \subseteq Fans
  BY FanHelperAssumption DEF TypeOK, Entries
<1>2. \/ RestoreOp = Done(TRUE) /\ marker = {}
      \/ RestoreOp = Done(FALSE)
      \/ RestoreOp = Resetting(marker, marker)
  BY <1>1 DEF RestoreOp
<1>3. Done(TRUE) \in Operations /\ Done(FALSE) \in Operations
  BY DEF Done, Operations
<1>4. Resetting(marker, marker) \in Operations
  BY <1>1 DEF Resetting, Operations, Entries
<1> QED BY <1>2, <1>3, <1>4

LEMMA InitIInv == ASSUME ~LegacyMarker, Init PROVE IInv
<1>1. TypeOK
  BY FanHelperAssumption DEF Init, TypeOK, Entries, Operations, Done
<1>2. CustomIsArmed /\ ResetsBeforeForgetting /\ ClosedRestoresAll
  BY FanHelperAssumption DEF Init, CustomIsArmed, ResetsBeforeForgetting,
    ClosedRestoresAll, Done
<1> QED BY <1>1, <1>2 DEF IInv

(* Every step keeps the invariant; a restore that starts is whole, and a   *)
(* marker shrinks only by channels that are in Auto.                       *)
LEMMA NextIInv == ASSUME ~LegacyMarker, IInv, [Next]_vars PROVE IInv'
<1> USE FanHelperAssumption DEF IInv
<1>1. Entries = Fans /\ Legacy \notin marker
  BY DEF TypeOK, Entries
<1>2. CASE Start
  <2>1. TypeOK'
    BY <1>2, RestoreWhole DEF Start, TypeOK
  <2>2. CustomIsArmed' /\ ResetsBeforeForgetting' /\ ClosedRestoresAll'
    BY <1>1, <1>2, RestoreWhole DEF Start, TypeOK, CustomIsArmed, ResetsBeforeForgetting,
      ClosedRestoresAll, Done, Resetting
  <2> QED BY <2>1, <2>2
<1>3. CASE Serve \/ Terminate \/ IdleExit
  BY <1>3 DEF Serve, Terminate, IdleExit, TypeOK, CustomIsArmed,
    ResetsBeforeForgetting, ClosedRestoresAll
<1>4. ASSUME NEW fan \in Fans, SetFanCurve(fan) PROVE IInv'
  <2>1. TypeOK'
    BY <1>1, <1>4 DEF SetFanCurve, TypeOK, Operations, Staging
  <2>2. CustomIsArmed' /\ ResetsBeforeForgetting' /\ ClosedRestoresAll'
    BY <1>1, <1>4 DEF SetFanCurve, Mutable, CustomIsArmed, ResetsBeforeForgetting,
      ClosedRestoresAll, Staging
  <2> QED BY <2>1, <2>2
<1>5. ASSUME NEW fan \in Fans, ArmUnsynced(fan) PROVE IInv'
  <2>1. TypeOK'
    BY <1>1, <1>5 DEF ArmUnsynced, TypeOK, Operations, Done
  <2>2. CustomIsArmed' /\ ResetsBeforeForgetting' /\ ClosedRestoresAll'
    BY <1>1, <1>5 DEF ArmUnsynced, Mutable, CustomIsArmed, ResetsBeforeForgetting,
      ClosedRestoresAll, Done
  <2> QED BY <2>1, <2>2
<1>6. CASE StageFails
  <2>1. op.fan \in Fans /\ op.fan \in marker
    BY <1>1, <1>6, OperationForms DEF StageFails, TypeOK, CustomIsArmed
  <2>2. TypeOK'
    BY <1>1, <1>6, <2>1 DEF StageFails, TypeOK, Operations, Resetting
  <2>3. CustomIsArmed' /\ ResetsBeforeForgetting' /\ ClosedRestoresAll'
    BY <1>1, <1>6, <2>1 DEF StageFails, CustomIsArmed, ResetsBeforeForgetting,
      ClosedRestoresAll, Resetting
  <2> QED BY <2>2, <2>3
<1>7. ASSUME NEW verified \in BOOLEAN, Enable(verified) PROVE IInv'
  <2>1. op.fan \in Fans /\ op.fan \in marker
    BY <1>1, <1>7, OperationForms DEF Enable, TypeOK, CustomIsArmed
  <2>2. TypeOK'
    BY <1>1, <1>7, <2>1 DEF Enable, TypeOK, Operations, Resetting, Done
  <2>3. CustomIsArmed' /\ ResetsBeforeForgetting' /\ ClosedRestoresAll'
    BY <1>1, <1>7, <2>1 DEF Enable, CustomIsArmed, ResetsBeforeForgetting,
      ClosedRestoresAll, Resetting, Done
  <2> QED BY <2>2, <2>3
<1>8. ASSUME NEW fan \in Fans, SetFanAuto(fan) PROVE IInv'
  <2>1. TypeOK'
    BY <1>1, <1>8 DEF SetFanAuto, TypeOK, Operations, Resetting
  <2>2. CustomIsArmed' /\ ResetsBeforeForgetting' /\ ClosedRestoresAll'
    BY <1>1, <1>8 DEF SetFanAuto, Mutable, CustomIsArmed, ResetsBeforeForgetting,
      ClosedRestoresAll, Resetting
  <2> QED BY <2>1, <2>2
<1>9. CASE ResetFansToAuto
  <2>1. op' \in Operations
    BY <1>1, <1>9, RestoreWhole DEF ResetFansToAuto, TypeOK, Operations, Resetting
  <2>2. \/ op' = Done(FALSE) \/ op' = Done(TRUE)
        \/ op' = Resetting(present, {}) \/ op' = Resetting(marker, marker)
    BY <1>9, RestoreWhole DEF ResetFansToAuto
  <2>3. TypeOK'
    BY <1>9, <2>1 DEF ResetFansToAuto, TypeOK
  <2>4. CustomIsArmed' /\ ResetsBeforeForgetting' /\ ClosedRestoresAll'
    BY <1>1, <1>9, <2>2 DEF ResetFansToAuto, Mutable, CustomIsArmed,
      ResetsBeforeForgetting, ClosedRestoresAll, Resetting, Done
  <2> QED BY <2>3, <2>4
<1>10. CASE RecoverFansIfArmed \/ ShutdownFans
  <2>1. TypeOK'
    BY <1>10, RestoreWhole DEF RecoverFansIfArmed, ShutdownFans, TypeOK
  <2>2. CustomIsArmed' /\ ResetsBeforeForgetting' /\ ClosedRestoresAll'
    BY <1>1, <1>10, RestoreWhole DEF RecoverFansIfArmed, ShutdownFans, CustomIsArmed,
      ResetsBeforeForgetting, ClosedRestoresAll, Resetting, Done
  <2> QED BY <2>1, <2>2
<1>11. ASSUME NEW fan \in Fans, ResetChannel(fan) \/ ResetChannelFails(fan) PROVE IInv'
  <2>1. /\ op.phase = "resetting" /\ op.left \in SUBSET Fans
        /\ op.failed \in BOOLEAN /\ op.forget \in SUBSET Entries
        /\ op.left \subseteq Fans
    BY <1>11, OperationForms DEF ResetChannel, ResetChannelFails, TypeOK
  <2>2. /\ op' \in Operations
        /\ op'.phase = "resetting" /\ op'.left = op.left \ {fan}
        /\ op'.forget = op.forget
        /\ op'.failed \/ (op'.failed = op.failed /\ custom' = custom \ {fan})
    BY <1>11, <2>1 DEF ResetChannel, ResetChannelFails, TypeOK, Operations
  <2>3. custom' \subseteq custom /\ marker' = marker /\ proc' = proc /\ present' = present
    BY <1>11 DEF ResetChannel, ResetChannelFails
  <2>4. TypeOK'
    BY <2>2, <2>3 DEF TypeOK
  <2>5. CustomIsArmed' /\ ResetsBeforeForgetting' /\ ClosedRestoresAll'
    BY <1>1, <2>1, <2>2, <2>3 DEF CustomIsArmed, ResetsBeforeForgetting, ClosedRestoresAll
  <2> QED BY <2>4, <2>5
<1>12. CASE FinishReset \/ FinishResetUnsaved
  <2>1. /\ op.failed \in BOOLEAN /\ op.phase = "resetting" /\ op.left = {}
        /\ custom' = custom /\ proc' = proc /\ present' = present
        /\ op' = Done(FALSE) \/ op' = Done(TRUE)
        /\ \/ marker' = marker /\ op' = Done(FALSE)
           \/ ~op.failed /\ marker' = marker \ op.forget
    BY <1>12, OperationForms DEF FinishReset, FinishResetUnsaved, TypeOK
  <2>2. TypeOK'
    <3>1. Done(FALSE) \in Operations /\ Done(TRUE) \in Operations
      BY DEF Operations, Done
    <3>2. Operations' = Operations
      BY DEF Operations, Entries
    <3> QED BY <2>1, <3>1, <3>2 DEF TypeOK
  <2>3. CustomIsArmed' /\ ResetsBeforeForgetting' /\ ClosedRestoresAll'
    BY <1>1, <2>1 DEF CustomIsArmed, ResetsBeforeForgetting, ClosedRestoresAll, Done
  <2> QED BY <2>2, <2>3
<1>13. CASE Exit \/ Kill
  <2>1. TypeOK'
    <3>1. Done(FALSE) \in Operations
      BY DEF Operations, Done
    <3> QED BY <1>13, <3>1 DEF Exit, Kill, TypeOK
  <2>2. CustomIsArmed' /\ ResetsBeforeForgetting' /\ ClosedRestoresAll'
    BY <1>13 DEF Exit, Kill, Free, CustomIsArmed, ResetsBeforeForgetting,
      ClosedRestoresAll, Done
  <2> QED BY <2>1, <2>2
<1>14. ASSUME NEW fan \in Fans, FirmwareResets(fan) PROVE IInv'
  BY <1>14 DEF FirmwareResets, TypeOK, CustomIsArmed, ResetsBeforeForgetting,
    ClosedRestoresAll
<1>15. CASE Rediscover
  BY <1>15 DEF Rediscover, TypeOK, CustomIsArmed, ResetsBeforeForgetting,
    ClosedRestoresAll
<1>16. CASE UNCHANGED vars
  BY <1>16 DEF vars, TypeOK, CustomIsArmed, ResetsBeforeForgetting, ClosedRestoresAll
<1> QED
  BY <1>2, <1>3, <1>4, <1>5, <1>6, <1>7, <1>8, <1>9, <1>10, <1>11, <1>12, <1>13,
    <1>14, <1>15, <1>16 DEF Next

(* The invariant holds throughout. *)
LEMMA Invariant == ASSUME ~LegacyMarker PROVE Spec => []IInv
<1>1. Init => IInv
  BY InitIInv
<1>2. IInv /\ [Next]_vars => IInv'
  BY NextIInv
<1> QED BY <1>1, <1>2, PTL DEF Spec

(* State, marker and operation keep their types. *)
THEOREM TypeCorrect == ASSUME ~LegacyMarker PROVE Spec => []TypeOK
<1>1. IInv => TypeOK
  BY DEF IInv
<1> QED BY Invariant, <1>1, PTL

(* Wherever the helper is killed, the marker names every channel that runs *)
(* a custom curve or is having its points written.                         *)
THEOREM CrashIsRecoverable == ASSUME ~LegacyMarker PROVE Spec => []CustomIsArmed
<1>1. IInv => CustomIsArmed
  BY DEF IInv
<1> QED BY Invariant, <1>1, PTL

(* A clean stop whose restore succeeded leaves all channels in Auto. *)
THEOREM CleanStopRestores == ASSUME ~LegacyMarker PROVE Spec => []CleanStopIsAuto
<1>1. IInv => CleanStopIsAuto
  <2> SUFFICES ASSUME IInv, proc = "stopped", op.phase = "idle", op.ok
               PROVE  custom = {} /\ marker = {}
    BY DEF CleanStopIsAuto, Free
  <2>1. marker = {}
    BY DEF IInv, ClosedRestoresAll
  <2> QED BY <2>1 DEF IInv, CustomIsArmed
<1> QED BY Invariant, <1>1, PTL

(* Steps that only change the operation do not show.                       *)
LEMMA OperationHidden ==
  ASSUME UNCHANGED <<custom, marker, proc>>, proc # "stopped"
  PROVE  UNCHANGED Armed!vars
  BY DEF Gate, Armed!vars

(* Every step shows as a step of ArmedFans, or not at all.                 *)
LEMMA StepImplements ==
  ASSUME ~LegacyMarker, IInv, [Next]_vars
  PROVE  [Armed!Next]_(Armed!vars)
<1> USE FanHelperAssumption DEF IInv
<1> DEFINE Shown == [Armed!Next]_(Armed!vars)
<1>1. Entries = Fans /\ Legacy \notin marker
  BY DEF TypeOK, Entries
<1>2. CASE Start
  <2>1. Gate \in {"clean", "shut"} /\ Gate' = "shut"
    BY <1>2 DEF Start, Gate
  <2>2. custom' = custom /\ marker' = marker
    BY <1>2 DEF Start
  <2>3. CASE Gate = "clean"
    <3>1. Armed!Turn("shut")
      BY <2>1, <2>2, <2>3 DEF Armed!Turn
    <3> QED BY <3>1 DEF Armed!Next
  <2> QED BY <2>1, <2>2, <2>3 DEF Armed!vars
<1>3. CASE Serve
  <2>1. Armed!Turn("open")
    BY <1>3 DEF Serve, Gate, Armed!Turn
  <2> QED BY <2>1 DEF Armed!Next
<1>4. ASSUME NEW fan \in Fans, SetFanCurve(fan) \/ ArmUnsynced(fan) PROVE Shown
  <2>1. Armed!Arm(fan)
    BY <1>4 DEF SetFanCurve, ArmUnsynced, Mutable, Gate, Armed!Arm
  <2> QED BY <2>1 DEF Armed!Next
<1>5. ASSUME NEW verified \in BOOLEAN, Enable(verified) PROVE Shown
  <2>1. op.fan \in Fans /\ op.fan \in marker
    BY <1>1, <1>5, OperationForms DEF Enable, TypeOK, CustomIsArmed
  <2>2. Armed!Enable(op.fan)
    BY <1>5, <2>1 DEF Enable, ClosedRestoresAll, Gate, Armed!Enable
  <2> QED BY <2>1, <2>2 DEF Armed!Next
<1>6. ASSUME \/ StageFails \/ ResetFansToAuto \/ RecoverFansIfArmed
             \/ \E fan \in Fans : SetFanAuto(fan)
      PROVE  Shown
  <2>1. UNCHANGED <<custom, marker, proc>> /\ proc # "stopped"
    BY <1>6 DEF StageFails, ResetFansToAuto, RecoverFansIfArmed, SetFanAuto, Mutable,
      ClosedRestoresAll
  <2> QED BY <2>1, OperationHidden
<1>7. ASSUME NEW fan \in Fans,
             ResetChannel(fan) \/ ResetChannelFails(fan) \/ FirmwareResets(fan)
      PROVE  Shown
  <2>1. custom' \in {custom, custom \ {fan}} /\ marker' = marker /\ proc' = proc
    BY <1>7 DEF ResetChannel, ResetChannelFails, FirmwareResets
  <2>2. Gate' = Gate
    <3>1. op' = op \/ proc # "stopped"
      BY <1>7 DEF ResetChannel, ResetChannelFails, FirmwareResets, ClosedRestoresAll
    <3> QED BY <2>1, <3>1 DEF Gate
  <2>3. Armed!Release(fan) \/ UNCHANGED Armed!vars
    BY <2>1, <2>2 DEF Armed!Release, Armed!vars
  <2> QED BY <2>3 DEF Armed!Next
<1>8. CASE FinishReset \/ FinishResetUnsaved
  <2>1. /\ op.phase = "resetting" /\ op.left = {} /\ proc # "stopped"
        /\ custom' = custom /\ proc' = proc
        /\ marker' = marker \/ (~op.failed /\ marker' = marker \ op.forget)
    BY <1>8 DEF FinishReset, FinishResetUnsaved, ClosedRestoresAll
  <2>2. Gate' = Gate /\ Gate # "clean"
    BY <2>1 DEF Gate
  <2>3. CASE ~op.failed /\ marker' = marker \ op.forget
    <3>1. op.forget \in SUBSET Fans /\ op.forget \intersect custom = {}
      BY <1>1, <2>1, <2>3, OperationForms DEF TypeOK, ResetsBeforeForgetting
    <3>2. Armed!Forget(op.forget)
      BY <2>1, <2>2, <2>3, <3>1 DEF Armed!Forget
    <3> QED BY <3>1, <3>2 DEF Armed!Next
  <2> QED BY <2>1, <2>2, <2>3 DEF Armed!vars
<1>9. CASE Terminate \/ IdleExit \/ Rediscover
  <2>1. UNCHANGED Armed!vars
    BY <1>9 DEF Terminate, IdleExit, Rediscover, Gate, Armed!vars
  <2> QED BY <2>1
<1>10. CASE ShutdownFans \/ Kill
  <2>1. /\ custom' = custom /\ marker' = marker
        /\ Gate \in {"open", "shut"} /\ Gate' = "shut"
    BY <1>10 DEF ShutdownFans, Kill, Gate
  <2>2. Armed!Turn("shut") \/ UNCHANGED Armed!vars
    BY <2>1 DEF Armed!Turn, Armed!vars
  <2> QED BY <2>2 DEF Armed!Next
<1>11. CASE Exit
  <2>1. custom' = custom /\ marker' = marker /\ Gate = "shut" /\ Gate' \in {"clean", "shut"}
    BY <1>11 DEF Exit, Gate
  <2>2. CASE Gate' = "clean"
    <3>1. op = Done(TRUE)
      BY <1>11, <2>2 DEF Exit, Gate
    <3>2. marker = {} /\ custom = {}
      BY <1>1, <1>11, <3>1 DEF Exit, Done, ClosedRestoresAll, CustomIsArmed
    <3>3. Armed!Turn("clean")
      BY <2>1, <2>2, <3>2 DEF Armed!Turn
    <3> QED BY <3>3 DEF Armed!Next
  <2> QED BY <2>1, <2>2 DEF Armed!vars
<1>12. CASE UNCHANGED vars
  BY <1>12 DEF vars, Gate, Armed!vars
<1> QED
  BY <1>2, <1>3, <1>4, <1>5, <1>6, <1>7, <1>8, <1>9, <1>10, <1>11, <1>12 DEF Next

(* The helper implements ArmedFans: whatever fails, crashes or races in    *)
(* it, its callers see channels that are armed before they run a curve, a  *)
(* gate that no curve passes once shut, and clean stops that are clean.    *)
THEOREM HelperImplements == ASSUME ~LegacyMarker PROVE Spec => ImplementsArmedFans
<1>1. Init => Armed!Init
  <2> SUFFICES ASSUME Init PROVE Armed!Init
    OBVIOUS
  <2>1. marker \in SUBSET Fans /\ custom \in SUBSET marker
    BY FanHelperAssumption DEF Init
  <2>2. Gate = "shut"
    BY DEF Init, Gate, Done
  <2> QED BY <2>1, <2>2 DEF Armed!Init
<1>2. IInv /\ [Next]_vars => [Armed!Next]_(Armed!vars)
  BY StepImplements
<1> QED BY Invariant, <1>1, <1>2, PTL DEF Spec, ImplementsArmedFans, Armed!Spec

-----------------------------------------------------------------------------
(* The daemon.                                                             *)

(* A daemon that is gone does nothing; one that stops has ended its loop.  *)
GoneIsIdle ==
  /\ life # "up" => tick = Between
  /\ life \in {"stopped", "killed"} => call = NoCall

(* Curves that are applied, or will be reported so once the mode is set.   *)
Due ==
  applied \union
    (IF call.phase = "listed" /\ call.op = "curve" THEN call.fans \intersect custom ELSE {})

(* The list has them at all times, and what a tick has in hand to make it  *)
(* a shorter one does too.                                                 *)
DueIsListed ==
  /\ Due \subseteq owned
  /\ tick.pc \in {"seen", "owned"} => Due \intersect tick.seen = {}
  /\ tick.pc = "keep" => Due \subseteq tick.keep /\ tick.keep \subseteq owned
  /\ tick.pc \in {"restoring", "restored"} => tick.watched = owned
  /\ tick.pc \in {"resolved", "confirmed"} => owned = {}

(* With channels on the list the mode is Curve, or a method is about to    *)
(* set it; with applied ones it is.                                        *)
ModeFollowsList ==
  /\ owned # {} => mode = "Curve" \/ (call.phase = "listed" /\ call.mode = "Curve")
  /\ call.phase = "listed" /\ call.mode = "Auto" => owned = {}
  /\ applied # {} => mode = "Curve"

WatchInv ==
  /\ WatchTypeOK /\ GoneIsIdle
  /\ life \in {"up", "stopping"} /\ ~disturbed => DueIsListed /\ ModeFollowsList
  /\ StopReleasesApplied

Watching == life \in {"up", "stopping"} /\ ~disturbed

-----------------------------------------------------------------------------
LEMMA InitWatchInv == WatchInit => WatchInv
<1> SUFFICES ASSUME WatchInit PROVE WatchInv
  OBVIOUS
<1>1. WatchTypeOK
  BY FanControlAssumption DEF WatchInit, WatchTypeOK, Modes, NoCall, Calls, Between,
     Ticks
<1> QED
  BY <1>1 DEF WatchInit, WatchInv, GoneIsIdle, DueIsListed, ModeFollowsList, Due,
     NoCall, Between,
     StopReleasesApplied

(* A step outside the loop that leaves list and mode alone.                *)
LEMMA ListIsLeftAlone ==
  ASSUME WatchInv, WatchTypeOK', UNCHANGED <<owned, mode, tick, life, disturbed>>,
         life \in {"stopped", "killed"} => call' = NoCall,
         applied' \subseteq applied, Due' \subseteq Due,
         call.phase = "listed" \/ call'.phase = "listed" => call' = call
  PROVE  WatchInv'
<1>1. GoneIsIdle'
  BY DEF WatchInv, GoneIsIdle
<1>2. ASSUME Watching' PROVE DueIsListed' /\ ModeFollowsList'
  <2>1. DueIsListed /\ ModeFollowsList
    BY <1>2 DEF Watching, WatchInv
  <2>2. DueIsListed'
    BY <2>1 DEF DueIsListed
  <2>3. ModeFollowsList'
    BY <2>1 DEF ModeFollowsList
  <2> QED BY <2>2, <2>3
<1>3. StopReleasesApplied'
  BY DEF WatchInv, StopReleasesApplied
<1> QED BY <1>1, <1>2, <1>3 DEF WatchInv, Watching

(* Requests and answers: what is due does not grow before it is listed.    *)
LEMMA CallsKeepWatchInv ==
  ASSUME WatchInv,
         \/ \E fan \in Fans : DaemonSetFanCurve(fan)
         \/ \E fans \in {{fan} : fan \in Fans} \union {Fans} :
              SetFanAutoOwned(fans) \/ ReleaseDirectly(fans)
         \/ HelperSetsCurve \/ HelperFailsCurve
         \/ HelperReleases \/ HelperFailsRelease
  PROVE  WatchInv'
<1> USE DEF NoCall, Asked, Answered
<1>1. /\ UNCHANGED <<danger, owned, mode, tick, probe, life, late, asked, disturbed>>
      /\ custom' \subseteq Fans /\ applied' \subseteq custom' /\ applied' \subseteq applied
      /\ call' \in Calls
  <2>1. CASE \/ \E fan \in Fans : DaemonSetFanCurve(fan)
             \/ \E fans \in {{fan} : fan \in Fans} \union {Fans} : SetFanAutoOwned(fans)
    BY <2>1 DEF DaemonSetFanCurve, SetFanAutoOwned, WatchInv, WatchTypeOK, Calls,
       control, history
  <2>2. ASSUME NEW fans \in SUBSET Fans, ReleaseDirectly(fans)
        PROVE  <1>1
    BY <2>2 DEF ReleaseDirectly, Found, Partly, Tracked, WatchInv, WatchTypeOK, Calls,
       control
  <2>3. CASE HelperSetsCurve \/ HelperFailsCurve
    BY <2>3 DEF HelperSetsCurve, HelperFailsCurve, WatchInv, WatchTypeOK, Calls,
       control, history
  <2>4. CASE HelperReleases \/ HelperFailsRelease
    BY <2>4 DEF HelperReleases, HelperFailsRelease, Partly, Tracked, WatchInv,
       WatchTypeOK, Calls,
       control
  <2> QED BY <2>1, <2>2, <2>3, <2>4
<1>2. call.phase # "listed" /\ call'.phase # "listed"
  BY DEF DaemonSetFanCurve, SetFanAutoOwned, ReleaseDirectly, HelperSetsCurve,
     HelperFailsCurve,
     HelperReleases, HelperFailsRelease
<1>3. life \notin {"stopped", "killed"}
  BY DEF DaemonSetFanCurve, SetFanAutoOwned, ReleaseDirectly, HelperSetsCurve,
     HelperFailsCurve,
     HelperReleases, HelperFailsRelease, WatchInv, GoneIsIdle
<1>4. WatchTypeOK'
  BY <1>1 DEF WatchInv, WatchTypeOK
<1>5. Due' \subseteq Due
  BY <1>1, <1>2 DEF Due
<1> QED BY <1>1, <1>2, <1>3, <1>4, <1>5, ListIsLeftAlone

(* The bookkeeping of a method, which happens between ticks.               *)
LEMMA ListingKeepsWatchInv == ASSUME WatchInv, MethodUpdatesOwned PROVE WatchInv'
<1>1. /\ call.phase = "answered" /\ call.fans \subseteq Fans /\ call.op \in {"curve", "release"}
      /\ life \in {"up", "stopping"}
      /\ UNCHANGED <<custom, danger, mode, tick, probe, life, late, asked>>
      /\ owned' = IF call.op = "curve" THEN owned \union call.fans ELSE owned \ call.fans
      /\ applied' = IF call.op = "curve" THEN applied ELSE applied \ call.fans
      /\ call' = Listed(call.op, call.fans, IF owned' = {} THEN "Auto" ELSE "Curve")
      /\ disturbed' \in BOOLEAN
  BY DEF MethodUpdatesOwned, Overlapping, WatchInv, WatchTypeOK, GoneIsIdle, NoCall,
     Calls
<1>2. call' \in Calls
  BY <1>1 DEF Listed, Calls
<1>3. WatchTypeOK'
  BY <1>1, <1>2 DEF WatchInv, WatchTypeOK
<1>4. GoneIsIdle'
  BY <1>1 DEF WatchInv, GoneIsIdle
<1>5. ASSUME ~disturbed' PROVE DueIsListed' /\ ModeFollowsList'
  <2>1. DueIsListed /\ ModeFollowsList /\ tick = Between
    BY <1>1, <1>5 DEF MethodUpdatesOwned, Overlapping, WatchInv
  <2>2. Due' \subseteq owned'
    BY <1>1, <2>1 DEF Due, DueIsListed, Listed
  <2>3. DueIsListed'
    BY <1>1, <2>1, <2>2 DEF DueIsListed, Between
  <2>4. ModeFollowsList'
    BY <1>1, <2>1 DEF ModeFollowsList, Listed
  <2> QED BY <2>3, <2>4
<1> QED BY <1>1, <1>3, <1>4, <1>5 DEF WatchInv, StopReleasesApplied

LEMMA SettingModeKeepsWatchInv == ASSUME WatchInv, MethodUpdatesMode PROVE WatchInv'
<1>1. /\ call.phase = "listed" /\ call.fans \subseteq Fans /\ call.op \in {"curve", "release"}
      /\ call.mode \in {"Auto", "Curve"}
      /\ life \in {"up", "stopping"}
      /\ UNCHANGED <<custom, danger, owned, tick, probe, life, late, asked>>
      /\ mode' = call.mode /\ call' = NoCall
      /\ applied' = Due
      /\ disturbed' \in BOOLEAN
  BY DEF MethodUpdatesMode, Overlapping, WatchInv, WatchTypeOK, GoneIsIdle, NoCall,
     Calls, Due
<1>2. WatchTypeOK'
  BY <1>1 DEF WatchInv, WatchTypeOK, Due, Modes, Calls, NoCall
<1>3. GoneIsIdle'
  BY <1>1 DEF WatchInv, GoneIsIdle
<1>4. ASSUME ~disturbed' PROVE DueIsListed' /\ ModeFollowsList'
  <2>1. DueIsListed /\ ModeFollowsList /\ tick = Between
    BY <1>1, <1>4 DEF MethodUpdatesMode, Overlapping, WatchInv
  <2>2. Due' = Due
    BY <1>1 DEF Due, NoCall
  <2>3. DueIsListed'
    BY <1>1, <2>1, <2>2 DEF DueIsListed, Between
  <2>4. ModeFollowsList'
    BY <1>1, <2>1 DEF ModeFollowsList, DueIsListed, NoCall
  <2> QED BY <2>3, <2>4
<1> QED BY <1>1, <1>2, <1>3, <1>4 DEF WatchInv, StopReleasesApplied
-----------------------------------------------------------------------------
(* Steps of the loop that change its position only.                        *)
LEMMA LookingKeepsWatchInv ==
  ASSUME WatchInv,
         \/ \E seen \in SUBSET Fans : TickReadsFans(seen)
         \/ TickCannotRead \/ TickReadsMode \/ TickReadsOwned \/ TickJudges
         \/ TickReadsNothingBack \/ TickKnowsNothing
  PROVE  WatchInv'
<1>1. /\ UNCHANGED <<custom, danger, owned, mode, call, life, late, asked, applied, disturbed>>
      /\ probe' \in BOOLEAN
  BY DEF TickReadsFans, TickCannotRead, TickReadsMode, TickReadsOwned, TickJudges,
     TickReadsNothingBack, TickKnowsNothing, control, history, WatchInv, WatchTypeOK
<1>2. life = "up"
  BY DEF TickReadsFans, TickCannotRead, TickReadsMode, TickReadsOwned, TickJudges,
     TickReadsNothingBack, TickKnowsNothing, WatchInv, GoneIsIdle, Between
<1>3. /\ tick' \in Ticks
      /\ ~disturbed /\ DueIsListed => DueIsListed'
  <2> USE <1>1
  <2>0. /\ owned \subseteq Fans /\ mode \in Modes /\ tick \in Ticks
        /\ applied \subseteq custom /\ Due' = Due /\ Due \subseteq custom
    BY DEF WatchInv, WatchTypeOK, Due
  <2>1. ASSUME NEW seen \in SUBSET Fans, TickReadsFans(seen) PROVE <1>3
    BY <2>0, <2>1 DEF TickReadsFans, Seeing, Ticks, DueIsListed
  <2>2. CASE TickCannotRead
    BY <2>0, <2>2 DEF TickCannotRead, At, Between, Ticks, DueIsListed
  <2>3. CASE TickReadsMode
    BY <2>0, <2>3 DEF TickReadsMode, Seeing, Judging, Ticks, DueIsListed
  <2>4. CASE TickReadsOwned
    <3>1. tick.seen \subseteq Fans
      BY <2>0, <2>4 DEF TickReadsOwned, Ticks
    <3>2. tick' \in Ticks
      BY <2>0, <2>4, <3>1 DEF TickReadsOwned, Judging, Keeping, Ticks, Modes
    <3>3. DueIsListed => DueIsListed'
      BY <2>0, <2>4 DEF TickReadsOwned, Judging, Keeping, DueIsListed
    <3> QED BY <3>2, <3>3
  <2>5. CASE TickJudges
    BY <2>0, <2>5 DEF TickJudges, Restoring, Between, Ticks, DueIsListed
  <2>6. CASE TickReadsNothingBack \/ TickKnowsNothing
    BY <2>0, <2>6 DEF TickReadsNothingBack, TickKnowsNothing, Between, Ticks,
       DueIsListed
  <2> QED BY <2>1, <2>2, <2>3, <2>4, <2>5, <2>6
<1>4. WatchTypeOK' /\ GoneIsIdle'
  BY <1>1, <1>2, <1>3 DEF WatchInv, WatchTypeOK, GoneIsIdle
<1>5. ModeFollowsList => ModeFollowsList'
  BY <1>1 DEF ModeFollowsList
<1> QED BY <1>1, <1>2, <1>3, <1>4, <1>5 DEF WatchInv, StopReleasesApplied

(* Steps of the loop that shorten the list or set the mode.                *)
LEMMA CorrectingKeepsWatchInv ==
  ASSUME WatchInv,
         \/ \E seen \in SUBSET Fans : TickReadsBack(seen)
         \/ TickKeepsUnresolved \/ TickResolves \/ TickConfirms \/ TickFails
  PROVE  WatchInv'
<1>1. UNCHANGED <<custom, danger, call, probe, life, late, asked, applied, disturbed>>
  BY DEF TickReadsBack, TickKeepsUnresolved, TickResolves, TickConfirms, TickFails,
     history
<1>2. life = "up"
  BY DEF TickReadsBack, TickKeepsUnresolved, TickResolves, TickConfirms, TickFails,
     WatchInv,
     GoneIsIdle, Between
<1>3. /\ owned' \subseteq Fans /\ mode' \in Modes /\ tick' \in Ticks
      /\ ~disturbed /\ DueIsListed /\ ModeFollowsList => DueIsListed' /\ ModeFollowsList'
  <2>0. /\ owned \subseteq Fans /\ mode \in Modes /\ tick \in Ticks
        /\ applied \subseteq custom /\ Due' = Due /\ Due \subseteq custom
        /\ applied \subseteq Due /\ applied' = applied
    BY <1>1 DEF WatchInv, WatchTypeOK, Due
  <2>1. ASSUME NEW seen \in SUBSET Fans, TickReadsBack(seen) PROVE <1>3
    <3>1. tick.watched \subseteq Fans
      BY <2>0, <2>1 DEF TickReadsBack, Ticks
    <3>2. owned' \subseteq Fans /\ mode' = mode /\ tick' \in Ticks
      BY <2>1, <3>1 DEF TickReadsBack, At, Between, Ticks
    <3>3. ASSUME DueIsListed, ModeFollowsList PROVE DueIsListed' /\ ModeFollowsList'
      <4>1. owned' \subseteq owned /\ Due' \subseteq owned'
        BY <2>0, <2>1, <3>3 DEF TickReadsBack, DueIsListed
      <4>2. DueIsListed'
        BY <2>1, <4>1 DEF TickReadsBack, DueIsListed, At, Between
      <4>3. ModeFollowsList'
        BY <1>1, <3>2, <3>3, <4>1 DEF ModeFollowsList
      <4> QED BY <4>2, <4>3
    <3> QED BY <2>0, <3>2, <3>3
  <2>2. CASE TickKeepsUnresolved
    <3>1. tick.keep \subseteq Fans
      BY <2>0, <2>2 DEF TickKeepsUnresolved, Ticks
    <3>2. owned' \subseteq Fans /\ mode' = mode /\ tick' \in Ticks
      BY <2>2, <3>1 DEF TickKeepsUnresolved, At, Judging, Ticks, Modes
    <3>3. ASSUME DueIsListed, ModeFollowsList PROVE DueIsListed' /\ ModeFollowsList'
      <4>1. owned' \subseteq owned /\ Due' \subseteq owned'
        BY <2>0, <2>2, <3>3 DEF TickKeepsUnresolved, DueIsListed
      <4>2. DueIsListed'
        BY <2>2, <4>1 DEF TickKeepsUnresolved, DueIsListed, At, Judging
      <4>3. ModeFollowsList'
        BY <1>1, <3>2, <3>3, <4>1 DEF ModeFollowsList
      <4> QED BY <4>2, <4>3
    <3> QED BY <2>0, <3>2, <3>3
  <2>3. CASE TickResolves \/ TickConfirms
    <3>1. owned' = owned /\ mode' = "Auto" /\ tick' \in Ticks
      BY <2>3 DEF TickResolves, TickConfirms, Between, Judging, Ticks, Modes
    <3>2. ASSUME DueIsListed, ModeFollowsList PROVE DueIsListed' /\ ModeFollowsList'
      <4>1. owned = {} /\ applied = {}
        BY <2>0, <2>3, <3>2 DEF TickResolves, TickConfirms, DueIsListed
      <4>2. DueIsListed'
        BY <2>0, <2>3, <3>1, <3>2 DEF TickResolves, TickConfirms, Judging, Between,
           DueIsListed
      <4>3. ModeFollowsList'
        BY <1>1, <3>1, <4>1 DEF ModeFollowsList
      <4> QED BY <4>2, <4>3
    <3> QED BY <2>0, <3>1, <3>2 DEF Modes
  <2>4. CASE TickFails
    <3>1. owned' = owned /\ mode' \in Modes /\ tick' \in Ticks
      BY <2>4 DEF TickFails, Between, Ticks, Modes
    <3>2. ASSUME DueIsListed, ModeFollowsList PROVE DueIsListed' /\ ModeFollowsList'
      <4>1. DueIsListed'
        BY <2>0, <2>4, <3>1, <3>2 DEF TickFails, Between, DueIsListed
      <4>2. ModeFollowsList'
        BY <1>1, <2>0, <2>4, <3>1, <3>2 DEF TickFails, ModeFollowsList, DueIsListed
      <4> QED BY <4>1, <4>2
    <3> QED BY <2>0, <3>1, <3>2
  <2> QED BY <2>1, <2>2, <2>3, <2>4
<1>4. WatchTypeOK' /\ GoneIsIdle'
  BY <1>1, <1>2, <1>3 DEF WatchInv, WatchTypeOK, GoneIsIdle
<1> QED BY <1>1, <1>2, <1>3, <1>4 DEF WatchInv, StopReleasesApplied

(* A recovery leaves no curve, or only some of them.                       *)
LEMMA RecoveringKeepsWatchInv ==
  ASSUME WatchInv, HelperRecovers \/ HelperFailsRecovery
  PROVE  WatchInv'
<1>1. /\ UNCHANGED <<danger, owned, mode, call, probe, life, late, asked, disturbed>>
      /\ custom' \subseteq custom
      /\ applied' = applied \intersect custom'
  BY DEF HelperRecovers, HelperFailsRecovery, Partly, Tracked, control
<1>2. life = "up"
  BY DEF HelperRecovers, HelperFailsRecovery, WatchInv, GoneIsIdle, Between
<1>3. Due' \subseteq Due
  BY <1>1 DEF Due
<1>4. tick' \in Ticks
  <2>1. tick.pc = "restoring" => tick.watched \subseteq Fans
    BY DEF WatchInv, WatchTypeOK, Ticks
  <2> QED BY <2>1 DEF HelperRecovers, HelperFailsRecovery, Restored, At, Between, Ticks
<1>5. WatchTypeOK' /\ GoneIsIdle'
  BY <1>1, <1>2, <1>4 DEF WatchInv, WatchTypeOK, GoneIsIdle
<1>6. DueIsListed => DueIsListed'
  BY <1>1, <1>3 DEF DueIsListed, HelperRecovers, HelperFailsRecovery, Restored, At,
     Between
<1>7. ModeFollowsList => ModeFollowsList'
  BY <1>1 DEF ModeFollowsList
<1> QED BY <1>1, <1>2, <1>5, <1>6, <1>7 DEF WatchInv, StopReleasesApplied

-----------------------------------------------------------------------------
(* SIGTERM outside a tick: a daemon that stops at once is not in Curve, so *)
(* nothing is applied.                                                     *)
LEMMA TerminateKeepsWatchInv == ASSUME WatchInv, DaemonTerminated PROVE WatchInv'
<1>1. /\ UNCHANGED <<custom, danger, owned, mode, tick, probe, applied, disturbed>>
      /\ life = "up" /\ asked' \in BOOLEAN /\ late' \subseteq Fans /\ call' \in Calls
      /\ life' \in {"up", "stopping", "stopped"}
      /\ life' # "up" => tick = Between
      /\ life' = "stopped" => call' = NoCall /\ mode # "Curve"
      /\ life' # "stopped" => call' = call
  BY DEF DaemonTerminated, Controlled, control, WatchInv, WatchTypeOK, Calls, NoCall
<1>2. WatchTypeOK' /\ GoneIsIdle'
  BY <1>1 DEF WatchInv, WatchTypeOK, GoneIsIdle
<1>3. ASSUME Watching' PROVE DueIsListed' /\ ModeFollowsList'
  <2>1. DueIsListed /\ ModeFollowsList /\ call' = call
    BY <1>1, <1>3 DEF Watching, WatchInv
  <2> QED BY <1>1, <2>1 DEF DueIsListed, Due, ModeFollowsList
<1>4. StopReleasesApplied'
  BY <1>1 DEF WatchInv, ModeFollowsList, StopReleasesApplied
<1> QED BY <1>2, <1>3, <1>4 DEF WatchInv, Watching

(* The end of a daemon, and a new one.                                     *)
LEMMA EndingKeepsWatchInv ==
  ASSUME WatchInv, ExitRestores \/ DaemonKilled \/ DaemonStarts
  PROVE  WatchInv'
<1>1. CASE ExitRestores \/ DaemonKilled
  <2>1. /\ UNCHANGED <<danger, owned, mode, probe, asked, disturbed>>
        /\ custom' \subseteq Fans /\ applied' \subseteq custom'
        /\ life' \in {"stopped", "killed"} /\ late' \subseteq Fans
        /\ call' = NoCall /\ tick' = Between
        /\ life' = "stopped" => applied' = {}
    BY <1>1 DEF ExitRestores, DaemonKilled, Gone, Tracked, control, history, WatchInv,
       WatchTypeOK, Calls
  <2> QED
    BY <2>1 DEF WatchInv, WatchTypeOK, GoneIsIdle, StopReleasesApplied, NoCall,
       Between, Calls, Ticks
<1>2. CASE DaemonStarts
  <2>1. call = NoCall /\ tick = Between
    BY <1>2 DEF DaemonStarts, WatchInv, GoneIsIdle
  <2> QED
    BY <1>2, <2>1 DEF DaemonStarts, WatchInv, WatchTypeOK, GoneIsIdle,
       StopReleasesApplied, NoCall, Between,
       Calls, Ticks, Modes, DueIsListed, Due, ModeFollowsList
<1> QED BY <1>1, <1>2

(* What the hardware and the helper do by themselves.                      *)
LEMMA SurroundingsKeepWatchInv ==
  ASSUME WatchInv,
         \/ ProbeDue \/ ReadingsChange
         \/ \E fan \in Fans : HelperWorksLate(fan) \/ ResetElsewhere(fan)
  PROVE  WatchInv'
<1>1. ASSUME NEW fan \in Fans, HelperWorksLate(fan) PROVE WatchInv'
  BY <1>1 DEF HelperWorksLate, control, WatchInv, WatchTypeOK, GoneIsIdle,
     StopReleasesApplied
<1>2. ASSUME \/ ProbeDue \/ ReadingsChange
             \/ \E fan \in Fans : ResetElsewhere(fan)
      PROVE  WatchInv'
  <2>1. /\ UNCHANGED <<owned, mode, call, tick, life, late, asked, disturbed>>
        /\ custom' \subseteq custom /\ danger' \subseteq Fans
        /\ applied' \subseteq applied /\ applied' \subseteq custom' /\ probe' \in BOOLEAN
    BY <1>2 DEF ProbeDue, ReadingsChange, ResetElsewhere, Tracked, control, history,
       WatchInv,
       WatchTypeOK
  <2>2. WatchTypeOK'
    BY <2>1 DEF WatchInv, WatchTypeOK
  <2>3. Due' \subseteq Due
    BY <2>1 DEF Due
  <2>4. life \in {"stopped", "killed"} => call' = NoCall
    BY <2>1 DEF WatchInv, GoneIsIdle
  <2> QED BY <2>1, <2>2, <2>3, <2>4, ListIsLeftAlone
<1> QED BY <1>1, <1>2

LEMMA StutteringKeepsWatchInv == ASSUME WatchInv, UNCHANGED watchVars PROVE WatchInv'
BY DEF watchVars, control, history, WatchInv, WatchTypeOK, GoneIsIdle, DueIsListed,
   Due, ModeFollowsList,
   StopReleasesApplied

LEMMA NextKeepsWatchInv == WatchInv /\ [WatchNext]_watchVars => WatchInv'
<1> SUFFICES ASSUME WatchInv, [WatchNext]_watchVars PROVE WatchInv'
  OBVIOUS
<1>1. CASE Method
  BY <1>1, CallsKeepWatchInv, ListingKeepsWatchInv, SettingModeKeepsWatchInv DEF Method
<1>2. CASE Telemetry
  BY <1>2, LookingKeepsWatchInv, CorrectingKeepsWatchInv,
     RecoveringKeepsWatchInv DEF Telemetry
<1>3. CASE DaemonTerminated
  BY <1>3, TerminateKeepsWatchInv
<1>4. CASE ExitRestores \/ DaemonKilled \/ DaemonStarts
  BY <1>4, EndingKeepsWatchInv
<1>5. CASE \/ ProbeDue \/ ReadingsChange
           \/ \E fan \in Fans : HelperWorksLate(fan) \/ ResetElsewhere(fan)
  BY <1>5, SurroundingsKeepWatchInv
<1>6. CASE UNCHANGED watchVars
  BY <1>6, StutteringKeepsWatchInv
<1> QED BY <1>1, <1>2, <1>3, <1>4, <1>5, <1>6 DEF WatchNext

LEMMA WatchInvariance == WatchSpec => []WatchInv
BY InitWatchInv, NextKeepsWatchInv, PTL DEF WatchSpec

(* Each variable has its type; what is applied is custom.                  *)
THEOREM FanControlTypes == WatchSpec => []WatchTypeOK
BY WatchInvariance, PTL DEF WatchInv

(* Between two ticks of the telemetry loop, every curve the daemon         *)
(* reported applied is on the list the safety check watches, with the mode *)
(* in which it looks, unless a method did its bookkeeping inside a tick.   *)
THEOREM AppliedCurvesAreWatched == WatchSpec => []AppliedIsWatched
<1>1. WatchInv => AppliedIsWatched
  BY DEF WatchInv, AppliedIsWatched, DueIsListed, ModeFollowsList, Due, NoCall
<1> QED BY <1>1, WatchInvariance, PTL

(* A daemon that stopped on SIGTERM left no applied curve behind.          *)
THEOREM StoppingReleasesCurves == WatchSpec => []StopReleasesApplied
BY WatchInvariance, PTL DEF WatchInv

=============================================================================
