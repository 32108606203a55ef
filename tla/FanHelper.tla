------------------------------ MODULE FanHelper ------------------------------
(***************************************************************************)
(* Fan control in the root helper (rog-privileged/src/main.rs) with the    *)
(* curve transaction of rog-providers/src/hwmon.rs: custom curves, returns *)
(* to Auto, and the fail-safe marker that lets a helper that was killed    *)
(* put things right when it starts again.                                  *)
(*                                                                         *)
(* fan_transaction is held from the first step of an operation to its      *)
(* last, so at most one is under way (op); a kill may come between any two *)
(* steps, and any file or hardware access may fail.  Other programs do not *)
(* select custom mode.  The marker survives a restart of the helper        *)
(* (RuntimeDirectoryPreserve) and is replaced by a rename, so a crash      *)
(* leaves the old contents or the new.                                     *)
(***************************************************************************)
EXTENDS FanChannels

CONSTANT
  LegacyMarker  \* an older helper may have left its one-entry marker

Legacy == "asus-wmi-curve"

\* What a marker file may name.
Entries == Fans \union (IF LegacyMarker THEN {Legacy} ELSE {})

ASSUME FanHelperAssumption == Legacy \notin Fans /\ LegacyMarker \in BOOLEAN

VARIABLES
  present,  \* channels discovery finds and verifies
  marker,   \* entries of the marker file; no file when empty
  proc,     \* life cycle of the process
  op        \* the operation that holds fan_transaction

vars == <<custom, present, marker, proc, op>>

-----------------------------------------------------------------------------
Done(ok) == [phase |-> "idle", ok |-> ok]
Staging(fan) == [phase |-> "staging", fan |-> fan]
\* Return `left` to Auto, then take `forget` out of the marker.
Resetting(left, forget) ==
  [phase |-> "resetting", left |-> left, failed |-> FALSE, forget |-> forget]

Free == op.phase = "idle"

(* Mutant: an armed channel that is not found is skipped. *)
RestoreAvailableOp ==
  IF marker = {} THEN Done(TRUE) ELSE Resetting(marker \intersect present, marker)

(* restore_fans_if_armed_unlocked: a legacy marker stands for the channels *)
(* found now; otherwise every armed channel must be available.             *)
RestoreOp ==
  IF marker = {} THEN Done(TRUE)
  ELSE IF Legacy \in marker
       THEN IF present = {} THEN Done(FALSE) ELSE Resetting(present, marker)
  ELSE IF marker \subseteq present THEN Resetting(marker, marker)
  ELSE Done(FALSE)

(* The shutdown gate is the flag inside fan_transaction; calls that wait   *)
(* for authorization find it when they lock the transaction.               *)
Mutable == proc \in {"serving", "leaving"} /\ Free

Init ==
  /\ marker \in SUBSET Fans \union (IF LegacyMarker THEN {{Legacy}} ELSE {})
  /\ custom \in SUBSET (IF Legacy \in marker THEN Fans ELSE marker)
  /\ present \in SUBSET Fans
  /\ proc = "stopped"
  /\ op = Done(FALSE)

-----------------------------------------------------------------------------
(* main: restore what an earlier process left, then serve regardless.      *)
Start ==
  /\ proc \in {"stopped", "killed"}
  /\ proc' = "starting"
  /\ op' = RestoreOp
  /\ UNCHANGED <<custom, present, marker>>

Serve ==
  /\ proc = "starting" /\ Free
  /\ proc' = "serving"
  /\ UNCHANGED <<custom, present, marker, op>>

(* set_fan_curve up to its prepare hook, which arms the marker.            *)
SetFanCurve(fan) ==
  /\ Mutable
  /\ fan \in present /\ fan \notin custom
  /\ marker' = marker \union {fan}
  /\ op' = Staging(fan)
  /\ UNCHANGED <<custom, present, proc>>

(* The marker was replaced, but its directory could not be synced.         *)
ArmUnsynced(fan) ==
  /\ Mutable
  /\ fan \in present /\ fan \notin custom
  /\ marker' = marker \union {fan}
  /\ op' = Done(FALSE)
  /\ UNCHANGED <<custom, present, proc>>

(* A point could not be written: roll back to Auto. *)
StageFails ==
  /\ op.phase = "staging"
  /\ op' = Resetting({op.fan}, {op.fan})
  /\ UNCHANGED <<custom, present, marker, proc>>

(* All points are written: select the curve, and verify that by readback.  *)
Enable(verified) ==
  /\ op.phase = "staging"
  /\ custom' = custom \union {op.fan}
  /\ op' = IF verified THEN Done(TRUE) ELSE Resetting({op.fan}, {op.fan})
  /\ UNCHANGED <<present, marker, proc>>

SetFanAuto(fan) ==
  /\ Mutable
  /\ fan \in present
  /\ op' = Resetting({fan}, {fan})
  /\ UNCHANGED <<custom, present, marker, proc>>

(* set_fan_auto without a channel, reset_fans_to_auto *)
ResetFansToAuto ==
  /\ Mutable
  /\ present # {}
  /\ op' = IF marker = {} THEN Resetting(present, {}) ELSE RestoreOp
  /\ UNCHANGED <<custom, present, marker, proc>>

(* recover_fans_if_armed: never prompts, and the gate does not stop it.    *)
RecoverFansIfArmed ==
  /\ proc \in {"serving", "leaving", "closing"} /\ Free
  /\ Legacy \notin marker
  /\ op' = RestoreOp
  /\ UNCHANGED <<custom, present, marker, proc>>

(* reset_asus_channel_to_auto.  A failure may come before or after the     *)
(* hardware obeyed; the other channels are attempted all the same.         *)
ResetChannel(fan) ==
  /\ op.phase = "resetting" /\ fan \in op.left
  /\ fan \in present
  /\ custom' = custom \ {fan}
  /\ op' = [op EXCEPT !.left = @ \ {fan}]
  /\ UNCHANGED <<present, marker, proc>>

ResetChannelFails(fan) ==
  /\ op.phase = "resetting" /\ fan \in op.left
  /\ custom' \in {custom, custom \ {fan}}
  /\ op' = [op EXCEPT !.left = @ \ {fan}, !.failed = TRUE]
  /\ UNCHANGED <<present, marker, proc>>

(* Mutant: the marker forgets channels whose reset failed. *)
FinishResetAnyway ==
  /\ op.phase = "resetting" /\ op.left = {}
  /\ marker' = marker \ op.forget
  /\ op' = Done(~op.failed)
  /\ UNCHANGED <<custom, present, proc>>

(* The marker forgets the channels only after all of them were reset.      *)
FinishReset ==
  /\ op.phase = "resetting" /\ op.left = {}
  /\ marker' = IF op.failed THEN marker ELSE marker \ op.forget
  /\ op' = Done(~op.failed)
  /\ UNCHANGED <<custom, present, proc>>

(* The marker could not be replaced, or not synced.                        *)
FinishResetUnsaved ==
  /\ op.phase = "resetting" /\ op.left = {} /\ ~op.failed
  /\ marker' \in {marker, marker \ op.forget}
  /\ op' = Done(FALSE)
  /\ UNCHANGED <<custom, present, proc>>

-----------------------------------------------------------------------------
(* The main loop ends on a signal, or when idle without a marker.          *)
Terminate ==
  /\ proc = "serving"
  /\ proc' = "leaving"
  /\ UNCHANGED <<custom, present, marker, op>>

IdleExit ==
  /\ proc = "serving" /\ marker = {}
  /\ proc' = "leaving"
  /\ UNCHANGED <<custom, present, marker, op>>

(* shutdown_fans: close the gate and restore in one transaction.           *)
ShutdownFans ==
  /\ proc = "leaving" /\ Free
  /\ proc' = "closing"
  /\ op' = RestoreOp
  /\ UNCHANGED <<custom, present, marker>>

Exit ==
  /\ proc = "closing" /\ Free
  /\ proc' = "stopped"
  /\ UNCHANGED <<custom, present, marker, op>>

(* SIGKILL, a stop timeout, or the exit of the process during a late call. *)
Kill ==
  /\ proc \notin {"stopped", "killed"}
  /\ proc' = "killed"
  /\ op' = Done(FALSE)
  /\ UNCHANGED <<custom, present, marker>>

-----------------------------------------------------------------------------
(* Channels come and go with their driver and their sensor readings; the   *)
(* firmware may leave custom mode by itself.                               *)
Rediscover ==
  /\ present' \in SUBSET Fans
  /\ UNCHANGED <<custom, marker, proc, op>>

FirmwareResets(fan) ==
  /\ custom' = custom \ {fan}
  /\ UNCHANGED <<present, marker, proc, op>>

Next ==
  \/ Start \/ Serve
  \/ \E fan \in Fans :
       \/ SetFanCurve(fan)
       \/ ArmUnsynced(fan)
       \/ SetFanAuto(fan)
       \/ ResetChannel(fan)
       \/ ResetChannelFails(fan)
       \/ FirmwareResets(fan)
  \/ StageFails
  \/ \E verified \in BOOLEAN : Enable(verified)
  \/ ResetFansToAuto
  \/ RecoverFansIfArmed
  \/ FinishReset \/ FinishResetUnsaved
  \/ Terminate \/ IdleExit \/ ShutdownFans \/ Exit \/ Kill
  \/ Rediscover

Spec == Init /\ [][Next]_vars

-----------------------------------------------------------------------------
Operations ==
  [phase : {"idle"}, ok : BOOLEAN]
    \union [phase : {"staging"}, fan : Fans]
    \union [phase : {"resetting"}, left : SUBSET Fans, failed : BOOLEAN,
            forget : SUBSET Entries]

TypeOK ==
  /\ custom \subseteq Fans /\ present \subseteq Fans
  /\ marker \subseteq Entries
  /\ proc \in {"stopped", "starting", "serving", "leaving", "closing", "killed"}
  /\ op \in Operations

(* A channel runs a custom curve, or has its points written, only while    *)
(* the marker names it: whenever the helper is killed, the next one knows  *)
(* what to undo.  "A missing or failed channel leaves the exact marker set *)
(* armed".  A marker of an older helper stands for every channel.          *)
CustomIsArmed ==
  Legacy \notin marker =>
    /\ custom \subseteq marker
    /\ op.phase = "staging" => op.fan \in marker

(* A clean stop leaves Auto and no marker unless its last restore failed,  *)
(* even if a curve is applied after the idle check or a call is still      *)
(* waiting for authorization.                                              *)
CleanStopIsAuto == proc = "stopped" /\ Free /\ op.ok => custom = {} /\ marker = {}

(* The helper as its callers may see it.                                   *)
Gate ==
  IF proc \in {"serving", "leaving"} THEN "open"
  ELSE IF proc = "stopped" /\ op = Done(TRUE) THEN "clean" ELSE "shut"

Armed == INSTANCE ArmedFans WITH armed <- marker, gate <- Gate

(* Every step of the helper is a step of ArmedFans or none that shows: no  *)
(* interleaving of failures, kills, late authorizations and restarts lets  *)
(* a curve start unarmed or behind the gate, the marker forget a channel   *)
(* that still runs one, or a stop pass for clean that is not.              *)
ImplementsArmedFans == Armed!Spec

=============================================================================
