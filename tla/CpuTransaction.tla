---------------------------- MODULE CpuTransaction ----------------------------
(***************************************************************************)
(* CPU policy controls (rog-providers/src/cpu.rs): governor, EPP, power    *)
(* mode and frequency limits are written to every policy that has them, as *)
(* a transaction of planned writes with snapshot, readback and rollback.   *)
(* The daemon (rog-daemon/src/main.rs) then reads the state once more.     *)
(*                                                                         *)
(* A caller is the daemon of a session: its hardware_control_lock admits   *)
(* one request at a time, but the transaction runs in the root helper, or  *)
(* directly, without a lock, so those of two sessions interleave file by   *)
(* file.  Values are tokens for governors and EPPs, and numbers for        *)
(* frequencies.                                                            *)
(***************************************************************************)
EXTENDS Integers, SequencesExt

CONSTANTS
  Callers,
  Policies,
  Offering,    \* the policies with each control, in the order of their names
  Tokens,      \* governors, and EPPs, that every policy offers
  HardwareMin, HardwareMax  \* common frequency bounds, in units of 1 MHz

ASSUME CpuTransactionAssumption ==
  /\ Offering \in [{"governor", "epp", "limits"} -> Seq(Policies)]
  /\ \A control \in DOMAIN Offering : IsInjective(Offering[control])
  /\ HardwareMin \in Nat /\ HardwareMax \in Nat /\ HardwareMin <= HardwareMax

\* The control files that exist: pairs of a policy and a leaf.
Endpoints ==
  (ToSet(Offering["governor"]) \X {"governor"})
    \union (ToSet(Offering["epp"]) \X {"epp"})
    \union (ToSet(Offering["limits"]) \X {"min", "max"})

Frequencies == HardwareMin..HardwareMax
Unset == -1

\* What a file may hold.
Values(e) == IF e[2] \in {"min", "max"} THEN Frequencies ELSE Tokens

VARIABLES
  value,     \* contents of every endpoint
  txn,       \* the request of each caller
  disturbed  \* history: another wrote the caller's endpoints meanwhile

vars == <<value, txn, disturbed>>

-----------------------------------------------------------------------------
Requests ==
  [kind : {"governor", "epp"}, token : Tokens]
    \union [kind : {"mode"}, governor : Tokens, epp : Tokens]
    \union ([kind : {"limits"}, min : Frequencies \union {Unset},
             max : Frequencies \union {Unset}] \ [kind : {"limits"}, min : {Unset}, max : {Unset}])

Idle == [phase |-> "idle"]

\* The phases of a request: what the code has in hand at each.
Planned(req, plan) == [phase |-> "planned", req |-> req, plan |-> plan]
Writing(t, before) ==
  [phase |-> "writing", req |-> t.req, plan |-> t.plan, before |-> before,
   at |-> 1, attempted |-> <<>>]
Verifying(t, unread) ==
  [phase |-> "verifying", req |-> t.req, plan |-> t.plan, before |-> t.before,
   attempted |-> t.attempted, unread |-> unread]
Restoring(t, attempted) ==
  [phase |-> "restoring", plan |-> t.plan, before |-> t.before,
   left |-> attempted, broken |-> FALSE]
Done(t, result, before) ==
  [phase |-> "done", plan |-> t.plan, before |-> before, result |-> result]

\* One planned write: CpuWrite, and those of a choice to every policy.
Write(e, v) == [path |-> e, expected |-> value[e], value |-> v]

ToEvery(leaf, v) ==
  [i \in 1..Len(Offering[leaf]) |-> Write(<<Offering[leaf][i], leaf>>, v)]

\* effective_frequency_range: a limit that is not set stays as it is.
Effective(limit, e) == IF limit = Unset THEN value[e] ELSE limit

(* Mutant: the minimum always goes first. *)
LimitsOfMinFirst(p, req) ==
  <<Write(<<p, "min">>, Effective(req.min, <<p, "min">>)),
    Write(<<p, "max">>, Effective(req.max, <<p, "max">>))>>

(* The order of the two writes keeps the range from being inverted.        *)
LimitsOf(p, req) ==
  LET min == Write(<<p, "min">>, Effective(req.min, <<p, "min">>))
      max == Write(<<p, "max">>, Effective(req.max, <<p, "max">>))
  IN IF max.value < value[<<p, "min">>] THEN <<min, max>> ELSE <<max, min>>

Plan(req) ==
  CASE req.kind \in {"governor", "epp"} -> ToEvery(req.kind, req.token)
    [] req.kind = "mode" -> ToEvery("governor", req.governor) \o ToEvery("epp", req.epp)
    [] req.kind = "limits" ->
         [i \in 1..(2 * Len(Offering["limits"])) |->
            LimitsOf(Offering["limits"][(i + 1) \div 2], req)[2 - (i % 2)]]

(* Some policy has the control, and no policy's range would be inverted.   *)
Valid(req) ==
  /\ Plan(req) # <<>>
  /\ req.kind = "limits" =>
       \A p \in ToSet(Offering["limits"]) :
         Effective(req.min, <<p, "min">>) <= Effective(req.max, <<p, "max">>)

Touched(plan) == {plan[i].path : i \in DOMAIN plan}
Active(c) == txn[c].phase # "idle"

Becomes(c, next) == txn' = [txn EXCEPT ![c] = next]

\* A write to an endpoint disturbs the other callers that have it in hand.
Disturbs(by, e) ==
  disturbed' = [c \in Callers |->
    disturbed[c] \/ (c # by /\ Active(c) /\ e \in Touched(txn[c].plan))]

Ordered(v) == \A e \in Endpoints : e[2] = "min" => v[e] <= v[<<e[1], "max">>]

\* The kernel keeps the frequency limits of a policy ordered.
Accepts(e, v) == Ordered([value EXCEPT ![e] = v])

\* What a failed or clamped write may leave in a file.
Corrupted(e) == {[value EXCEPT ![e] = v] : v \in {w \in Values(e) : Accepts(e, w)}}

Init ==
  /\ value \in {v \in [Endpoints -> Tokens \union Frequencies] :
                  (\A e \in Endpoints : v[e] \in Values(e)) /\ Ordered(v)}
  /\ txn = [c \in Callers |-> Idle]
  /\ disturbed = [c \in Callers |-> FALSE]

-----------------------------------------------------------------------------
(* The request is validated against the policies as they are read now;     *)
(* each write is planned with the value it expects to replace.             *)
Begin(c, req) ==
  /\ txn[c].phase = "idle"
  /\ Valid(req)
  /\ Becomes(c, Planned(req, Plan(req)))
  /\ disturbed' = [disturbed EXCEPT ![c] = FALSE]
  /\ UNCHANGED value

(* The snapshot: nothing is written if a file changed since it was read,   *)
(* or cannot be read.                                                      *)
Snapshot(c) ==
  LET plan == txn[c].plan
      before == [e \in Touched(plan) |-> value[e]]
  IN /\ txn[c].phase = "planned"
     /\ \/ /\ \A i \in DOMAIN plan : plan[i].expected = value[plan[i].path]
           /\ Becomes(c, Writing(txn[c], before))
        \/ Becomes(c, Done(txn[c], "refused", before))
     /\ UNCHANGED <<value, disturbed>>

\* The operation a writing transaction is at.
Operation(c) == txn[c].plan[txn[c].at]
AtWrite(c) == txn[c].phase = "writing" /\ txn[c].at \in DOMAIN txn[c].plan

SkipUnchanged(c) ==
  /\ AtWrite(c) /\ txn[c].before[Operation(c).path] = Operation(c).value
  /\ Becomes(c, [txn[c] EXCEPT !.at = @ + 1])
  /\ UNCHANGED <<value, disturbed>>

(* write_sysfs: the value is written and read back.                        *)
WriteNext(c) ==
  LET op == Operation(c)
  IN /\ AtWrite(c) /\ txn[c].before[op.path] # op.value
     /\ Accepts(op.path, op.value)
     /\ value' = [value EXCEPT ![op.path] = op.value]
     /\ Becomes(c, [txn[c] EXCEPT !.at = @ + 1, !.attempted = Append(@, op.path)])
     /\ Disturbs(c, op.path)

(* Mutant: a write counts as attempted once it has succeeded. *)
WriteFailsUncounted(c) ==
  LET op == Operation(c)
  IN /\ AtWrite(c) /\ txn[c].before[op.path] # op.value
     /\ value' \in Corrupted(op.path)
     /\ Becomes(c, Restoring(txn[c], txn[c].attempted))
     /\ Disturbs(c, op.path)

(* A write that fails, or does not read back, may have had an effect.      *)
WriteFails(c) ==
  LET op == Operation(c)
  IN /\ AtWrite(c) /\ txn[c].before[op.path] # op.value
     /\ value' \in Corrupted(op.path)
     /\ Becomes(c, Restoring(txn[c], Append(txn[c].attempted, op.path)))
     /\ Disturbs(c, op.path)

(* Mutant: each write has already been read back. *)
AllWrittenTrusted(c) ==
  /\ txn[c].phase = "writing" /\ txn[c].at \notin DOMAIN txn[c].plan
  /\ Becomes(c, Verifying(txn[c], {}))
  /\ UNCHANGED <<value, disturbed>>

(* Every target is read once more, in no particular order.                 *)
AllWritten(c) ==
  /\ txn[c].phase = "writing" /\ txn[c].at \notin DOMAIN txn[c].plan
  /\ Becomes(c, Verifying(txn[c], Touched(txn[c].plan)))
  /\ UNCHANGED <<value, disturbed>>

Verify(c, e) ==
  /\ txn[c].phase = "verifying" /\ e \in txn[c].unread
  /\ \/ /\ \E i \in DOMAIN txn[c].plan :
              txn[c].plan[i].path = e /\ txn[c].plan[i].value = value[e]
        /\ Becomes(c, [txn[c] EXCEPT !.unread = @ \ {e}])
     \/ Becomes(c, Restoring(txn[c], txn[c].attempted))
  /\ UNCHANGED <<value, disturbed>>

(* rollback_cpu_writes: the last write first; one that fails is noted.     *)
Restore(c, works) ==
  LET e == Last(txn[c].left)
  IN /\ txn[c].phase = "restoring" /\ txn[c].left # <<>>
     /\ works => Accepts(e, txn[c].before[e])
     /\ value' \in IF works THEN {[value EXCEPT ![e] = txn[c].before[e]]} ELSE Corrupted(e)
     /\ Becomes(c, [txn[c] EXCEPT !.left = Front(@), !.broken = @ \/ ~works])
     /\ Disturbs(c, e)

Restored(c) ==
  /\ txn[c].phase = "restoring" /\ txn[c].left = <<>>
  /\ Becomes(c, Done(txn[c], IF txn[c].broken THEN "broken" ELSE "failed",
                     txn[c].before))
  /\ UNCHANGED <<value, disturbed>>

(* cpu_request_readback_matches: governors and EPPs are read of every      *)
(* policy, and must be the same; frequency limits only of the first.  For  *)
(* a mode another token of its preference lists would do as well.          *)
Matches(req, plan) ==
  LET first == Head(Offering["limits"])
  IN CASE req.kind = "limits" ->
            /\ req.min \in {Unset, value[<<first, "min">>]}
            /\ req.max \in {Unset, value[<<first, "max">>]}
       [] req.kind \in {"governor", "epp"} ->
            \A i \in DOMAIN plan : value[plan[i].path] = plan[i].value
       [] req.kind = "mode" ->
            \A i, j \in DOMAIN plan :
              plan[i].path[2] = plan[j].path[2] => value[plan[i].path] = value[plan[j].path]

Confirm(c) ==
  /\ txn[c].phase = "verifying" /\ txn[c].unread = {}
  /\ \/ /\ Matches(txn[c].req, txn[c].plan)
        /\ Becomes(c, Done(txn[c], "ok", txn[c].before))
     \/ Becomes(c, Done(txn[c], "unconfirmed", txn[c].before))
  /\ UNCHANGED <<value, disturbed>>

Return(c) ==
  /\ txn[c].phase = "done"
  /\ Becomes(c, Idle)
  /\ UNCHANGED <<value, disturbed>>

Step(c) ==
  \/ \E req \in Requests : Begin(c, req)
  \/ Snapshot(c) \/ SkipUnchanged(c) \/ WriteNext(c) \/ WriteFails(c)
  \/ AllWritten(c)
  \/ \E e \in Endpoints : Verify(c, e)
  \/ \E works \in BOOLEAN : Restore(c, works)
  \/ Restored(c) \/ Confirm(c) \/ Return(c)

Next == \E c \in Callers : Step(c)

Spec == Init /\ [][Next]_vars

-----------------------------------------------------------------------------
Ended(c, result) == txn[c].phase = "done" /\ txn[c].result = result

Holds(plan, e) == \E i \in DOMAIN plan : plan[i].path = e /\ plan[i].value = value[e]

(* Unless another writes the same files meanwhile, a request takes effect  *)
(* on every policy or, when it fails, on none: whichever write failed, and *)
(* whatever that write left behind.                                        *)
AllOrNothing ==
  \A c \in Callers : ~disturbed[c] =>
    /\ Ended(c, "ok") => \A e \in Touched(txn[c].plan) : Holds(txn[c].plan, e)
    /\ Ended(c, "failed") \/ Ended(c, "refused") =>
         \A e \in Touched(txn[c].plan) : value[e] = txn[c].before[e]

(* No write, and no write of a rollback, asks for a minimum above the      *)
(* maximum of its policy, which the kernel would refuse or clamp, as long  *)
(* as nothing else wrote the policy and no write of the rollback failed.   *)
RangesStayOrdered ==
  \A c \in Callers : ~disturbed[c] =>
    /\ AtWrite(c) => Accepts(Operation(c).path, Operation(c).value)
    /\ txn[c].phase = "restoring" /\ ~txn[c].broken /\ txn[c].left # <<>> =>
         Accepts(Last(txn[c].left), txn[c].before[Last(txn[c].left)])

(* Two requests that both succeed, however they interleave, leave the      *)
(* files they share as one of them asked: never a governor of the one on   *)
(* this policy and of the other on that.                                   *)
SuccessesAgree ==
  \A c, d \in Callers : c # d /\ Ended(c, "ok") /\ Ended(d, "ok") =>
    LET shared == Touched(txn[c].plan) \intersect Touched(txn[d].plan)
    IN \/ \A e \in shared : Holds(txn[c].plan, e)
       \/ \A e \in shared : Holds(txn[d].plan, e)

=============================================================================
