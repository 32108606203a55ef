-------------------------- MODULE AutomationRetry --------------------------
(***************************************************************************)
(* ComponentRetryState of rog-core/src/policy.rs and the daemon's use of   *)
(* it: one operation at a time applies the two settings of a preset, each  *)
(* with up to three attempts, and every invalidation of the automation     *)
(* forgets the schedule (rog-daemon/src/main.rs, AutomationRetryRuntime).  *)
(*                                                                         *)
(* A component's outcome is any the write and its readback may have.  A    *)
(* profile stands for an action with its profile id: the code compares     *)
(* both, and the action fixes the power source of its retry keys.          *)
(***************************************************************************)
EXTENDS Integers, Sequences, BootTime

CONSTANTS
  FirstDelay,     \* wait after the first failed attempt
  SecondDelay,    \* wait after the second
  MaxGeneration,  \* bound on automation_generation
  Profiles,       \* ids of the saved presets
  Unwanted,       \* marks a setting a preset leaves alone
  Desired         \* Desired[profile][component]: the value or Unwanted

Components == {"platform_profile", "battery_charge_limit"}

ASSUME RetryAssumption ==
  /\ MaxTime \in Nat /\ MaxGeneration \in Nat
  /\ FirstDelay \in Nat \ {0} /\ SecondDelay \in Nat \ {0}
  /\ \A profile \in Profiles : Components = DOMAIN Desired[profile]

VARIABLES
  runtime,     \* SharedState.automation_retry
  op,          \* the apply_automation_profile call in progress
  generation,  \* SharedState.automation_generation
  \* history, per component since its schedule was last forgotten
  starts,      \* attempts started
  failedAt     \* when the last one failed

retryVars == <<runtime, op, now, generation, starts, failedAt>>

-----------------------------------------------------------------------------
(* ComponentRetryState *)
NotScheduled == -1

NewRetry(key, gen) ==
  [key |-> key, generation |-> gen, attempts |-> 0, next |-> NotScheduled,
   confirmed |-> FALSE, failed |-> FALSE]

Rekeyed(r, key, gen) ==
  IF r.key = key /\ r.generation = gen THEN r ELSE NewRetry(key, gen)

(* Mutant: a retry need not wait for its deadline. *)
ReadyEarly(r, at) == ~r.failed /\ (r.attempts = 0 \/ r.next # NotScheduled)

(* Mutant: no deadline counts as a deadline that has passed. *)
ReadyUnscheduled(r, at) == ~r.failed /\ (r.attempts = 0 \/ at >= r.next)

(* Mutant: a deadline must be exceeded. *)
ReadyLate(r, at) ==
  ~r.failed /\ (r.attempts = 0 \/ (r.next # NotScheduled /\ at > r.next))

Ready(r, at) ==
  ~r.failed /\ (r.attempts = 0 \/ (r.next # NotScheduled /\ at >= r.next))

Started(r) ==
  [r EXCEPT !.attempts = IF @ < 3 THEN @ + 1 ELSE 3,
            !.next = NotScheduled, !.confirmed = FALSE]

After(at, delay) == IF at + delay > MaxTime THEN MaxTime ELSE at + delay

(* Mutant: every failure schedules another attempt. *)
FailedAttemptForever(r, at) ==
  [r EXCEPT !.next = After(at, IF r.attempts = 1 THEN FirstDelay ELSE SecondDelay)]

FailedAttempt(r, at) ==
  CASE r.attempts = 1 -> [r EXCEPT !.next = After(at, FirstDelay)]
    [] r.attempts = 2 -> [r EXCEPT !.next = After(at, SecondDelay)]
    [] r.attempts \notin {1, 2} ->
         [r EXCEPT !.next = NotScheduled, !.confirmed = FALSE, !.failed = TRUE]

Confirmed(r) ==
  [r EXCEPT !.next = NotScheduled, !.confirmed = TRUE, !.failed = FALSE]

-----------------------------------------------------------------------------
(* AutomationRetryRuntime: components without an entry hold NewRetry of an *)
(* empty key, what or_default() creates.                                   *)
NoTarget == [profile |-> "None"]
Default == NewRetry(Unwanted, 0)
Forgotten == [target |-> NoTarget, components |-> [c \in Components |-> Default]]

Idle == [phase |-> "idle"]
Order == <<"platform_profile", "battery_charge_limit">>
Operation(profile) ==
  [phase |-> "begin", profile |-> profile, generation |-> generation,
   at |-> now, left |-> Order]

Component == Head(op.left)
Key == Desired[op.profile][Component]
Advanced ==
  IF Len(op.left) = 1 THEN Idle
  ELSE [op EXCEPT !.left = Tail(@), !.phase = "begin"]

None == [c \in Components |-> 0]
Forget ==
  /\ runtime' = Forgotten
  /\ starts' = None /\ failedAt' = None

RetryInit ==
  /\ runtime = Forgotten
  /\ op = Idle
  /\ now = 0 /\ generation = 0
  /\ starts = None /\ failedAt = None

-----------------------------------------------------------------------------
(* The policy selected a preset.  It repeats a selection only after a reset *)
(* that forgets the target too.                                            *)
TickSelects(profile) ==
  /\ op = Idle
  /\ runtime.target # [profile |-> profile, generation |-> generation]
  /\ op' = Operation(profile)
  /\ UNCHANGED <<runtime, now, generation, starts, failedAt>>

(* retry_action_if_due: the policy selected nothing. *)
TickRetries ==
  LET profile == runtime.target.profile
      wanted == {c \in Components : Desired[profile][c] # Unwanted}
      rekeyed == [c \in Components |->
                    IF c \in wanted
                    THEN Rekeyed(runtime.components[c], Desired[profile][c], generation)
                    ELSE runtime.components[c]]
  IN  /\ op = Idle
      /\ runtime.target # NoTarget
      /\ runtime.target.generation = generation
      /\ \A c \in Components : ~runtime.components[c].failed
      /\ runtime' = [runtime EXCEPT !.components = rekeyed]
      /\ op' = IF \E c \in wanted : Ready(rekeyed[c], now)
               THEN Operation(profile) ELSE op
      /\ UNCHANGED <<now, generation, starts, failedAt>>

(* A tick that finds automation off, paused, or its source not stable.     *)
TickForgets ==
  /\ op = Idle
  /\ Forget
  /\ UNCHANGED <<op, now, generation>>

(* A rule change, a pause or a raised barrier, at any time. *)
Invalidated ==
  /\ generation < MaxGeneration
  /\ generation' = generation + 1
  /\ Forget
  /\ UNCHANGED <<op, now>>

(* begin_component_retry and the first preflight, for one component.       *)
BeginComponent ==
  /\ op.phase = "begin"
  /\ LET target == [profile |-> op.profile, generation |-> op.generation]
         kept == runtime.target = target
         before == IF kept THEN runtime ELSE [Forgotten EXCEPT !.target = target]
         r == Rekeyed(before.components[Component], Key, op.generation)
     IN  IF Len(op.left) < Len(Order) /\ generation # op.generation
         THEN op' = Idle /\ UNCHANGED <<runtime, starts, failedAt>>
         ELSE IF Key = Unwanted
         THEN op' = Advanced /\ UNCHANGED <<runtime, starts, failedAt>>
         ELSE IF ~Ready(r, op.at)
         THEN /\ op' = Advanced
              /\ runtime' = [before EXCEPT !.components[Component] = r]
              /\ starts' = IF kept THEN starts ELSE None
              /\ failedAt' = IF kept THEN failedAt ELSE None
         ELSE IF generation # op.generation
         THEN op' = Advanced /\ Forget
         ELSE /\ op' = [op EXCEPT !.phase = "write"]
              /\ runtime' = [before EXCEPT !.components[Component] = Started(r)]
              /\ starts' = [(IF kept THEN starts ELSE None) EXCEPT ![Component] = @ + 1]
              /\ failedAt' = IF kept THEN failedAt ELSE None
  /\ UNCHANGED <<now, generation>>

(* finish_component_retry.  An invalidation during the write has removed   *)
(* the component's entry.                                                  *)
FinishConfirmed ==
  /\ op.phase = "write"
  /\ op' = Advanced
  /\ runtime' = IF runtime.target = NoTarget THEN runtime
                ELSE [runtime EXCEPT !.components[Component] = Confirmed(@)]
  /\ UNCHANGED <<now, generation, starts, failedAt>>

FinishFailed ==
  /\ op.phase = "write"
  /\ op' = Advanced
  /\ IF runtime.target = NoTarget THEN Forget
     ELSE /\ runtime' = [runtime EXCEPT !.components[Component] = FailedAttempt(@, now)]
          /\ failedAt' = [failedAt EXCEPT ![Component] = now]
          /\ UNCHANGED starts
  /\ UNCHANGED <<now, generation>>

(* The second preflight refused, or the clock could not be read. *)
FinishBlocked ==
  /\ op.phase = "write"
  /\ op' = Advanced
  /\ Forget
  /\ UNCHANGED <<now, generation>>

RetryTimePasses ==
  /\ now < MaxTime
  /\ now' = now + 1
  /\ UNCHANGED <<runtime, op, generation, starts, failedAt>>

Apply == BeginComponent \/ FinishConfirmed \/ FinishFailed \/ FinishBlocked

RetryNext ==
  \/ \E profile \in Profiles : TickSelects(profile)
  \/ TickRetries
  \/ TickForgets
  \/ Invalidated
  \/ BeginComponent
  \/ FinishConfirmed
  \/ FinishFailed
  \/ FinishBlocked
  \/ RetryTimePasses

(* The telemetry task keeps ticking and time passes; a write ends, whatever*)
(* its outcome.                                                            *)
Fairness == WF_retryVars(TickRetries) /\ WF_retryVars(Apply) /\ WF_retryVars(RetryTimePasses)

RetrySpec == RetryInit /\ [][RetryNext]_retryVars /\ Fairness

-----------------------------------------------------------------------------
Keys == {Desired[p][c] : p \in Profiles, c \in Components} \union {Unwanted}
RetryStates ==
  [key : Keys, generation : 0 .. MaxGeneration, attempts : 0 .. 3,
   next : 0 .. MaxTime \union {NotScheduled}, confirmed : BOOLEAN, failed : BOOLEAN]
Targets == [profile : Profiles, generation : 0 .. MaxGeneration]
Operations ==
  [phase : {"begin", "write"}, profile : Profiles, generation : 0 .. MaxGeneration,
   at : 0 .. MaxTime, left : {Order, Tail(Order)}]

TypeOK ==
  /\ runtime \in [target : Targets \union {NoTarget},
                  components : [Components -> RetryStates]]
  /\ op \in Operations \union {Idle}
  /\ now \in 0 .. MaxTime /\ generation \in 0 .. MaxGeneration
  /\ starts \in [Components -> Nat] /\ failedAt \in [Components -> 0 .. MaxTime]

(* No setting is attempted more than three times before its schedule is    *)
(* forgotten, whether a tick retries or the policy selects again.          *)
ThreeAttempts == \A c \in Components : starts[c] <= 3

(* The second and third attempts wait their delays after the last failure, *)
(* though a retry of one component begins both.                            *)
RetriesSpaced ==
  [][\A c \in Components :
       starts[c] > 0 /\ starts'[c] > starts[c] =>
         op.at >= After(failedAt[c], IF starts[c] = 1 THEN FirstDelay ELSE SecondDelay)]_retryVars

(* A setting whose readback confirmed it is not written again when the     *)
(* other setting of the preset is retried.                                 *)
ConfirmedNotRewritten ==
  [][\A c \in Components :
       starts'[c] > starts[c] /\ starts[c] > 0 => ~runtime.components[c].confirmed]_retryVars

Scheduled(c) == runtime.components[c].next # NotScheduled

(* A scheduled retry does not wait forever: it is started or cancelled, or *)
(* the other setting has failed for good.                                  *)
ScheduledRetryEnds ==
  \A c \in Components :
    Scheduled(c) ~> ~Scheduled(c) \/ \E d \in Components : runtime.components[d].failed

=============================================================================
