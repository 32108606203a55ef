# A verification project for rog-helper

These TLA+ modules model the parts of rog-helper (the Rust workspace under
`crates/`) in which the order of events matters: when the daemon may trust the
battery's power source, when it may apply a preset on its own, how its telemetry
task shares the hardware with D-Bus calls, who watches a custom fan curve, how
the root helper keeps fans, CPU limits and keyboard lighting consistent when it
is killed or called by two sessions, how settings reach `config.toml`, and what
becomes of a value a user applies in the desktop UI. TLC checks them on small
instances; TLAPS proves the results listed under *Theorems* for every value of
the constants.

Run `tlc -config X.cfg M` for the runs of `PROJECT.json` and `tlapm M.tla` for
the modules named `…Proofs`.

## Inventory

| Part | State it keeps | Operations | What is hard about it |
|---|---|---|---|
| Battery freshness barrier (`rog-core/src/power_freshness.rs`) | required or not, suspended, floor (`not_before`), generation, last accepted reading and source; the clock-gap detector's last reading | `observe`, `invalidate`, `prepare_for_sleep`, `block_missing`, `is_eligible`; detector `observe`, `reset` | lost or late sleep signals, cached readings, two clocks that may step, saturation |
| Automation policy (`rog-core/src/policy.rs`) | enabled, manual override, stable source, candidates with start times, active preset | `observe_power_source…`, `observe_battery_threshold`, `set_*`, `resume`, `reset_for_reconfiguration`; `ComponentRetryState` | dwell and hysteresis over interrupted observations; retry deadlines |
| Daemon automation (`rog-daemon/src/main.rs`: telemetry loop, `process_automation`, `apply_automation_profile`) | `config`, `policy`, `automation_retry`, `automation_status`, `automation_generation`, `power_freshness` | the telemetry tick; pause, resume, set, reset over D-Bus; pause by any manual action; sleep signals | awaits between read and use; three locks; a hardware lock held across awaits |
| Daemon hardware methods | provider handles, `hardware_control_lock` | profile, GPU mode, battery limit, CPU, lighting, fans | they pause automation, then wait for the lock |
| Daemon fan ownership | owned channel ids, fan mode, boost deadline | `set_fan_curve`, `set_fan_auto`, `reset_fans_to_auto`, `set_fan_boost`, safety restore of the telemetry task | unlocked read-modify-write in the telemetry task, lost after a restart |
| Privileged helper, fans (`rog-privileged/src/main.rs`, `rog-providers/src/hwmon.rs`) | marker file, `fan_transaction` with its shutdown gate; `pwm_enable` of the channels | curve transaction, Auto resets, recovery, startup restore, shutdown | kills between steps, failing writes, vanishing channels, calls waiting for polkit |
| Privileged helper, Aura | last request and its device, time of the last attempt | `set_aura_effect` | reports that cannot be read back: partial writes, asusd taking over, replaced devices against duplicate suppression |
| Daemon lighting record (`rog-daemon` `set_lighting`, `aura.rs`, `aura_hid.rs`, `kbd_backlight.rs`) | backend chosen at start, last native request and its outcome | `set_lighting`, `get_lighting` | a keyboard that cannot be asked what it shows; three backends; answers lost with the helper |
| Privileged helper, CPU and charge limit (`rog-providers/src/cpu.rs`, `power_supply.rs`) | sysfs files | multi-policy writes with snapshot, readback and rollback | a step of several failing; transactions of two sessions without a common lock; limits that must not cross |
| Privileged client and fallback (`privileged_client.rs`, `with_privileged_fallback`) | none | direct write, then helper | which error leads to which path |
| Provider connections (`ProviderRetry`) | next attempt, backoff | connect, reconnect | backoff, late answers |
| Configuration store (`rog-core/src/config.rs`, daemon methods) | `config.toml` and the daemon's copy | load, save atomically, validate; set, reset, pause, resume, profile actions | crash between steps, failed save, whole-configuration saves made from an old copy |
| UI, fan-curve editor (`rog-ui`, Cooling page) | selected fan, fields, graph, drafts and baselines per fan, the pending curve | edit, Import Current, tabs, Apply, Auto, Sync; render; the worker | one slot and one error text shared with every other control; answers seen only at a render |
| UI (`rog-ui`) | `EditableDraft` of every control, one-place request slots, settings with a pending save, profile action, reset | Apply, Reset, buttons, tray; the worker's calls and polls | a worker that shares a mutex with GTK callbacks: newer requests, late reports, failed saves |
| CLI (`rog-cli`) | none | one D-Bus call each | |

The telemetry task reads UPower, shows the reading to the barrier, lets the
policy choose, and applies the chosen preset through the component writers. The
barrier, the configuration and the policy are guarded by
`automation_write_gate` and short `RwLock`s, hardware by `hardware_control_lock`;
`automation_generation` tells an operation that its premises have changed. The
daemon calls the root helper over D-Bus; the helper authorizes each call with
polkit and touches sysfs. logind and UPower are external services.

What makes each part correct:

- *Barrier*: battery data is trusted only if UPower refreshed it after whatever
  raised the barrier; suspend is noticed with or without signals.
- *Policy*: a preset is selected only after the full dwell of its source and of its
  level, under the rules in force, and never between a pause and Resume.
- *Retry*: at most three spaced attempts; what is confirmed is left alone; a
  scheduled retry does not hang.
- *Daemon*: a value set by hand is never overwritten before Resume; no write for
  premises that changed while the task waited; the status tells the truth.
- *Helper fans*: whenever it is killed, the marker names every channel to undo; a
  clean stop leaves Auto; nothing enters custom mode behind the shutdown gate.
- *Fan ownership*: a curve the daemon reported applied stays on the list its
  safety check watches, a watched channel in danger gets a recovery, and a clean
  exit leaves none of these curves running.
- *CPU*: a request changes every policy or none; a range is never inverted, also
  while it is rolled back; what is reported as done is what the files hold.
- *Aura*: no effect is written over asusd's; a repeat is skipped only if the
  keyboard already shows it, unless asusd wrote since or an effect broke off
  midway (the helper still remembers the one before).
- *Lighting*: what is reported as accepted is what the keyboard shows, and a request
  changes nothing it does not name, unless someone else wrote, the keyboard was
  replaced, or a repeat was skipped after an effect of the daemon had broken off.
- *Configuration*: the file is whole at any time and has what was confirmed; a
  saved profile is not lost to another save, unless its answer comes between the two
  halves of an edit; UI and daemon end up agreeing, but for the three cases
  listed under *Runs*.
- *UI control*: the last request is the one that counts. A control that is
  insensitive while it waits for its value is released, unless the daemon took
  another value instead, someone changed it, another fan action replaced a
  switch's request, or the Lighting page applied another brightness.
- *Keyboard brightness*: dashboard and Lighting page share a draft and a slot; the
  last request of either counts, and the page waits only while one is under way.
- *Fan-curve editor*: a curve is called confirmed only if it was accepted; a draft
  knows whether it differs from its baseline; a submitted curve is answered,
  unless another fan action took its place or an action removed its answer.

`PROJECT.json` lists every component with its status, and the hazards with the
line at which each bites.

## Modules

| Module | Models | Uses |
|---|---|---|
| `PowerSource` | `PowerSource` and `Option` of it | |
| `BatteryFreshness` | the barrier and the gap detector as operators from a record to a record and a decision | `PowerSource` |
| `PowerFreshness` | the barrier in its environment: handlers, clocks, suspends, readings | `BatteryFreshness` |
| `PowerFreshnessProofs` | theorems about it | `PowerFreshness`, `TLAPS` |
| `PolicyState` | `PolicyState`'s methods as operators; an action is a preset class | `PowerSource` |
| `PresetRules` | how a tick presents a sample to the policy (`Evaluated`, `Blocked`) | `PolicyState` |
| `BootTime` | the clock that dwells and retries share | |
| `PresetSelection` | policy, rules and a tick that works on a copy of the rules, with every D-Bus method that changes them | `PresetRules`, `BootTime` |
| `AutomationRetry` | `ComponentRetryState`, the retry runtime, the order of the components of one operation | `BootTime` |
| `PresetSelectionProofs` | theorems about `PresetSelection` and `AutomationRetry` | both, `TLAPS` |
| `AutomationDaemon` | the whole telemetry tick with locks and awaits, composed of the barrier and the policy operators | `BatteryFreshness`, `PresetRules` |
| `AutomationDaemonProofs` | theorems about it | `AutomationDaemon`, `TLAPS` |
| `ArmedFans` | what the helper promises to its callers: custom only while armed, nothing starts behind the gate, a clean stop leaves nothing | |
| `FanChannels` | the channels and which of them are custom, shared by helper and daemon | |
| `FanHelper` | the helper's fan operations, marker, gate and life cycle; `ImplementsArmedFans` is its refinement | `FanChannels`, `ArmedFans` |
| `FanControl` | the daemon's list of owned channels and fan mode: D-Bus methods, telemetry loop, exit, restart | `FanChannels` |
| `FanHelperProofs` | theorems about `FanHelper`, the refinement among them, and about `FanControl` | `FanHelper`, `FanControl`, `TLAPS` |
| `CpuTransaction` | CPU policy writes: plan, snapshot, write, verify, roll back, final readback, for several sessions | |
| `CpuTransactionProofs` | theorems about it | `CpuTransaction`, `TLAPS` |
| `AuraHelper` | `SetAuraEffect` of the helper with asusd and the device around it | |
| `KeyboardLighting` | `set_lighting` of a daemon with its three backends, as one caller of the helper among others; what it records and reports | `AuraHelper` |
| `KeyboardLightingProofs` | theorems about both | `KeyboardLighting`, `TLAPS` |
| `ConfigStore` | the daemon's configuration methods, the save, kills and power cuts, and the UI's settings with their worker | |
| `ConfigStoreProofs` | theorems about it | `ConfigStore`, `TLAPS` |
| `ControlDraft` | the steps of one control of the UI, of any of five kinds: draft, widgets, request slot, worker, daemon value | |
| `KeyboardBrightness` | all controls: those of `ControlDraft` as they are, and the keyboard's brightness, composed of a `ControlDraft` and the Lighting page that shares its draft and slot | `ControlDraft` |
| `FanPage` | the fan-curve editor, its slot, renders and worker | |
| `DesktopProofs` | theorems about `FanPage`, `ControlDraft` and `KeyboardBrightness` | all three, `TLAPS` |
| `MC…` | values of constants for TLC | |

**State.** Variables carry the names of the code's state, or say it in their
comment: `barrier` is `SharedState.power_freshness`, `retry` and `runtime` are
`automation_retry`, `lock` is `hardware_control_lock`, `marker` the entries of
`/run/rog-helper/fan-control-active`, `op` the operation that holds
`fan_transaction`. Variables under the comment *history* are no part of the
program: they remember what a property refers to.

**Actions.** One action is what a handler does in one critical section or
between two awaits. In `AutomationDaemon` the tick is split at every lock and
await (`TickChecksClocks … TickReports`), so that any D-Bus method may run
between two of its parts; pause and resume go on after they have stored their
change, one lock at a time, and are as many steps (`PauseAutomation … PauseStatus`,
`ResumeAutomation … ResumeStatus`; in `PresetSelection` what they have yet to do is in
`due`). In `FanHelper` the phases of a transaction are
separate steps, so that a kill may come between any two hardware or marker
accesses; other fan calls cannot, because the mutex is held. In `FanControl`
every access of the telemetry loop to the unlocked control state is a step, and a
call of the helper is three: request, work, answer. In `CpuTransaction` a step is
one file access, because nothing locks two sessions against each other. In
`ConfigStore`, `ControlDraft` and `FanPage` a GTK callback, a render or one access of the
worker under the UI's mutex is a step, and a D-Bus call is at least two. Every
failure branch is an action or an alternative (`TickFails`, `ArmUnsynced`,
`WriteFails`, `SaveFails`, `Rejected`, `CallFails`, `Abort`). `KeyboardLighting` adds the
steps of a daemon to those of `AuraHelper`, of whose callers the daemon is one.
`KeyboardBrightness` adds the Lighting page to `ControlDraft`.

**Abstractions.**

- Times are small naturals. In `PowerFreshness` one unit stands for the seconds
  of the wall clock and the milliseconds of the gap tolerance alike. Counters
  saturate at `U64Max`, as `saturating_add` does.
- In `AutomationDaemon` a preset has one setting and rules have no battery
  threshold, retries may be due at any time, and the generation is reduced to
  whether it changed since the operation loaded it; the comments name the
  module that has the detail. Fan curves are the fact that a channel is custom.
- Battery readings are records of source, `UpdateTime`, consistency and age.
- In `FanControl` what the helper does to the channels is taken from what
  `FanHelper` has proved of it: custom channels are armed, so a recovery that
  succeeds resets them all, and a failure may stop anywhere. Temperatures and
  speeds are the set of channels in danger.
- In `CpuTransaction` governors and EPPs are tokens that every policy offers,
  frequencies small integers; the kernel rejects a limit that would cross the
  other. Turbo is one write, and left out.
- In `ConfigStore` a configuration is its saved profiles (absent, as created, as
  edited), a set of preferences and the pause. A power cut leaves the old or the
  new directory entry until the directory is synced, and a file that was not
  synced may be broken; that the directory sync itself works is assumed, as the
  code ignores its failure. A profile's preference link and the fan-sync setting,
  which the UI's worker edits, are left out.
- In `ControlDraft` the value a control sets is a model value, and the daemon is
  its value; other clients may change it at any time.
- In `KeyboardBrightness` the effect on the Lighting page is whether it differs from
  the baseline; a device that changes is a page that is synced.
- In `AuraHelper` and `KeyboardLighting` an effect is its mode and its colour;
  speed, direction and second colour are treated as the colour is. A brightness
  write succeeds, fails, or finds no LED.
- In `FanPage` curves are model values that the validation accepts (Apply is
  insensitive otherwise), a readback is any curve or none, every fan is
  authorized, and all fan actions but Apply are one.
- `POWER_SOURCE_AUTOMATION_ENABLED` is the constant `WritesEnabled`. It is
  `false` in the code at this commit; the runs study the writes the code contains
  for when it is enabled. Likewise the table of verified fan models is empty, so
  that `set_fan_curve` is refused as shipped; `FanHelper` and `FanControl` model
  it as if a model had been entered.

## Runs

Passing runs:

| Run | Question | Bounds, and why they suffice |
|---|---|---|
| `power_freshness` | Is trust given only to readings dated after the event that raised the barrier? Does a cached reading ever clear it, is an unsignalled suspend noticed by the next tick? | clocks to 3, `U64Max` 5, tolerance 1, the wall clock set back once: room for a reading before, during and after a suspend beyond the tolerance, and for the generation to saturate |
| `preset_selection` | Do dwell, hysteresis and the stale copy of the rules ever select too early, under old rules, or before Resume? | dwell 2, time to 7: two selections with threshold dwells; three rule sets; levels below, between and above the thresholds |
| `automation_retry` | Three attempts, spacing, no rewrite, no retry that hangs | delays 1 and 2, time to 5 (saturation included), one invalidation, one preset with two settings and one with a single one |
| `automation_daemon` | Can a write start without a full dwell of uninterrupted observations, a manual value be overwritten, a retry target or the status *applying* outlive their rules? Does every tick end, is a pause eventually shown? | two units of time, dwell 1, a preset for AC only: it is selected, written, paused, resumed and observed again, with any handler between any two steps of a resume, and battery is a source without a preset. One call of pause or resume is under way at a time, which a manual action may pause meanwhile (`PresetSelection` has several), and its steps take no time unit. The safety properties are proved for every value and any choice of presets |
| `fan_helper` | Marker, clean stop and gate under kills, failures and vanishing channels; does it implement `ArmedFans`? | the three ASUS channels; nothing else is bounded |
| `fan_control` | Do applied curves stay watched, are they released by a clean exit, is danger answered? | a channel with a role temperature and one without; one SIGTERM per daemon; any number of restarts |
| `cpu_transaction` | All or nothing, ordered ranges, true successes | two sessions, two policies, governors on both, EPP on one, limits on one with two frequencies: enough for one policy to fail after the other, for a range to cross and for a rollback to meet the other session's write |
| `control_draft` | Is a request forgotten, by either page of the keyboard brightness too, does a page wait for nothing, does a control stay dead without one of the reasons named? | three values (reported, applying, newer draft), brightness 0 among them, and five kinds of control; nothing else is bounded |
| `fan_page` | Is a curve called confirmed that was not, a draft marked wrongly, an editor left dead? | two fans, two curves: another fan, and another curve of the same fan; nothing else is bounded |
| `config_store` | Is the file whole, are confirmed settings and saved profiles kept (unless confirmed between the halves of an edit), do UI and daemon agree, but for the three cases below? | one saved profile (absent, as created, as edited), one preference (automation); any number of crashes, edits and actions |
| `keyboard_lighting` | Does the helper yield to asusd, is a suppressed repeat shown, is what the daemon reports shown, do unnamed fields stay, but for the exceptions above? | two sessions, two effects (one with a colour, one without), three reports as in the code, the device replaced once |

One run ends in a violation, `import_reaches_apply`: `docs/TROUBLESHOOTING.md:415`
says that Import Current reads the curve into the preview, and line 423 that all
eight points are visible before Apply. The handler (`rog-ui/src/main.rs:5662`)
fills the numeric fields with their handlers silenced and leaves the graph alone
unless the fields cannot show the curve, and Apply submits the points of the
graph: after an import it submits the curve from before.

Other differences between documents and code met while modelling are not runs of
their own; each is stated at its hazard in `PROJECT.json`, and the properties
that hold are worded around them:

- `docs/PROVIDER_MATRIX.md:94` says that success means the fixed three-report write
  was accepted. The helper goes on remembering an effect when the next one breaks
  off midway (`rog-privileged/src/main.rs:428-436`): a repeat of the first is skipped
  and succeeds without a report, and the daemon reports it as accepted over a mixed
  keyboard (`SuppressedIsShown` and `AcceptedIsShown` excuse it).
- `docs/ARCHITECTURE.md:110-111` says that Reset discards the local draft and restores
  the latest reported value. Reset of the Lighting page (`rog-ui/src/main.rs:4832-4853`)
  leaves the brightness draft that it shares with the dashboard, and the next render
  (8507) puts it back into the page (`PageResets`, `SyncPage`).
- `docs/GUI_SPEC.md:78-79` says that a submitted draft remains visible until a matching
  report confirms it. A render without a lighting report sets the Lighting page's
  scale to 0 (8789) with its handler listening, which makes 0 the draft
  (`RenderNoLighting`).
- `docs/ARCHITECTURE.md:109-110` says that refreshes never overwrite a dirty user draft.
  `update_reported` (479) takes a report that confirms the value being applied over a
  draft the user has changed since (`UpdateReported`).
- With the wall clock set back during a suspend, a reading already shown clears
  the barrier (`CachedReadingNeverClears` holds until then).
- One setting that has failed for good leaves the other's scheduled retry neither
  run nor cancelled (`ScheduledRetryEnds` excuses it).
- A rule change between the last generation check and the status write leaves the
  old preset reported as last confirmed; as shipped, the status keeps saying
  *blocked for want of a sample* after the sample is fresh again.
- A suspend after a tick's clock check, with logind's signals lost, is not noticed
  before that tick's write.
- A marker with an older helper's entry is cleared while a channel it also names
  may still run its curve; runs and proofs are about the current format.
- A SIGTERM that arrives during the body of a telemetry tick has no listener and
  is lost (`DaemonTerminated` in `FanControl` models it; `StopReleasesApplied` speaks of
  daemons that stop).
- The telemetry loop may take a curve off the list of owned channels that a method
  has just put there (`AppliedIsWatched` holds until a method does its bookkeeping
  inside a tick; the history variable `disturbed` says when).
- A report that changes the value under an untouched control makes the control
  dirty (`ControlDraft` models it).
- Apply of the Lighting page replaces a brightness that waits in the slot, and
  ignores that `begin_apply()` refuses while the dashboard waits for a value. The
  dashboard's request is then never sent; if the value it waits for is not
  reported for another reason, its control stays dead until a lighting request
  fails (`ApplySettles` excuses this: the page applied another brightness).
- One flag says that the Lighting page waits for an answer. The answer to an earlier
  request of the dashboard ends it, and counts as the success of the page's Apply,
  while the page's request is still in the slot (`ApplyingHasRequest` promises only
  the converse).
- A profile action that is answered between the two halves of a settings edit is
  undone by the edit, and by its save in the daemon, after the user was told that
  the profile is saved (`ProfilesKept` says nothing of such a profile).
- UI and daemon may stay different until the next edit or reset in three cases, which
  `SettingsAgree` excuses: the daemon died with a profile action or reset in the file
  whose answer the UI did not get; after a failed save the configuration could not
  be read; it was read over a newer edit that waits and is then saved although the
  UI no longer shows it.
- Lighting: a native request for the brightness alone reports the outcome
  *verified* although the recorded effect is one whose successor failed; errors
  of asusd are answered but not recorded. `AcceptedIsShown` speaks of *accepted*.
- Fan-curve editor: another fan action that takes the slot, or an action that
  clears the answer before the next render, leaves the editor waiting for good
  (`CurveIsAnswered` excuses both; `overtaken` says when), and the sync switch
  likewise; an Auto request may in turn be replaced by a toggle of that switch.
- Any error of any control counts as the failure of the pending curve, which may
  still be applied; and the readback that a render compares may have been polled
  before the call, so that an applied curve is shown as *not confirmed*.
- A curve imported or edited while another is pending is replaced by the latter's
  confirmation and marked clean, while the fields go on showing it.

`reset_configuration` is a deliberate exception to *no selection until explicit
Resume* (`docs/BATTERY_AUTOMATION.md:16`): it restores the default configuration,
which is not paused. `NoSelectionBeforeResume` says so.

Every property of a passing run has a mutant: an operator marked *Mutant* before
the definition it would replace, with which TLC finds the property violated.

**Fairness.** Five specifications have it. `AutomationRetry`: the telemetry
loop keeps ticking (`TickRetries`), a component write ends whatever its outcome
(`Apply`), time passes. `AutomationDaemon`: weak fairness of the task and of a
manual request (tokio runs both, backend calls have timeouts or return), and
strong fairness of `TickLocks`, because a tokio `Mutex` is first come, first
served; both are written out in `Fairness`, which TLC checks faster. `FanControl`: the telemetry loop goes on (its ticker is due every second
and helper calls are answered) and the five seconds between recoveries pass.
`KeyboardBrightness`, for all controls: the worker goes round, and of the polls it
repeats for ever some succeed. `FanPage`: the window is rendered four times a second,
and the worker's calls return and its rounds go on. Users, suspends, signals, crashes, other
clients and sensors are not fair. The other specifications state safety only.

Deadlock is checked in every run; time that stops at its bound leaves other
actions enabled.

## Theorems

Every invariant and action property that a passing run checks is also proved, for
every value of the constants that the named `ASSUME`s of the modules allow. Each
proof has the same shape: an inductive invariant that contains the property or
implies it, one lemma per action (or group of actions) that keeps it, and a last
step that puts the initial states and the steps together. A module
of proofs that serves two components extends both; their specifications have names
of their own (`Spec` and `WatchSpec`, `RetrySpec`, `ControlsSpec`).

`PowerFreshnessProofs`, for every width, tolerance, start time and bound:

| Theorem | Statement |
|---|---|
| `TypeCorrect` | `Spec => []TypeOK` |
| `RefreshBeforeTrust` | a trusted reading is dated after the event that raised the barrier, even if the wall clock is set back |
| `SuspendBlocksTrust` | the barrier stays up between `PrepareForSleep(true)` and the end of suspend |
| `CachedReadingsBlocked` | until the wall clock is set back, no reading already shown clears the barrier |
| `WakeUpsNoticed` | until the wall clock is set back, a suspend beyond the tolerance costs trust from the next clock check on, signalled or not |
| `SourceFlipsRearm`, `EveryLossIsANewGeneration` | no source changes in place; every loss of trust is a new generation |

They rest on the assumptions of `BatteryFreshness` and `PowerFreshness` (the
clock stays below `U64Max`) and on one inductive invariant. What the properties
say of a barrier that is *down* must be known of it while it is *up*: its floor
(`not_before`) is at least the wall clock of the event that raised it and, until
the wall clock is set back, at least any `UpdateTime` shown before it went up. For
`WakeUpsNoticed` the invariant also relates the detector's last reading to the
clocks: a suspend that nothing followed shows as a gap that the next check finds.

`FanHelperProofs`, for any set of channels, when no older helper has left its
marker (`~LegacyMarker`: with the older entry, `CustomIsArmed` and the refinement
fail for the reason given under *Runs*):

| Theorem | Statement |
|---|---|
| `TypeCorrect` | `Spec => []TypeOK` |
| `CrashIsRecoverable` | the marker names every channel in custom mode or having its points written (`CustomIsArmed`, which the run checks as part of the refinement) |
| `CleanStopRestores` | after a clean stop whose restore succeeded all channels are in Auto and the marker is gone |

`CustomIsArmed` alone is not inductive: taking channels out of the marker is safe
only if they are in Auto. `ResetsBeforeForgetting` carries this through the loop
over the channels (those handled are in Auto, unless something failed), and
`ClosedRestoresAll` says that behind the gate only restores of the whole marker
run. `RestoreWhole` is the lemma behind both: a restore covers the marker or does
nothing.

`HelperImplements` adds the refinement: under the mapping of `marker` to `armed`
and `Gate` to `gate`, the initial states are those of `ArmedFans` and every step
of the helper is one of its steps or shows nothing. The same invariant carries it:
a channel that leaves the marker is in Auto, and only a stop whose last restore
succeeded is clean.

The same module has the theorems about the daemon's side, `FanControl`, for any set
of channels, whether or not the daemon may write them itself:

| Theorem | Statement |
|---|---|
| `FanControlTypes` | `WatchSpec => []WatchTypeOK`; an applied curve is a custom one |
| `AppliedCurvesAreWatched` | a curve reported applied is on the list the safety check watches, with the mode in which it looks, until a method does its bookkeeping inside a tick (`AppliedIsWatched`) |
| `StoppingReleasesCurves` | a daemon that stopped on SIGTERM left none of these curves (`StopReleasesApplied`) |

The property looks at the control state between two ticks only. The invariant must
also speak of what a tick carries from one access to the next (`DueIsListed`: the
channels read in Auto have none of the applied curves, the list about to be stored
has all of them) and of a method between its two critical sections (`Due` counts
the curves it is about to report; `ModeFollowsList`: the mode is *Curve* or about
to be set). A tick reads *no owned curve* and the mode in two accesses; the
history variable `disturbed` is what keeps the two parts from mixing.

`PresetSelectionProofs`, for any dwell, levels and rules:

| Theorem | Statement |
|---|---|
| `SelectionsWaitForTheSource` | a preset is selected only for a source that every tick has observed for the dwell (`SelectionNeedsSourceDwell`) |
| `SelectionsWaitForTheLevel` | one of a battery level only if every tick for the dwell has called for it (`SelectionNeedsLevelDwell`) |
| `SelectionsFollowTheRules` | what a tick selects with its copy of the configuration is what the rules in force call for (`SelectedUnderCurrentRules`) |
| `PausedSelectsNothing` | nothing is selected from a pause to its Resume (`NoSelectionBeforeResume`) |

The invariant says that a candidate of the policy is no older than the run of
observations it waits for (`SourceFollowsRun`, `LevelFollowsRun`; a latched level
must also stay within a run of the battery source), that a paused policy waits for
nothing, and that a tick whose copy of the configuration is outdated finds a
policy that waits for nothing (`StaleFindsNothing`): every handler that changes the
rules drops the candidates in the critical section in which it changes them, and
this is why the stale copy does no harm. The lemmas about the operators of
`PolicyState` and `PresetRules` (what each of them drops, keeps and may select)
carry the proof.

The same module has the theorems about `AutomationRetry`, for any presets, delays,
clock and generation bounds:

| Theorem | Statement |
|---|---|
| `AtMostThreeAttempts` | a setting is attempted at most three times before its schedule is forgotten (`ThreeAttempts`) |
| `RetriesWaitTheirDelay` | a later attempt starts no earlier than its delay after the failure of the one before (`RetriesSpaced`) |
| `ConfirmedSettingsRest` | a confirmed setting is not written again while the schedule lasts (`ConfirmedNotRewritten`) |

`Paced` ties the retry state of a component to the history: it counts the attempts
that were started, belongs to the current target, and a deadline is that of the
last failure, of a setting that is not confirmed. `WriteStarted` says of the write
under way that its attempt is counted and has no deadline, unless an invalidation
has forgotten it; without it a result that arrives after the schedule was replaced
could not be placed.

`CpuTransactionProofs`, for any policies, files they offer, requests and callers:

| Theorem | Statement |
|---|---|
| `TransactionIsAllOrNothing` | a success has every file as asked, a plain failure every file as before, unless something else wrote them (`AllOrNothing`) |
| `RangesAreNeverInverted` | no write, and no write of a rollback, asks for a minimum above the maximum (`RangesStayOrdered`) |
| `TwoSuccessesAgree` | of two requests that succeed, one finds every shared file as it asked (`SuccessesAgree`) |

The invariant has a part that holds whoever writes (`TxnOK`: the plan names a file
once, has both limits of a policy or none and never inverts the range on its way,
`PlanOK`; the attempted and the restored files are in the order of the plan,
`InOrder`) and a part for a transaction nobody disturbed (`Calm`: files before the
position are written, those after it and those not attempted are as found; during
a rollback, the files still to be restored are written but for the last). That the
planner makes such plans is a lemma (`PlansAreOK`), and the two `Ordered` lemmas
derive the ordering of each write from `InOrder`. `TwoSuccessesAgree` has the
hypothesis `TwoCallers`: with a third session the shared files may already be on
their way to its values, and the statement is about what the two have read back,
file by file (`Agreement`).

`KeyboardLightingProofs`, first of the helper alone (`AuraHelper`), for any number of
sessions, effects, reports and devices:
`AsusdIsYieldedTo` (`YieldsToAsusd`) and `SuppressionIsRight`
(`SuppressedIsShown`). The invariant says that at most one call is past the lock,
that the owner was asked before each report it sends, and that what the helper
remembers is what the keyboard showed when the last complete effect was written
to that device.

Then of the daemon on top of it, for any sessions, effects, reports and devices:
`AcceptedEffectsAreShown` (`AcceptedIsShown`) and `UnnamedFieldsAreKept`
(`UnnamedFieldsKept`), both unless someone else wrote, the keyboard was replaced, or
the helper skipped a repeat after an effect of this daemon had broken off midway
(the history `mixers` says whose reports the keyboard's mix has, `repeated` that the
recorded answer was such a repeat; an effect that breaks off after the record is no
excuse), and `AsusdIsYieldedToThroughRestarts` (`YieldsToAsusd` with daemons that are
restarted while their call goes on). The invariant is that of
the helper, kept by every step of the composition, and: the effect the
helper answered is what the keyboard shows until it is recorded, and the recorded
one afterwards, under these conditions.

`AutomationDaemonProofs`, for every width, dwell, tolerance and clock bound, any
presets and any choices of them:

| Theorem | Statement |
|---|---|
| `ManualValuesStick` | a value set by hand while automation is paused stays until Resume |
| `RetriesFollowRules` | a retry target belongs to the preset the rules in force choose |
| `ApplyingIsNotLeftBehind` | the status *applying* belongs to an operation, or automation is paused or off |
| `WritesWaitForTheDwell` | a write starts only for a source observed for the full dwell |

None is inductive alone. A held value is safe because the configuration is paused
and nothing is being written (`HeldIsSafe`), which needs the lock (`OneHolder`). A
write has dwelled because, from the first tick that sees a source, whatever the
policy waits for, has selected, or wants to retry has been observed since it began
to wait (`ObservedThroughout`); the lemmas about the policy's operators say that
every pause, resume, rule change and raised barrier forgets the candidate. An
operation of an older generation must be known not to be on display
(`OutdatedIsHidden`), since its last check and its report are apart.

`DesktopProofs`, of the fan-curve editor for any fans and curves: `ConfirmationsAreTrue`
(`ConfirmedWasApplied`), because a confirmation equal to the pending request was
written after Apply (`ConfirmationIsNew`), and `DraftsAreMarked`
(`DirtyMeansDifferent`).

Of the other controls, for any set of values: `RequestsAreNotForgotten`
(`LastRequestCounts`) for every kind of control, for the brightness with both pages
that request it, for the fan sync switch unless another fan action replaced its
request; and `ApplyingIsUnderWay` (`ApplyingHasRequest`). The invariant says that
the last request is in the slot, being sent, or answered; each step of the Lighting
page keeps it because what it puts into the slot is the last request.

`ConfigStoreProofs`, for any profiles and preferences: `ConfirmedSurvives`
(`RestartKeepsConfirmed`), `SavedProfilesStay` (`ProfilesKept`) and
`SettledCopiesAgree` (`SettingsAgree`), with the exceptions listed under *Runs*. The first rests on `FileFollowsMemory`:
what a power cut may leave is the copy confirmed last or the one being saved. The
second needs to know of every copy of the settings, wherever it travels (the edit
under way, the pending save, the call of the worker, the save of the daemon, the
answer of a fetch), that it has the profiles the user was told of (`kept`; not one told of between the
halves of an edit). The third
follows the settings of the UI instead: unless the history says that it was misled
(the three cases), with a save pending they are that save, and otherwise they are what the daemon has
confirmed or is being asked to (`UiFollows`); `SavesCall` and `AnsweredIsCurrent`
say the same of the call in the daemon and of its answer on the way back.

**Only model-checked:** the liveness properties `ScheduledRetryEnds`, `TicksEnd`,
`PauseIsReported`, `DangerIsAnswered`, `ApplySettles` and
`CurveIsAnswered`, because
reasoning with fairness needs `ENABLED`, which is beyond the prover used here; and
the violation, which is a counterexample and no theorem. `TwoSuccessesAgree` says
nothing of three callers; the run has two.

## Not modelled

- Display, GPU mode, keyboard and memory providers are pass-through calls without
  state between them; the CLI makes one D-Bus call and prints; D-Bus formatting,
  validation of field values and packaging have no behaviour of the kind studied
  here.
- Most of the desktop UI is layout and drawing. Of its behaviour, the
  first-run setup and the update page are not modelled.
- The charge limit and turbo are single checked writes; the backoff of
  `ProviderRetry` only delays a reconnect inside the loop that uses it; capability
  negotiation with the helper is a conversion of errors.
- Of profile, GPU mode and charge limit the pause and the hardware lock are in
  `AutomationDaemon`; the pass-through write and the cache of the last value are
  not.

Most of the workspace's lines are of these kinds: widget construction and drawing
(most of `rog-ui`), conversions between sysfs text, D-Bus maps and
structures with their validation (`model.rs`, `hwmon.rs`, `main.rs` of the daemon,
the CLI), and unit tests beside the code. They hold no state that outlives a call,
and a model of them would repeat them. The map therefore covers an eighth of the
lines: those with the state machines, locks, retries, transactions and recoveries.

## Plan

Done, in this order: barrier, its proofs, policy and selection, retry, daemon,
helper fans and their proofs, the refinement of `ArmedFans`, fan ownership, CPU
transactions, UI drafts, configuration store, Aura helper, the keyboard brightness, the daemon's lighting on
top of it, the fan-curve editor, and the proofs of every safety property of the
runs. What would come next: `AutomationDaemon` as an implementation of
`PresetSelection`, proved step by step from the invariant it has; a promise of the
helper that `FanControl` could be composed with, in place of the assumption about a
recovery; profile, GPU mode and charge limit with the daemon's cache, from the UI to
sysfs; the updater and the first-run setup of the UI.
