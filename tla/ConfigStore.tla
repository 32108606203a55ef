------------------------------ MODULE ConfigStore ------------------------------
(***************************************************************************)
(* The settings: the copy the session daemon owns, the file it saves them  *)
(* in, and the copy the desktop UI edits.                                  *)
(*                                                                         *)
(* The daemon changes its copy in one method at a time (the config lock),  *)
(* and saves through a temporary file that it syncs and renames; it can be *)
(* killed between any two steps, and so can the machine.  The UI edits its *)
(* copy in the GTK thread and hands the whole of it to its worker, which   *)
(* also creates, updates and deletes saved profiles; the two threads share *)
(* a mutex that persist_settings_change releases between its read and its  *)
(* write.                                                                  *)
(***************************************************************************)
CONSTANTS
  Profiles,  \* saved profiles, by their name
  Keys,      \* preferences the user switches on and off
  Automation \* the preference that enables automation

ASSUME ConfigStoreAssumption == Automation \in Keys

VARIABLES
  memory,      \* SharedState.config of the daemon
  up,          \* the daemon runs
  saving,      \* the change a method is saving, with the lock held
  file,        \* config.toml as a process reads it
  outcomes,    \* what config.toml may hold after a power cut
  settings,    \* the UI's copy
  pending,     \* pending_config_save
  wantsReset,  \* pending_config_reset
  wantsAction, \* pending_saved_profile_action
  editing,     \* a change between the two halves of persist_settings_change
  worker,      \* what the UI worker waits for, and the answer once it is there
  unsaved,     \* history: a pause is in memory only
  kept,        \* history: the profiles the user was told are saved, with no
               \* reset and no edit of a preference under way
  misled       \* history: an answer was lost, or taken over an edit that waits,
               \* and the user has neither edited nor reset since

daemon == <<memory, up, saving>>
disk == <<file, outcomes>>
ui == <<settings, pending, wantsReset, wantsAction, editing>>
told == <<kept, misled>>
vars == <<daemon, disk, ui, worker, unsaved, told>>

Nothing == [kind |-> "none"]
Broken == [kind |-> "broken"]
Contents == {"absent", "first", "edited"} \* of a saved profile
NoProfiles == [p \in Profiles |-> "absent"]
Configs ==
  [profiles: [Profiles -> Contents], prefs: SUBSET Keys, paused: BOOLEAN]
Defaults == [profiles |-> NoProfiles, prefs |-> {}, paused |-> FALSE]

SetOp(config) == [kind |-> "set", config |-> config]
ProfileOp(kind, p) == [kind |-> kind, profile |-> p]
PlainOp(kind) == [kind |-> kind]
ProfileOps == {ProfileOp(k, p): k \in {"create", "update", "delete"}, p \in Profiles}
Edits(op) == op.kind \in {"create", "update", "delete"}

-----------------------------------------------------------------------------
(* The daemon.                                                             *)

\* insert_profile, replace_profile, remove_profile on the profiles of c.
ContentOf(op) ==
  CASE op.kind = "create" -> "first"
    [] op.kind = "update" -> "edited"
    [] op.kind = "delete" -> "absent"

WithProfile(c, op) == [c EXCEPT !.profiles[op.profile] = ContentOf(op)]

\* What the daemon's copy becomes if op goes through.
Applied(op) ==
  CASE Edits(op) -> WithProfile(memory, op)
    [] op.kind = "set" -> [op.config EXCEPT !.paused = memory.paused]
    [] op.kind = "reset" -> Defaults
    [] op.kind \in {"pause", "manual"} -> [memory EXCEPT !.paused = TRUE]
    [] op.kind = "resume" -> [memory EXCEPT !.paused = FALSE]

\* A profile is created under a free name, and exists to be changed.
Rejected(op) ==
  Edits(op) /\ (op.kind = "create") = (memory.profiles[op.profile] # "absent")

\* pause_automation_for_manual_action does nothing otherwise.
Pauses(op) ==
  op.kind = "manual" => Automation \in memory.prefs /\ ~memory.paused

Begin(op, caller) ==
  /\ up /\ saving = Nothing /\ ~Rejected(op) /\ Pauses(op)
  /\ saving' = [kind |-> op.kind, config |-> Applied(op), caller |-> caller,
                temp |-> "written"]
  /\ UNCHANGED <<memory, up>>

\* The temporary file is written, synced and renamed over config.toml.
SyncTemp ==
  /\ saving # Nothing /\ saving.temp = "written"
  /\ saving' = [saving EXCEPT !.temp = "synced"]
  /\ UNCHANGED <<memory, up, disk, ui, worker, unsaved, told>>

\* Mutant: the sync is skipped.
RenameUnsynced ==
  /\ saving # Nothing /\ saving.temp = "written"
  /\ file' = saving.config /\ outcomes' = {file, saving.config, Broken}
  /\ saving' = [saving EXCEPT !.temp = "renamed"]
  /\ UNCHANGED <<memory, up, ui, worker, unsaved, told>>

\* After a power cut the old entry may still be there, or the new one with
\* what of the new file was synced.
Rename ==
  /\ saving # Nothing /\ saving.temp = "synced"
  /\ file' = saving.config /\ outcomes' = {file, saving.config}
  /\ saving' = [saving EXCEPT !.temp = "renamed"]
  /\ UNCHANGED <<memory, up, ui, worker, unsaved, told>>

Answered(caller, answer) ==
  worker' = IF caller = "ui" THEN [worker EXCEPT !.answer = answer] ELSE worker

\* The directory is synced; persist_config and mutate_config change the copy
\* once it is saved.
Stored ==
  /\ saving # Nothing /\ saving.temp = "renamed"
  /\ outcomes' = {file}
  /\ memory' = saving.config /\ saving' = Nothing /\ unsaved' = FALSE
  /\ Answered(saving.caller, "ok")
  /\ UNCHANGED <<up, file, ui, told>>

\* A pause for a manual action holds although it could not be saved.
KeptOnFailure == IF saving.kind = "manual" THEN saving.config ELSE memory

SaveFails ==
  /\ saving # Nothing /\ saving.temp # "renamed"
  /\ memory' = KeptOnFailure /\ saving' = Nothing
  /\ unsaved' = (unsaved \/ saving.kind = "manual")
  /\ Answered(saving.caller, "error")
  /\ UNCHANGED <<up, disk, ui, told>>

\* Pause and resume from anywhere, manual actions.
OtherMethod ==
  /\ \E kind \in {"pause", "resume", "manual"}: Begin(PlainOp(kind), "other")
  /\ UNCHANGED <<disk, ui, worker, unsaved, told>>

\* load_or_migrate and parse_config: a file that is no table is ignored.
Start ==
  /\ ~up
  /\ up' = TRUE /\ memory' = IF file = Broken THEN Defaults ELSE file
  /\ unsaved' = FALSE
  /\ UNCHANGED <<saving, disk, ui, worker, told>>

Waiting == worker.op # Nothing /\ worker.answer = "none"

\* A call under way ends in an error, even if its change is in the file: then
\* the UI keeps a copy without it, unless a save that waits undoes the change.
StoredUnnoticed ==
  /\ saving # Nothing /\ saving.temp = "renamed" /\ saving.caller = "ui"
  /\ worker.op.kind # "set" /\ pending = Nothing

Kill ==
  /\ up
  /\ up' = FALSE /\ saving' = Nothing
  /\ worker' = IF Waiting THEN [worker EXCEPT !.answer = "error"] ELSE worker
  /\ misled' = (misled \/ StoredUnnoticed)
  /\ UNCHANGED <<memory, disk, ui, unsaved, kept>>

\* The manual override in the UI's copy is never used: set_configuration keeps
\* the daemon's.
Copy(config) == [config EXCEPT !.paused = FALSE]

-----------------------------------------------------------------------------
(* The GTK thread of the UI.                                               *)

\* The two halves of persist_settings_change: the settings are copied, and,
\* once the autostart entry is written, replaced by the changed copy.
BeginEdit ==
  /\ editing = Nothing
  /\ \E k \in Keys:
       editing' = [settings EXCEPT !.prefs =
                     IF k \in @ THEN @ \ {k} ELSE @ \union {k}]
  /\ UNCHANGED <<daemon, disk, settings, pending, wantsReset, wantsAction,
                 worker, unsaved, told>>

FinishEdit ==
  /\ editing # Nothing
  /\ settings' = editing /\ pending' = editing /\ editing' = Nothing
  /\ misled' = FALSE
  /\ UNCHANGED <<daemon, disk, wantsReset, wantsAction, worker, unsaved, kept>>

AskReset ==
  /\ editing = Nothing
  /\ wantsReset' = TRUE /\ kept' = NoProfiles
  /\ UNCHANGED <<daemon, disk, settings, pending, wantsAction, editing, worker,
                 unsaved, misled>>

\* queue_saved_profile_action, on a profile the UI shows or a new name.
ActionInProgress == wantsAction # Nothing \/ Edits(worker.op)

AskProfileAction ==
  /\ editing = Nothing /\ ~ActionInProgress
  /\ \E op \in ProfileOps:
       /\ op.kind # "create" => settings.profiles[op.profile] # "absent"
       /\ wantsAction' = op
       /\ kept' = [kept EXCEPT ![op.profile] = "absent"]
  /\ UNCHANGED <<daemon, disk, settings, pending, wantsReset, editing, worker,
                 unsaved, misled>>

-----------------------------------------------------------------------------
(* The worker of the UI takes what is pending, calls the daemon and waits. *)
Idle == [op |-> Nothing, answer |-> "none", config |-> Nothing]
Call(op) == [op |-> op, answer |-> "none", config |-> Nothing]
Fetch(why) == [kind |-> "fetch", why |-> why]

TakeReset ==
  /\ worker = Idle /\ wantsReset
  /\ wantsReset' = FALSE /\ worker' = Call(PlainOp("reset"))
  /\ UNCHANGED <<daemon, disk, settings, pending, wantsAction, editing,
                 unsaved, told>>

TakeSave ==
  /\ worker = Idle /\ pending # Nothing
  /\ pending' = Nothing /\ worker' = Call(SetOp(pending))
  /\ UNCHANGED <<daemon, disk, settings, wantsReset, wantsAction, editing,
                 unsaved, told>>

TakeAction ==
  /\ worker = Idle /\ wantsAction # Nothing
  /\ wantsAction' = Nothing /\ worker' = Call(wantsAction)
  /\ UNCHANGED <<daemon, disk, settings, pending, wantsReset, editing,
                 unsaved, told>>

\* The daemon takes the call, refuses it, or is not there.
Served ==
  /\ Waiting /\ worker.op.kind # "fetch"
  /\ Begin(worker.op, "ui")
  /\ UNCHANGED <<disk, ui, worker, unsaved, told>>

Refused ==
  /\ Waiting /\ worker.op.kind # "fetch"
  /\ ~up \/ (saving = Nothing /\ Rejected(worker.op))
  /\ worker' = [worker EXCEPT !.answer = "error"]
  /\ UNCHANGED <<daemon, disk, ui, unsaved, told>>

\* get_configuration waits for the lock.
Fetched ==
  /\ Waiting /\ worker.op.kind = "fetch"
  /\ \/ up /\ saving = Nothing
        /\ worker' = [worker EXCEPT !.answer = "ok", !.config = Copy(memory)]
     \/ ~up /\ worker' = [worker EXCEPT !.answer = "error"]
  /\ UNCHANGED <<daemon, disk, ui, unsaved, told>>

Done(op, answer) == worker.op.kind = op /\ worker.answer = answer

\* The edit under way holds a copy without what the worker brings in, and
\* replaces it: the user is told that the profile is saved all the same.
Overlaps == editing # Nothing

AfterReset ==
  /\ Done("reset", "ok")
  /\ settings' = Defaults /\ pending' = Nothing
  /\ worker' = Idle /\ misled' = FALSE
  /\ UNCHANGED <<daemon, disk, wantsReset, wantsAction, editing, unsaved, kept>>

\* Mutant: the waiting save keeps the profiles it was made with.
RepatchedNot(p, content) == pending

\* A saved profile, or its absence, also goes into a save that still waits.
Repatched(p, content) ==
  IF pending = Nothing THEN Nothing
  ELSE [pending EXCEPT !.profiles = [settings.profiles EXCEPT ![p] = content]]

AfterAction ==
  /\ Edits(worker.op) /\ worker.answer = "ok"
  /\ LET p == worker.op.profile
         content == ContentOf(worker.op)
     IN /\ settings' = WithProfile(settings, worker.op)
        /\ pending' = Repatched(p, content)
        /\ kept' = IF wantsReset \/ Overlaps THEN kept
                   ELSE [kept EXCEPT ![p] = content]
  /\ worker' = Idle
  /\ UNCHANGED <<daemon, disk, wantsReset, wantsAction, editing, unsaved, misled>>

AfterOutcome ==
  /\ Done("set", "ok") \/ (worker.answer = "error" /\
                           worker.op.kind \notin {"set", "fetch"})
  /\ worker' = Idle
  /\ UNCHANGED <<daemon, disk, ui, unsaved, told>>

\* After a failed save the UI takes over what the daemon has.
AfterFailedSave ==
  /\ Done("set", "error")
  /\ worker' = Call(Fetch("failed save"))
  /\ UNCHANGED <<daemon, disk, ui, unsaved, told>>

\* Mutant: the first answer of the daemon always counts.
TakesOverAlways == TRUE

\* The first answer of the daemon is ignored if the user was faster.
TakesOver ==
  worker.op.why = "first" => pending = Nothing /\ ~wantsReset

AfterFetch ==
  /\ Done("fetch", "ok")
  /\ settings' = IF TakesOver THEN worker.config ELSE settings
  /\ worker' = Idle
  /\ misled' = IF worker.op.why = "first" THEN misled ELSE pending # Nothing
  /\ UNCHANGED <<daemon, disk, pending, wantsReset, wantsAction, editing,
                 unsaved, kept>>

AfterFailedFetch ==
  /\ Done("fetch", "error")
  /\ worker' = Idle
  /\ misled' = (misled \/ (worker.op.why # "first" /\ pending = Nothing))
  /\ UNCHANGED <<daemon, disk, ui, unsaved, kept>>

-----------------------------------------------------------------------------
\* A new UI reads config.toml by itself (load_app_settings), then asks.
UiFrom(config) ==
  /\ settings' = IF config = Broken THEN Defaults ELSE Copy(config)
  /\ pending' = Nothing /\ wantsReset' = FALSE /\ wantsAction' = Nothing
  /\ editing' = Nothing /\ worker' = Call(Fetch("first"))
  /\ misled' = FALSE

\* The user quits, whatever is pending, and starts the UI again.
UiRestarts ==
  /\ worker = Idle /\ editing = Nothing
  /\ UiFrom(file)
  /\ UNCHANGED <<daemon, disk, unsaved, kept>>

PowerCut ==
  /\ file' \in outcomes /\ outcomes' = {file'}
  /\ up' = FALSE /\ saving' = Nothing
  /\ UiFrom(file')
  /\ UNCHANGED <<memory, unsaved, kept>>

Init ==
  /\ memory = Defaults /\ up = TRUE /\ saving = Nothing
  /\ file = Defaults /\ outcomes = {Defaults}
  /\ settings = Defaults /\ pending = Nothing /\ wantsReset = FALSE
  /\ wantsAction = Nothing /\ editing = Nothing
  /\ worker = Call(Fetch("first"))
  /\ unsaved = FALSE /\ kept = NoProfiles /\ misled = FALSE

Next ==
  \/ SyncTemp \/ Rename \/ Stored \/ SaveFails
  \/ OtherMethod \/ Start \/ Kill \/ PowerCut
  \/ BeginEdit \/ FinishEdit \/ AskReset \/ AskProfileAction \/ UiRestarts
  \/ TakeReset \/ TakeSave \/ TakeAction \/ Served \/ Refused \/ Fetched
  \/ AfterReset \/ AfterAction \/ AfterOutcome \/ AfterFailedSave
  \/ AfterFetch \/ AfterFailedFetch

Spec == Init /\ [][Next]_vars

-----------------------------------------------------------------------------
\* Wherever the daemon is killed or the power is cut, config.toml is whole;
\* outside the last steps of a save, a daemon that restarts has the settings
\* its methods have confirmed, except for a pause it warned it could not save.
RestartKeepsConfirmed ==
  /\ Broken \notin outcomes
  /\ up /\ (saving = Nothing \/ saving.temp # "renamed")
       => /\ file.profiles = memory.profiles /\ file.prefs = memory.prefs
          /\ file.paused = memory.paused \/ unsaved

\* A profile the user was told is saved stays in the daemon, as it was saved,
\* until the user acts on it or resets, although every edit of a preference
\* sends a whole configuration that was copied before.  This says nothing of a
\* profile whose answer came between the two halves of an edit: the edit
\* brings back the profiles it copied, and its save deletes the new one.
ProfilesKept ==
  \A p \in Profiles: kept[p] # "absent" =>
    (IF up THEN memory ELSE file).profiles[p] = kept[p]

\* Once nothing is under way, the UI and the daemon have the same settings,
\* through failed saves, refused calls, a first answer that comes late and
\* restarts of either.  Until the next edit or reset they may differ in three
\* cases: the daemon died after it had put a profile action or a reset in the
\* file, and the UI was told it had failed; the configuration could not be read
\* after a failed save; it was read over an edit that still waits, which is
\* then saved although the UI shows it no longer.
Settled ==
  /\ up /\ saving = Nothing /\ worker = Idle /\ editing = Nothing
  /\ pending = Nothing /\ ~wantsReset /\ wantsAction = Nothing

SettingsAgree ==
  Settled /\ ~misled =>
    settings.profiles = memory.profiles /\ settings.prefs = memory.prefs
=============================================================================
