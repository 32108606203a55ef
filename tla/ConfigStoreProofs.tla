--------------------------- MODULE ConfigStoreProofs ---------------------------
(***************************************************************************)
(* Proofs about ConfigStore, for any saved profiles and preferences.       *)
(***************************************************************************)
EXTENDS ConfigStore, TLAPS

Saves == {"set", "create", "update", "delete", "reset", "pause", "manual", "resume"}
WorkerOps ==
  {Nothing, PlainOp("reset"), Fetch("first"), Fetch("failed save")}
  \union ProfileOps \union {SetOp(c): c \in Configs}

DaemonType ==
  /\ memory \in Configs /\ file \in Configs /\ outcomes \subseteq Configs
  /\ up \in BOOLEAN /\ unsaved \in BOOLEAN
  /\ saving = Nothing \/
     saving \in [kind: Saves, config: Configs, caller: {"ui", "other"},
                 temp: {"written", "synced", "renamed"}]

UiType ==
  /\ settings \in Configs
  /\ pending = Nothing \/ pending \in Configs
  /\ editing = Nothing \/ editing \in Configs
  /\ wantsAction = Nothing \/ wantsAction \in ProfileOps

WorkerType ==
  /\ worker \in [op: WorkerOps, answer: {"none", "ok", "error"},
                 config: Configs \union {Nothing}]
  /\ worker.op.kind = "fetch" /\ worker.answer = "ok" => worker.config \in Configs

\* The worker waits while its call is served.
CallerWaits ==
  saving # Nothing =>
    up /\ (saving.caller = "ui" => Waiting /\ worker.op.kind # "fetch")

\* A renamed file is the one being saved; before, the copy and the file only
\* differ in a pause.
FileFollowsMemory ==
  /\ saving # Nothing /\ saving.temp = "renamed" => file = saving.config
  /\ saving # Nothing /\ saving.kind = "manual" =>
       /\ saving.config.profiles = memory.profiles
       /\ saving.config.prefs = memory.prefs
  /\ up /\ (saving = Nothing \/ saving.temp # "renamed") =>
       /\ file.profiles = memory.profiles /\ file.prefs = memory.prefs
       /\ file.paused = memory.paused \/ unsaved

IInv == DaemonType /\ UiType /\ WorkerType /\ CallerWaits /\ FileFollowsMemory

-----------------------------------------------------------------------------
LEMMA ConfigShape ==
  ASSUME NEW c \in Configs
  PROVE  /\ c.profiles \in [Profiles -> Contents] /\ c.prefs \subseteq Keys
         /\ c.paused \in BOOLEAN
         /\ c # Nothing /\ c # Broken
         /\ Copy(c) \in Configs /\ Copy(c).profiles = c.profiles
         /\ Copy(c).prefs = c.prefs
<1>1. c # Nothing /\ c # Broken
  <2>1. DOMAIN c = {"profiles", "prefs", "paused"}
    BY DEF Configs
  <2>2. DOMAIN Nothing = {"kind"} /\ DOMAIN Broken = {"kind"}
    BY DEF Nothing, Broken
  <2> QED
    BY <2>1, <2>2
<1>2. /\ c.profiles \in [Profiles -> Contents] /\ c.prefs \subseteq Keys
      /\ c.paused \in BOOLEAN
  BY DEF Configs
<1>3. Copy(c) \in Configs /\ Copy(c).profiles = c.profiles /\ Copy(c).prefs = c.prefs
  BY DEF Configs, Copy
<1> QED
  BY <1>1, <1>2, <1>3

LEMMA PausedShape ==
  ASSUME NEW c \in Configs, NEW b \in BOOLEAN
  PROVE  LET d == [c EXCEPT !.paused = b]
         IN  d \in Configs /\ d.profiles = c.profiles /\ d.prefs = c.prefs
             /\ d.paused = b
BY DEF Configs

LEMMA PrefsShape ==
  ASSUME NEW c \in Configs, NEW ks \in SUBSET Keys
  PROVE  [c EXCEPT !.prefs = ks] \in Configs
         /\ [c EXCEPT !.prefs = ks].profiles = c.profiles
BY DEF Configs

LEMMA ProfileOpShape ==
  ASSUME NEW op \in ProfileOps
  PROVE  /\ op.kind \in {"create", "update", "delete"} /\ op.profile \in Profiles
         /\ Edits(op) /\ ContentOf(op) \in Contents /\ op # Nothing
<1>1. op.kind \in {"create", "update", "delete"} /\ op.profile \in Profiles
  BY DEF ProfileOps, ProfileOp
<1>2. op # Nothing
  BY <1>1 DEF Nothing
<1> QED
  BY <1>1, <1>2 DEF Edits, ContentOf, Contents

LEMMA SetShape ==
  ASSUME NEW op \in {SetOp(c): c \in Configs}
  PROVE  op.kind = "set" /\ op.config \in Configs
BY DEF SetOp

LEMMA PlainShape ==
  /\ Nothing.kind = "none" /\ PlainOp("reset").kind = "reset"
  /\ Fetch("first").kind = "fetch" /\ Fetch("first").why = "first"
  /\ Fetch("failed save").kind = "fetch" /\ Fetch("failed save").why = "failed save"
BY DEF Nothing, PlainOp, Fetch

LEMMA OpShape ==
  ASSUME NEW op \in WorkerOps
  PROVE  /\ op.kind \in {"none", "reset", "fetch", "set", "create", "update", "delete"}
         /\ op.kind = "none" => op = Nothing
         /\ op = Nothing => op.kind = "none"
         /\ op.kind = "set" => op.config \in Configs
         /\ op.kind = "fetch" => op.why \in {"first", "failed save"}
         /\ Edits(op) => op \in ProfileOps
<1>1. CASE op \in ProfileOps
  BY <1>1, ProfileOpShape
<1>2. CASE op \in {SetOp(c): c \in Configs}
  <2>1. op.kind = "set" /\ op.config \in Configs
    BY <1>2, SetShape
  <2> QED
    BY <2>1, PlainShape DEF Edits
<1>3. CASE op \in {Nothing, PlainOp("reset"), Fetch("first"), Fetch("failed save")}
  BY <1>3, PlainShape DEF Edits
<1> QED
  BY <1>1, <1>2, <1>3 DEF WorkerOps

LEMMA WithProfileShape ==
  ASSUME NEW c \in Configs, NEW op \in ProfileOps
  PROVE  /\ WithProfile(c, op) \in Configs
         /\ WithProfile(c, op).profiles = [c.profiles EXCEPT ![op.profile] = ContentOf(op)]
BY ProfileOpShape DEF Configs, WithProfile

LEMMA RepatchedShape ==
  ASSUME NEW c \in Configs, NEW ps \in [Profiles -> Contents],
         NEW p \in Profiles, NEW x \in Contents, pending = c, settings.profiles = ps
  PROVE  Repatched(p, x) \in Configs
         /\ Repatched(p, x).profiles = [ps EXCEPT ![p] = x]
<1>1. c # Nothing
  BY ConfigShape
<1>2. Repatched(p, x) = [c EXCEPT !.profiles = [ps EXCEPT ![p] = x]]
  BY <1>1 DEF Repatched
<1> QED
  BY <1>2 DEF Configs

LEMMA DefaultsShape ==
  /\ Defaults \in Configs /\ NoProfiles \in [Profiles -> Contents]
  /\ \A p \in Profiles: NoProfiles[p] = "absent"
BY DEF Defaults, Configs, NoProfiles, Contents

LEMMA InitIInv == Init => IInv
<1> SUFFICES ASSUME Init PROVE IInv
  OBVIOUS
<1> USE DefaultsShape, ConfigShape DEF Init
<1>1. DaemonType /\ UiType
  BY DEF DaemonType, UiType
<1>2. WorkerType
  BY DEF WorkerType, Call, Fetch, WorkerOps
<1>3. CallerWaits /\ FileFollowsMemory
  BY DEF CallerWaits, FileFollowsMemory
<1> QED
  BY <1>1, <1>2, <1>3 DEF IInv

-----------------------------------------------------------------------------
(* The steps of the daemon.                                                *)

\* What a method makes of the daemon's copy is a configuration.
LEMMA AppliedShape ==
  ASSUME memory \in Configs, NEW op,
         \/ op \in WorkerOps /\ op.kind \notin {"fetch", "none"}
         \/ op \in {PlainOp("pause"), PlainOp("resume"), PlainOp("manual")}
  PROVE  /\ op.kind \in Saves /\ Applied(op) \in Configs
         /\ op.kind = "manual" => Applied(op).profiles = memory.profiles
                                  /\ Applied(op).prefs = memory.prefs
<1>1. CASE op \in WorkerOps /\ op.kind \notin {"fetch", "none"}
  <2>0. op.kind \in {"reset", "set", "create", "update", "delete"}
        /\ (op.kind = "set" => op.config \in Configs)
        /\ (Edits(op) => op \in ProfileOps)
    BY <1>1, OpShape
  <2>1. CASE op.kind \in {"create", "update", "delete"}
    BY <2>0, <2>1, WithProfileShape DEF Applied, Edits, Saves
  <2>2. CASE op.kind = "set"
    <3>1. Applied(op) = [op.config EXCEPT !.paused = memory.paused]
      BY <2>2 DEF Applied, Edits
    <3>2. memory.paused \in BOOLEAN
      BY ConfigShape
    <3> QED
      BY <2>0, <2>2, <3>1, <3>2, PausedShape DEF Saves
  <2>3. CASE op.kind = "reset"
    BY <2>3, DefaultsShape DEF Applied, Edits, Saves
  <2> QED
    BY <2>0, <2>1, <2>2, <2>3
<1>2. CASE op \in {PlainOp("pause"), PlainOp("resume"), PlainOp("manual")}
  <2>1. op.kind \in {"pause", "resume", "manual"}
    BY <1>2 DEF PlainOp
  <2>2. PICK b \in BOOLEAN: Applied(op) = [memory EXCEPT !.paused = b]
    BY <2>1 DEF Applied, Edits
  <2> QED
    BY <2>1, <2>2, PausedShape DEF Saves
<1> QED
  BY <1>1, <1>2

\* A method that begins to save leaves the rest of the daemon alone.
LEMMA BeginKeeps ==
  ASSUME DaemonType, FileFollowsMemory, UNCHANGED <<file, outcomes, unsaved>>,
         NEW op, NEW caller \in {"ui", "other"}, Begin(op, caller),
         \/ op \in WorkerOps /\ op.kind \notin {"fetch", "none"}
         \/ op \in {PlainOp("pause"), PlainOp("resume"), PlainOp("manual")}
  PROVE  /\ DaemonType' /\ FileFollowsMemory' /\ up' /\ saving'.caller = caller
<1>1. /\ op.kind \in Saves /\ Applied(op) \in Configs
      /\ op.kind = "manual" => Applied(op).profiles = memory.profiles
                               /\ Applied(op).prefs = memory.prefs
  BY AppliedShape DEF DaemonType
<1>2. /\ saving' = [kind |-> op.kind, config |-> Applied(op), caller |-> caller,
                    temp |-> "written"]
      /\ saving = Nothing /\ up /\ up' = up /\ memory' = memory
  BY DEF Begin
<1>3. /\ saving' \in [kind: Saves, config: Configs, caller: {"ui", "other"},
                      temp: {"written", "synced", "renamed"}]
      /\ saving'.kind = op.kind /\ saving'.config = Applied(op)
      /\ saving'.temp = "written" /\ saving'.caller = caller
  BY <1>1, <1>2
<1>4. DaemonType'
  BY <1>2, <1>3 DEF DaemonType
<1>5. FileFollowsMemory'
  BY <1>1, <1>2, <1>3 DEF FileFollowsMemory
<1> QED
  BY <1>2, <1>3, <1>4, <1>5

\* The caller gets its answer.
LEMMA AnsweredKeeps ==
  ASSUME WorkerType, CallerWaits, saving # Nothing, saving' = Nothing,
         NEW answer \in {"ok", "error"}, Answered(saving.caller, answer)
  PROVE  WorkerType' /\ CallerWaits'
<1>1. CASE saving.caller = "ui"
  <2>1. worker' = [worker EXCEPT !.answer = answer] /\ worker.op.kind # "fetch"
    BY <1>1 DEF Answered, CallerWaits
  <2> QED
    BY <2>1 DEF WorkerType, CallerWaits
<1>2. CASE saving.caller # "ui"
  BY <1>2 DEF Answered, WorkerType, CallerWaits
<1> QED
  BY <1>1, <1>2

LEMMA SavingShape ==
  ASSUME DaemonType, saving # Nothing
  PROVE  /\ saving \in [kind: Saves, config: Configs, caller: {"ui", "other"},
                        temp: {"written", "synced", "renamed"}]
         /\ saving.config \in Configs
         /\ \A t \in {"written", "synced", "renamed"}:
              LET s == [saving EXCEPT !.temp = t]
              IN  /\ s \in [kind: Saves, config: Configs, caller: {"ui", "other"},
                            temp: {"written", "synced", "renamed"}]
                  /\ s.kind = saving.kind /\ s.config = saving.config
                  /\ s.caller = saving.caller /\ s.temp = t /\ s # Nothing
<1>1. saving \in [kind: Saves, config: Configs, caller: {"ui", "other"},
                  temp: {"written", "synced", "renamed"}]
  BY DEF DaemonType
<1>2. ASSUME NEW t \in {"written", "synced", "renamed"}
      PROVE  LET s == [saving EXCEPT !.temp = t]
             IN  /\ s \in [kind: Saves, config: Configs, caller: {"ui", "other"},
                           temp: {"written", "synced", "renamed"}]
                 /\ s.kind = saving.kind /\ s.config = saving.config
                 /\ s.caller = saving.caller /\ s.temp = t
  BY <1>1
<1>3. ASSUME NEW t \in {"written", "synced", "renamed"}
      PROVE  [saving EXCEPT !.temp = t] # Nothing
  <2>1. DOMAIN [saving EXCEPT !.temp = t] = {"kind", "config", "caller", "temp"}
    BY <1>1
  <2>2. DOMAIN Nothing = {"kind"}
    BY DEF Nothing
  <2> QED
    BY <2>1, <2>2
<1> QED
  BY <1>1, <1>2, <1>3

LEMMA DaemonSteps ==
  ASSUME IInv,
         SyncTemp \/ Rename \/ Stored \/ SaveFails \/ OtherMethod \/ Start
           \/ Kill \/ PowerCut \/ Served
  PROVE  IInv'
<1> USE DEF IInv
<1>1. CASE SyncTemp
  <2>1. /\ saving # Nothing /\ saving.temp = "written"
        /\ saving' = [saving EXCEPT !.temp = "synced"]
        /\ UNCHANGED <<memory, up, file, outcomes, settings, pending, editing,
                       wantsAction, worker, unsaved>>
    BY <1>1 DEF SyncTemp, disk, ui
  <2>2. /\ saving' \in [kind: Saves, config: Configs, caller: {"ui", "other"},
                        temp: {"written", "synced", "renamed"}]
        /\ saving'.kind = saving.kind /\ saving'.config = saving.config
        /\ saving'.caller = saving.caller /\ saving'.temp = "synced"
        /\ saving' # Nothing
    BY <2>1, SavingShape
  <2>3. DaemonType'
    BY <2>1, <2>2 DEF DaemonType
  <2>4. UiType' /\ WorkerType'
    BY <2>1 DEF UiType, WorkerType
  <2>5. CallerWaits'
    BY <2>1, <2>2 DEF CallerWaits, Waiting
  <2>6. FileFollowsMemory'
    BY <2>1, <2>2 DEF FileFollowsMemory
  <2> QED
    BY <2>3, <2>4, <2>5, <2>6
<1>2. CASE Rename
  <2>1. /\ saving # Nothing /\ saving.temp = "synced"
        /\ saving' = [saving EXCEPT !.temp = "renamed"]
        /\ file' = saving.config /\ outcomes' = {file, saving.config}
        /\ UNCHANGED <<memory, up, settings, pending, editing, wantsAction,
                       worker, unsaved>>
    BY <1>2 DEF Rename, ui
  <2>2. /\ saving' \in [kind: Saves, config: Configs, caller: {"ui", "other"},
                        temp: {"written", "synced", "renamed"}]
        /\ saving'.kind = saving.kind /\ saving'.config = saving.config
        /\ saving'.caller = saving.caller /\ saving'.temp = "renamed"
        /\ saving' # Nothing /\ saving.config \in Configs
    BY <2>1, SavingShape
  <2>3. DaemonType'
    BY <2>1, <2>2 DEF DaemonType
  <2>4. UiType' /\ WorkerType'
    BY <2>1 DEF UiType, WorkerType
  <2>5. CallerWaits'
    BY <2>1, <2>2 DEF CallerWaits, Waiting
  <2>6. FileFollowsMemory'
    BY <2>1, <2>2 DEF FileFollowsMemory
  <2> QED
    BY <2>3, <2>4, <2>5, <2>6
<1>3. CASE Stored
  <2>1. /\ saving # Nothing /\ saving.temp = "renamed" /\ outcomes' = {file}
        /\ memory' = saving.config /\ saving' = Nothing /\ unsaved' = FALSE
        /\ Answered(saving.caller, "ok")
        /\ UNCHANGED <<up, file, settings, pending, editing, wantsAction>>
    BY <1>3 DEF Stored, ui
  <2>2. saving.config \in Configs
    BY <2>1, SavingShape
  <2>3. DaemonType' /\ UiType'
    BY <2>1, <2>2 DEF DaemonType, UiType
  <2>4. WorkerType' /\ CallerWaits'
    BY <2>1, AnsweredKeeps
  <2>5. FileFollowsMemory'
    BY <2>1 DEF FileFollowsMemory
  <2> QED
    BY <2>3, <2>4, <2>5
<1>4. CASE SaveFails
  <2>1. /\ saving # Nothing /\ saving.temp # "renamed"
        /\ memory' = KeptOnFailure /\ saving' = Nothing
        /\ unsaved' = (unsaved \/ saving.kind = "manual")
        /\ Answered(saving.caller, "error")
        /\ UNCHANGED <<up, file, outcomes, settings, pending, editing, wantsAction>>
    BY <1>4 DEF SaveFails, disk, ui
  <2>2. saving.config \in Configs
    BY <2>1, SavingShape
  <2>3. DaemonType' /\ UiType'
    BY <2>1, <2>2 DEF DaemonType, UiType, KeptOnFailure
  <2>4. WorkerType' /\ CallerWaits'
    BY <2>1, AnsweredKeeps
  <2>5. FileFollowsMemory'
    <3>1. CASE saving.kind = "manual"
      BY <2>1, <3>1 DEF FileFollowsMemory, KeptOnFailure
    <3>2. CASE saving.kind # "manual"
      BY <2>1, <3>2 DEF FileFollowsMemory, KeptOnFailure, DaemonType
    <3> QED
      BY <3>1, <3>2
  <2> QED
    BY <2>3, <2>4, <2>5
<1>5. CASE OtherMethod
  <2>1. PICK kind \in {"pause", "resume", "manual"}: Begin(PlainOp(kind), "other")
    BY <1>5 DEF OtherMethod
  <2>2. UNCHANGED <<file, outcomes, settings, pending, editing, wantsAction,
                    worker, unsaved>>
    BY <1>5 DEF OtherMethod, disk, ui
  <2>3. DaemonType' /\ FileFollowsMemory' /\ up' /\ saving'.caller = "other"
    BY <2>1, <2>2, BeginKeeps
  <2>4. UiType' /\ WorkerType'
    BY <2>2 DEF UiType, WorkerType
  <2>5. CallerWaits'
    BY <2>3 DEF CallerWaits
  <2> QED
    BY <2>3, <2>4, <2>5
<1>6. CASE Start
  <2>1. /\ ~up /\ memory' = IF file = Broken THEN Defaults ELSE file
        /\ unsaved' = FALSE /\ up' = TRUE
        /\ UNCHANGED <<saving, file, outcomes, settings, pending, editing,
                       wantsAction, worker>>
    BY <1>6 DEF Start, disk, ui
  <2>2. memory' = file /\ saving = Nothing
    BY <2>1, ConfigShape DEF DaemonType, CallerWaits
  <2>3. DaemonType' /\ UiType' /\ WorkerType'
    BY <2>1, <2>2 DEF DaemonType, UiType, WorkerType
  <2>4. CallerWaits' /\ FileFollowsMemory'
    BY <2>1, <2>2 DEF CallerWaits, FileFollowsMemory
  <2> QED
    BY <2>3, <2>4
<1>7. CASE Kill
  <2>1. /\ up' = FALSE /\ saving' = Nothing
        /\ worker' = IF Waiting THEN [worker EXCEPT !.answer = "error"] ELSE worker
        /\ UNCHANGED <<memory, file, outcomes, settings, pending, editing,
                       wantsAction, unsaved>>
    BY <1>7 DEF Kill, disk, ui
  <2>2. DaemonType' /\ UiType' /\ CallerWaits' /\ FileFollowsMemory'
    BY <2>1 DEF DaemonType, UiType, CallerWaits, FileFollowsMemory
  <2>3. WorkerType'
    BY <2>1 DEF WorkerType
  <2> QED
    BY <2>2, <2>3
<1>8. CASE PowerCut
  <2>1. /\ file' \in outcomes /\ outcomes' = {file'}
        /\ up' = FALSE /\ saving' = Nothing
        /\ settings' = IF file' = Broken THEN Defaults ELSE Copy(file')
        /\ pending' = Nothing /\ wantsAction' = Nothing
        /\ editing' = Nothing /\ worker' = Call(Fetch("first"))
        /\ UNCHANGED <<memory, unsaved>>
    BY <1>8 DEF PowerCut, UiFrom
  <2>2. file' \in Configs
    BY <2>1 DEF DaemonType
  <2>3. DaemonType' /\ CallerWaits' /\ FileFollowsMemory'
    BY <2>1, <2>2 DEF DaemonType, CallerWaits, FileFollowsMemory
  <2>4. settings' \in Configs
    BY <2>1, <2>2, ConfigShape, DefaultsShape
  <2>5. UiType'
    BY <2>1, <2>4 DEF UiType
  <2>6. WorkerType'
    BY <2>1 DEF WorkerType, WorkerOps, Call
  <2> QED
    BY <2>3, <2>5, <2>6
<1>9. CASE Served
  <2>1. /\ Waiting /\ worker.op.kind # "fetch" /\ Begin(worker.op, "ui")
        /\ UNCHANGED <<file, outcomes, settings, pending, editing, wantsAction,
                       worker, unsaved>>
    BY <1>9 DEF Served, disk, ui
  <2>2. worker.op \in WorkerOps /\ worker.op.kind \notin {"fetch", "none"}
    BY <2>1, OpShape DEF WorkerType, Waiting
  <2>3. DaemonType' /\ FileFollowsMemory' /\ up' /\ saving'.caller = "ui"
    BY <2>1, <2>2, BeginKeeps
  <2>4. UiType' /\ WorkerType'
    BY <2>1 DEF UiType, WorkerType
  <2>5. CallerWaits'
    BY <2>1, <2>3 DEF CallerWaits, Waiting
  <2> QED
    BY <2>3, <2>4, <2>5
<1> QED
  BY <1>1, <1>2, <1>3, <1>4, <1>5, <1>6, <1>7, <1>8, <1>9

-----------------------------------------------------------------------------
(* The steps of the UI.                                                    *)

\* They leave the daemon and its file alone, and a call that is served is
\* only taken back by the daemon.
LEMMA DaemonIsLeftAlone ==
  ASSUME IInv, UNCHANGED <<memory, up, saving, file, outcomes, unsaved>>,
         \/ worker' = worker \/ ~Waiting \/ worker.op.kind = "fetch"
         \/ saving = Nothing \/ ~up
  PROVE  DaemonType' /\ FileFollowsMemory' /\ CallerWaits'
<1>1. DaemonType' /\ FileFollowsMemory'
  BY DEF IInv, DaemonType, FileFollowsMemory
<1>2. CallerWaits'
  BY DEF IInv, CallerWaits, Waiting
<1> QED
  BY <1>1, <1>2

LEMMA IdleShape ==
  /\ WorkerType /\ worker' = Idle => WorkerType' /\ worker'.op = Nothing
  /\ \A op \in WorkerOps: worker' = Call(op) => WorkerType' /\ worker'.op = op
  /\ worker = Idle => ~Waiting
<1>1. ASSUME WorkerType, worker' = Idle PROVE WorkerType' /\ worker'.op = Nothing
  BY <1>1, PlainShape DEF WorkerType, WorkerOps, Idle
<1>2. ASSUME NEW op \in WorkerOps, worker' = Call(op)
      PROVE  WorkerType' /\ worker'.op = op
  BY <1>2 DEF WorkerType, Call
<1>3. worker = Idle => ~Waiting
  BY DEF Idle, Waiting
<1> QED
  BY <1>1, <1>2, <1>3

LEMMA UserSteps ==
  ASSUME IInv, BeginEdit \/ FinishEdit \/ AskReset \/ AskProfileAction \/ UiRestarts
  PROVE  IInv'
<1>1. CASE BeginEdit
  <2>1. PICK ks \in SUBSET Keys: editing' = [settings EXCEPT !.prefs = ks]
    <3>1. PICK k \in Keys:
            editing' = [settings EXCEPT !.prefs =
                          IF k \in @ THEN @ \ {k} ELSE @ \union {k}]
      BY <1>1 DEF BeginEdit
    <3>2. settings.prefs \subseteq Keys
      BY ConfigShape DEF IInv, UiType
    <3> QED
      BY <3>1, <3>2
  <2>2. UNCHANGED <<memory, up, saving, file, outcomes, unsaved, settings,
                    pending, wantsAction, worker>>
    BY <1>1 DEF BeginEdit, daemon, disk
  <2>3. UiType'
    BY <2>1, <2>2, PrefsShape DEF IInv, UiType
  <2>4. WorkerType'
    BY <2>2 DEF IInv, WorkerType
  <2> QED
    BY <2>2, <2>3, <2>4, DaemonIsLeftAlone DEF IInv
<1>2. CASE FinishEdit
  <2>1. /\ editing # Nothing /\ settings' = editing /\ pending' = editing
        /\ editing' = Nothing
        /\ UNCHANGED <<memory, up, saving, file, outcomes, unsaved, wantsAction,
                       worker>>
    BY <1>2 DEF FinishEdit, daemon, disk
  <2>2. UiType' /\ WorkerType'
    BY <2>1 DEF IInv, UiType, WorkerType
  <2> QED
    BY <2>1, <2>2, DaemonIsLeftAlone DEF IInv
<1>3. CASE AskReset
  <2>1. UNCHANGED <<memory, up, saving, file, outcomes, unsaved, settings,
                    pending, wantsAction, editing, worker>>
    BY <1>3 DEF AskReset, daemon, disk
  <2>2. UiType' /\ WorkerType'
    BY <2>1 DEF IInv, UiType, WorkerType
  <2> QED
    BY <2>1, <2>2, DaemonIsLeftAlone DEF IInv
<1>4. CASE AskProfileAction
  <2>1. /\ wantsAction' \in ProfileOps
        /\ UNCHANGED <<memory, up, saving, file, outcomes, unsaved, settings,
                       pending, editing, worker>>
    BY <1>4 DEF AskProfileAction, daemon, disk
  <2>2. UiType' /\ WorkerType'
    BY <2>1 DEF IInv, UiType, WorkerType
  <2> QED
    BY <2>1, <2>2, DaemonIsLeftAlone DEF IInv
<1>5. CASE UiRestarts
  <2>1. /\ settings' = IF file = Broken THEN Defaults ELSE Copy(file)
        /\ pending' = Nothing /\ wantsAction' = Nothing
        /\ editing' = Nothing /\ worker' = Call(Fetch("first"))
        /\ worker = Idle
        /\ UNCHANGED <<memory, up, saving, file, outcomes, unsaved>>
    BY <1>5 DEF UiRestarts, UiFrom, daemon, disk
  <2>2. settings' \in Configs
    BY <2>1, ConfigShape, DefaultsShape DEF IInv, DaemonType
  <2>3. UiType'
    BY <2>1, <2>2 DEF UiType
  <2>4. WorkerType'
    BY <2>1, IdleShape DEF WorkerOps
  <2> QED
    BY <2>1, <2>3, <2>4, IdleShape, DaemonIsLeftAlone DEF IInv
<1> QED
  BY <1>1, <1>2, <1>3, <1>4, <1>5

LEMMA TakeSteps ==
  ASSUME IInv, TakeReset \/ TakeSave \/ TakeAction
  PROVE  IInv'
<1>1. UNCHANGED <<memory, up, saving, file, outcomes, unsaved, settings, editing>>
      /\ worker = Idle
  BY DEF TakeReset, TakeSave, TakeAction, daemon, disk
<1>2. CASE TakeReset
  <2>1. worker' = Call(PlainOp("reset")) /\ UNCHANGED <<pending, wantsAction>>
    BY <1>2 DEF TakeReset
  <2>2. WorkerType'
    BY <2>1, IdleShape DEF WorkerOps
  <2> QED
    BY <1>1, <2>1, <2>2, IdleShape, DaemonIsLeftAlone DEF IInv, UiType
<1>3. CASE TakeSave
  <2>1. /\ pending \in Configs /\ pending' = Nothing
        /\ worker' = Call(SetOp(pending)) /\ UNCHANGED wantsAction
    BY <1>3 DEF TakeSave, IInv, UiType
  <2>2. WorkerType'
    BY <2>1, IdleShape DEF WorkerOps
  <2> QED
    BY <1>1, <2>1, <2>2, IdleShape, DaemonIsLeftAlone DEF IInv, UiType
<1>4. CASE TakeAction
  <2>1. /\ wantsAction \in ProfileOps /\ wantsAction' = Nothing
        /\ worker' = Call(wantsAction) /\ UNCHANGED pending
    BY <1>4 DEF TakeAction, IInv, UiType
  <2>2. WorkerType'
    BY <2>1, IdleShape DEF WorkerOps
  <2> QED
    BY <1>1, <2>1, <2>2, IdleShape, DaemonIsLeftAlone DEF IInv, UiType
<1> QED
  BY <1>2, <1>3, <1>4

LEMMA CallSteps ==
  ASSUME IInv, Refused \/ Fetched
  PROVE  IInv'
<1>1. UNCHANGED <<memory, up, saving, file, outcomes, unsaved, settings, pending,
                  wantsAction, editing>>
  BY DEF Refused, Fetched, daemon, disk, ui
<1>2. DaemonType' /\ FileFollowsMemory' /\ CallerWaits'
  BY <1>1, DaemonIsLeftAlone DEF Refused, Fetched
<1>3. WorkerType'
  <2>1. CASE Refused
    BY <2>1 DEF Refused, IInv, WorkerType
  <2>2. CASE Fetched
    <3>1. Copy(memory) \in Configs
      BY ConfigShape DEF IInv, DaemonType
    <3> QED
      BY <2>2, <3>1 DEF Fetched, IInv, WorkerType
  <2> QED
    BY <2>1, <2>2
<1> QED
  BY <1>1, <1>2, <1>3 DEF IInv, UiType

LEMMA AfterSteps ==
  ASSUME IInv,
         AfterReset \/ AfterAction \/ AfterOutcome \/ AfterFailedSave
           \/ AfterFetch \/ AfterFailedFetch
  PROVE  IInv'
<1>1. /\ UNCHANGED <<memory, up, saving, file, outcomes, unsaved, wantsAction,
                     editing>>
      /\ ~Waiting
  BY DEF AfterReset, AfterAction, AfterOutcome, AfterFailedSave, AfterFetch,
         AfterFailedFetch, Done, Waiting, daemon, disk, ui
<1>2. DaemonType' /\ FileFollowsMemory' /\ CallerWaits'
  BY <1>1, DaemonIsLeftAlone
<1>3. WorkerType'
  <2>1. worker' = Idle \/ worker' = Call(Fetch("failed save"))
    BY DEF AfterReset, AfterAction, AfterOutcome, AfterFailedSave, AfterFetch,
           AfterFailedFetch
  <2> QED
    BY <2>1, IdleShape DEF IInv, WorkerOps
<1>4. UiType'
  <2>1. CASE AfterReset
    BY <1>1, <2>1, DefaultsShape DEF AfterReset, IInv, UiType
  <2>2. CASE AfterAction
    <3>1. worker.op \in ProfileOps
      BY <2>2, OpShape DEF AfterAction, IInv, WorkerType
    <3>2. settings' = WithProfile(settings, worker.op)
          /\ pending' = Repatched(worker.op.profile, ContentOf(worker.op))
      BY <2>2 DEF AfterAction
    <3>3. settings' \in Configs
      BY <3>1, <3>2, WithProfileShape DEF IInv, UiType
    <3>4. pending' = Nothing \/ pending' \in Configs
      <4>1. CASE pending = Nothing
        BY <3>2, <4>1 DEF Repatched
      <4>2. CASE pending \in Configs
        <5>1. settings.profiles \in [Profiles -> Contents]
          BY ConfigShape DEF IInv, UiType
        <5>2. worker.op.profile \in Profiles /\ ContentOf(worker.op) \in Contents
          BY <3>1, ProfileOpShape
        <5> QED
          BY <3>2, <4>2, <5>1, <5>2, RepatchedShape
      <4> QED
        BY <4>1, <4>2 DEF IInv, UiType
    <3> QED
      BY <1>1, <3>3, <3>4 DEF IInv, UiType
  <2>3. CASE AfterOutcome \/ AfterFailedSave \/ AfterFailedFetch
    BY <2>3 DEF AfterOutcome, AfterFailedSave, AfterFailedFetch, ui, IInv, UiType
  <2>4. CASE AfterFetch
    <3>1. worker.config \in Configs
      BY <2>4 DEF AfterFetch, Done, IInv, WorkerType
    <3> QED
      BY <2>4, <3>1 DEF AfterFetch, IInv, UiType
  <2> QED
    BY <2>1, <2>2, <2>3, <2>4
<1> QED
  BY <1>2, <1>3, <1>4 DEF IInv

-----------------------------------------------------------------------------
LEMMA NextKeeps == IInv /\ [Next]_vars => IInv'
<1> SUFFICES ASSUME IInv, [Next]_vars PROVE IInv'
  OBVIOUS
<1>1. CASE Next
  BY <1>1, DaemonSteps, UserSteps, TakeSteps, CallSteps, AfterSteps DEF Next
<1>2. CASE UNCHANGED vars
  <2>1. UNCHANGED <<memory, up, saving, file, outcomes, unsaved, settings, pending,
                    wantsAction, editing, worker>>
    BY <1>2 DEF vars, daemon, disk, ui
  <2>2. UiType' /\ WorkerType'
    BY <2>1 DEF IInv, UiType, WorkerType
  <2> QED
    BY <2>1, <2>2, DaemonIsLeftAlone DEF IInv
<1> QED
  BY <1>1, <1>2

LEMMA IInvConfirmed == IInv => RestartKeepsConfirmed
<1> SUFFICES ASSUME IInv PROVE RestartKeepsConfirmed
  OBVIOUS
<1>1. Broken \notin outcomes
  BY ConfigShape DEF IInv, DaemonType
<1> QED
  BY <1>1 DEF IInv, FileFollowsMemory, RestartKeepsConfirmed

\* Through every kill, power cut, failed save and request of the UI, what the
\* daemon saved is whole, and what it confirmed is what it starts with again.
THEOREM ConfirmedSurvives == Spec => []RestartKeepsConfirmed
<1>1. Init => IInv
  BY InitIInv
<1>2. IInv /\ [Next]_vars => IInv'
  BY NextKeeps
<1>3. IInv => RestartKeepsConfirmed
  BY IInvConfirmed
<1> QED
  BY <1>1, <1>2, <1>3, PTL DEF Spec

-----------------------------------------------------------------------------
(* Saved profiles.  Every copy that may become the daemon's has the         *)
(* profiles the user was told are saved (k is what was told).               *)
KeptIn(k, c) == \A p \in Profiles: k[p] # "absent" => c.profiles[p] = k[p]

DaemonKeeps ==
  /\ \A c \in outcomes: KeptIn(kept, c)
  /\ KeptIn(kept, file) /\ (up => KeptIn(kept, memory))
  /\ saving # Nothing => KeptIn(kept, saving.config)

UiKeeps ==
  /\ KeptIn(kept, settings)
  /\ pending # Nothing => KeptIn(kept, pending)
  /\ editing # Nothing => KeptIn(kept, editing)

WorkerKeeps ==
  /\ worker.op.kind = "set" => KeptIn(kept, worker.op.config)
  /\ worker.op.kind = "fetch" /\ worker.answer = "ok" => KeptIn(kept, worker.config)

\* Nothing is promised of what the user is changing.
NoPromise ==
  /\ wantsReset \/ worker.op.kind = "reset" => \A p \in Profiles: kept[p] = "absent"
  /\ wantsAction # Nothing => kept[wantsAction.profile] = "absent"
  /\ Edits(worker.op) => kept[worker.op.profile] = "absent" /\ wantsAction = Nothing

\* A change of a profile is in what is saved for it and, once answered, in
\* every copy of the daemon.
HasChange(c) == c.profiles[worker.op.profile] = ContentOf(worker.op)
AnsweredIsStored ==
  Edits(worker.op) =>
    /\ saving # Nothing /\ saving.caller = "ui" => HasChange(saving.config)
    /\ worker.answer = "ok" =>
         /\ \A c \in outcomes: HasChange(c)
         /\ HasChange(file) /\ (up => HasChange(memory))
         /\ saving # Nothing => HasChange(saving.config)

KInv ==
  /\ kept \in [Profiles -> Contents]
  /\ DaemonKeeps /\ UiKeeps /\ WorkerKeeps /\ NoPromise /\ AnsweredIsStored

LEMMA InitKInv == Init => KInv
<1> SUFFICES ASSUME Init PROVE KInv
  OBVIOUS
<1> USE DefaultsShape DEF Init
<1>1. worker.op = Fetch("first") /\ worker.answer = "none"
  BY DEF Call
<1>2. worker.op.kind = "fetch"
  BY <1>1, PlainShape
<1>3. DaemonKeeps /\ UiKeeps
  BY DEF DaemonKeeps, UiKeeps, KeptIn
<1>4. WorkerKeeps /\ NoPromise /\ AnsweredIsStored
  BY <1>1, <1>2 DEF WorkerKeeps, NoPromise, AnsweredIsStored, Edits
<1> QED
  BY <1>3, <1>4 DEF KInv

\* Less is promised.
LEMMA KeptInLess ==
  ASSUME NEW k, NEW l, NEW c,
         \A p \in Profiles: l[p] = k[p] \/ l[p] = "absent",
         KeptIn(k, c)
  PROVE  KeptIn(l, c)
BY DEF KeptIn

LEMMA KeptInSame ==
  ASSUME NEW k, NEW c, NEW d, c.profiles = d.profiles, KeptIn(k, c)
  PROVE  KeptIn(k, d)
BY DEF KeptIn

\* A change keeps the other profiles.
LEMMA KeptInChanged ==
  ASSUME NEW k, NEW c, NEW d, NEW ps \in [Profiles -> Contents], NEW p \in Profiles,
         NEW x, k[p] = "absent", KeptIn(k, c), c.profiles = ps,
         d.profiles = [ps EXCEPT ![p] = x]
  PROVE  KeptIn(k, d) /\ KeptIn([k EXCEPT ![p] = x], d) /\ d.profiles[p] = x
<1>1. d.profiles[p] = x /\ \A q \in Profiles: q # p => d.profiles[q] = c.profiles[q]
  OBVIOUS
<1>2. KeptIn(k, d)
  BY <1>1 DEF KeptIn
<1>3. ASSUME NEW q \in Profiles, [k EXCEPT ![p] = x][q] # "absent"
      PROVE  d.profiles[q] = [k EXCEPT ![p] = x][q]
  <2>1. CASE q = p
    BY <1>1, <1>3, <2>1 DEF KeptIn
  <2>2. CASE q # p
    BY <1>1, <1>3, <2>2 DEF KeptIn
  <2> QED
    BY <2>1, <2>2
<1> QED
  BY <1>1, <1>2, <1>3 DEF KeptIn

\* What a method saves has the profiles that were promised.
LEMMA AppliedKeeps ==
  ASSUME IInv, KInv, up, NEW op,
         \/ op = worker.op /\ op.kind \notin {"fetch", "none"}
         \/ op \in {PlainOp("pause"), PlainOp("resume"), PlainOp("manual")}
  PROVE  /\ KeptIn(kept, Applied(op))
         /\ op.kind \in {"pause", "resume", "manual"} =>
              Applied(op).profiles = memory.profiles
         /\ Edits(op) => Applied(op).profiles[op.profile] = ContentOf(op)
<1>1. memory \in Configs /\ memory.profiles \in [Profiles -> Contents]
      /\ KeptIn(kept, memory)
  BY ConfigShape DEF IInv, DaemonType, KInv, DaemonKeeps
<1>2. CASE op = worker.op /\ op.kind \notin {"fetch", "none"}
  <2>0. /\ op \in WorkerOps
        /\ op.kind \in {"reset", "set", "create", "update", "delete"}
        /\ (op.kind = "set" => op.config \in Configs)
        /\ (Edits(op) => op \in ProfileOps)
    BY <1>2, OpShape DEF IInv, WorkerType
  <2>1. CASE Edits(op)
    <3>1. Applied(op) = WithProfile(memory, op) /\ op \in ProfileOps
      BY <2>0, <2>1 DEF Applied, Edits
    <3>2. Applied(op).profiles = [memory.profiles EXCEPT ![op.profile] = ContentOf(op)]
      BY <1>1, <3>1, WithProfileShape
    <3>3. kept[op.profile] = "absent" /\ op.profile \in Profiles
      BY <1>2, <2>1, <3>1, ProfileOpShape DEF KInv, NoPromise
    <3>4. KeptIn(kept, Applied(op)) /\ Applied(op).profiles[op.profile] = ContentOf(op)
      BY <1>1, <3>2, <3>3, KeptInChanged
    <3> QED
      BY <2>1, <3>4 DEF Edits
  <2>2. CASE op.kind = "set"
    <3>1. Applied(op) = [op.config EXCEPT !.paused = memory.paused]
      BY <2>2 DEF Applied, Edits
    <3>2. memory.paused \in BOOLEAN
      BY <1>1, ConfigShape
    <3>3. Applied(op).profiles = op.config.profiles
      BY <2>0, <2>2, <3>1, <3>2, PausedShape
    <3>4. KeptIn(kept, op.config)
      BY <1>2, <2>2 DEF KInv, WorkerKeeps
    <3> QED
      BY <2>2, <3>3, <3>4, KeptInSame DEF Edits
  <2>3. CASE op.kind = "reset"
    <3>1. \A p \in Profiles: kept[p] = "absent"
      BY <1>2, <2>3 DEF KInv, NoPromise
    <3> QED
      BY <2>3, <3>1 DEF Edits, KeptIn
  <2> QED
    BY <2>0, <2>1, <2>2, <2>3 DEF Edits
<1>3. CASE op \in {PlainOp("pause"), PlainOp("resume"), PlainOp("manual")}
  <2>1. op.kind \in {"pause", "resume", "manual"}
    BY <1>3 DEF PlainOp
  <2>2. PICK b \in BOOLEAN: Applied(op) = [memory EXCEPT !.paused = b]
    BY <2>1 DEF Applied, Edits
  <2>3. Applied(op).profiles = memory.profiles
    BY <1>1, <2>2, PausedShape
  <2> QED
    BY <1>1, <2>1, <2>3, KeptInSame DEF Edits
<1> QED
  BY <1>2, <1>3

\* A step of the daemon makes no promise.
LEMMA UiIsLeftAlone ==
  ASSUME IInv, KInv,
         UNCHANGED <<settings, pending, editing, wantsReset, wantsAction, kept>>,
         \/ worker' = worker
         \/ worker' = [worker EXCEPT !.answer = "error"]
         \/ worker' = [worker EXCEPT !.answer = "ok"] /\ worker.op.kind # "fetch"
  PROVE  /\ kept' \in [Profiles -> Contents] /\ UiKeeps' /\ WorkerKeeps'
         /\ NoPromise' /\ worker'.op = worker.op
<1>1. kept' \in [Profiles -> Contents] /\ UiKeeps'
  BY DEF KInv, UiKeeps
<1>2. worker'.op = worker.op /\ worker'.config = worker.config
      /\ (worker'.answer = "ok" => worker.answer = "ok" \/ worker.op.kind # "fetch")
  BY DEF IInv, WorkerType
<1>3. WorkerKeeps'
  BY <1>2 DEF KInv, WorkerKeeps
<1>4. NoPromise'
  BY <1>2 DEF KInv, NoPromise
<1> QED
  BY <1>1, <1>2, <1>3, <1>4

LEMMA BeginKeepsProfiles ==
  ASSUME IInv, KInv, UNCHANGED <<file, outcomes, settings, pending, editing,
                                 wantsReset, wantsAction, kept, worker>>,
         NEW op, NEW caller \in {"ui", "other"}, Begin(op, caller),
         \/ caller = "ui" /\ op = worker.op /\ op.kind \notin {"fetch", "none"}
            /\ worker.answer = "none"
         \/ caller = "other"
            /\ op \in {PlainOp("pause"), PlainOp("resume"), PlainOp("manual")}
  PROVE  KInv'
<1>1. /\ saving'.config = Applied(op) /\ saving'.caller = caller
      /\ up /\ up' = up /\ memory' = memory
  BY DEF Begin
<1>2. /\ KeptIn(kept, Applied(op))
      /\ op.kind \in {"pause", "resume", "manual"} =>
           Applied(op).profiles = memory.profiles
      /\ Edits(op) => Applied(op).profiles[op.profile] = ContentOf(op)
  BY <1>1, AppliedKeeps
<1>3. DaemonKeeps'
  BY <1>1, <1>2 DEF KInv, DaemonKeeps
<1>4. AnsweredIsStored'
  <2>1. CASE caller = "ui"
    BY <1>1, <1>2, <2>1 DEF KInv, AnsweredIsStored, HasChange
  <2>2. CASE caller = "other"
    <3>1. op.kind \in {"pause", "resume", "manual"}
      BY <2>2 DEF PlainOp
    <3>2. saving'.config.profiles = memory.profiles
      BY <1>1, <1>2, <3>1
    <3> QED
      BY <1>1, <2>2, <3>2 DEF KInv, AnsweredIsStored, HasChange
  <2> QED
    BY <2>1, <2>2
<1> QED
  BY <1>3, <1>4, UiIsLeftAlone DEF KInv

LEMMA DaemonStepsKeepProfiles ==
  ASSUME IInv, KInv,
         SyncTemp \/ Rename \/ Stored \/ SaveFails \/ OtherMethod \/ Start
           \/ Kill \/ Served
  PROVE  KInv'
<1>1. CASE SyncTemp
  <2>1. /\ saving # Nothing /\ saving' = [saving EXCEPT !.temp = "synced"]
        /\ UNCHANGED <<memory, up, file, outcomes, settings, pending, editing,
                       wantsReset, wantsAction, worker, kept>>
    BY <1>1 DEF SyncTemp, disk, ui, told
  <2>2. saving'.config = saving.config /\ saving'.caller = saving.caller
        /\ saving' # Nothing
    BY <2>1, SavingShape DEF IInv
  <2>3. DaemonKeeps' /\ AnsweredIsStored'
    BY <2>1, <2>2 DEF KInv, DaemonKeeps, AnsweredIsStored, HasChange
  <2> QED
    BY <2>1, <2>3, UiIsLeftAlone DEF KInv
<1>2. CASE Rename
  <2>1. /\ saving # Nothing /\ saving' = [saving EXCEPT !.temp = "renamed"]
        /\ file' = saving.config /\ outcomes' = {file, saving.config}
        /\ UNCHANGED <<memory, up, settings, pending, editing, wantsReset,
                       wantsAction, worker, kept>>
    BY <1>2 DEF Rename, ui, told
  <2>2. saving'.config = saving.config /\ saving'.caller = saving.caller
        /\ saving' # Nothing
    BY <2>1, SavingShape DEF IInv
  <2>3. DaemonKeeps' /\ AnsweredIsStored'
    BY <2>1, <2>2 DEF KInv, DaemonKeeps, AnsweredIsStored, HasChange
  <2> QED
    BY <2>1, <2>3, UiIsLeftAlone DEF KInv
<1>3. CASE Stored
  <2>1. /\ saving # Nothing /\ saving.temp = "renamed" /\ outcomes' = {file}
        /\ memory' = saving.config /\ saving' = Nothing
        /\ Answered(saving.caller, "ok")
        /\ UNCHANGED <<up, file, settings, pending, editing, wantsReset,
                       wantsAction, kept>>
    BY <1>3 DEF Stored, ui, told
  <2>2. file = saving.config
    BY <2>1 DEF IInv, FileFollowsMemory
  <2>3. DaemonKeeps'
    BY <2>1, <2>2 DEF KInv, DaemonKeeps
  <2>4. \/ saving.caller = "ui" /\ worker' = [worker EXCEPT !.answer = "ok"]
           /\ worker.op.kind # "fetch"
        \/ saving.caller # "ui" /\ worker' = worker
    BY <2>1 DEF Answered, IInv, CallerWaits
  <2>5. worker'.op = worker.op /\ kept' \in [Profiles -> Contents] /\ UiKeeps'
        /\ WorkerKeeps' /\ NoPromise'
    BY <2>1, <2>4, UiIsLeftAlone
  <2>6. AnsweredIsStored'
    BY <2>1, <2>2, <2>4, <2>5 DEF KInv, AnsweredIsStored, HasChange
  <2> QED
    BY <2>3, <2>5, <2>6 DEF KInv
<1>4. CASE SaveFails
  <2>1. /\ saving # Nothing /\ memory' = KeptOnFailure /\ saving' = Nothing
        /\ Answered(saving.caller, "error")
        /\ UNCHANGED <<up, file, outcomes, settings, pending, editing,
                       wantsReset, wantsAction, kept>>
    BY <1>4 DEF SaveFails, disk, ui, told
  <2>2. memory' = memory \/ memory' = saving.config
    BY <2>1 DEF KeptOnFailure
  <2>3. up
    BY <2>1 DEF IInv, CallerWaits
  <2>4. DaemonKeeps'
    BY <2>1, <2>2 DEF KInv, DaemonKeeps
  <2>5. worker' = [worker EXCEPT !.answer = "error"] \/ worker' = worker
    BY <2>1 DEF Answered
  <2>6. worker'.op = worker.op /\ kept' \in [Profiles -> Contents] /\ UiKeeps'
        /\ WorkerKeeps' /\ NoPromise'
    BY <2>1, <2>5, UiIsLeftAlone
  <2>7. worker'.answer = "ok" => worker.answer = "ok"
    BY <2>5 DEF IInv, WorkerType
  <2>8. AnsweredIsStored'
    BY <2>1, <2>2, <2>3, <2>6, <2>7 DEF KInv, AnsweredIsStored, HasChange
  <2> QED
    BY <2>4, <2>6, <2>8 DEF KInv
<1>5. CASE OtherMethod
  BY <1>5, BeginKeepsProfiles DEF OtherMethod, disk, ui, told
<1>6. CASE Start
  <2>1. /\ ~up /\ memory' = IF file = Broken THEN Defaults ELSE file
        /\ UNCHANGED <<saving, file, outcomes, settings, pending, editing,
                       wantsReset, wantsAction, worker, kept>>
    BY <1>6 DEF Start, disk, ui, told
  <2>2. memory' = file
    BY <2>1, ConfigShape DEF IInv, DaemonType
  <2>3. DaemonKeeps' /\ AnsweredIsStored'
    BY <2>1, <2>2 DEF KInv, DaemonKeeps, AnsweredIsStored, HasChange
  <2> QED
    BY <2>1, <2>3, UiIsLeftAlone DEF KInv
<1>7. CASE Kill
  <2>1. /\ up' = FALSE /\ saving' = Nothing
        /\ worker' = IF Waiting THEN [worker EXCEPT !.answer = "error"] ELSE worker
        /\ UNCHANGED <<memory, file, outcomes, settings, pending, editing,
                       wantsReset, wantsAction, kept>>
    BY <1>7 DEF Kill, disk, ui
  <2>2. worker' = [worker EXCEPT !.answer = "error"] \/ worker' = worker
    BY <2>1
  <2>3. worker'.op = worker.op /\ kept' \in [Profiles -> Contents] /\ UiKeeps'
        /\ WorkerKeeps' /\ NoPromise'
    BY <2>1, <2>2, UiIsLeftAlone
  <2>4. worker'.answer = "ok" => worker.answer = "ok"
    BY <2>2 DEF IInv, WorkerType
  <2>5. DaemonKeeps' /\ AnsweredIsStored'
    BY <2>1, <2>3, <2>4 DEF KInv, DaemonKeeps, AnsweredIsStored, HasChange
  <2> QED
    BY <2>3, <2>5 DEF KInv
<1>8. CASE Served
  <2>1. worker.op \in WorkerOps /\ worker.op.kind \notin {"fetch", "none"}
        /\ worker.answer = "none" /\ Begin(worker.op, "ui")
    BY <1>8, OpShape DEF Served, IInv, WorkerType, Waiting
  <2> QED
    BY <1>8, <2>1, BeginKeepsProfiles DEF Served, disk, ui, told
<1> QED
  BY <1>1, <1>2, <1>3, <1>4, <1>5, <1>6, <1>7, <1>8

\* The UI's steps leave the daemon's copies alone.
LEMMA PowerCutKeepsProfiles ==
  ASSUME IInv, KInv, PowerCut \/ UiRestarts
  PROVE  KInv'
<1>1. /\ settings' = IF file' = Broken THEN Defaults ELSE Copy(file')
      /\ pending' = Nothing /\ wantsReset' = FALSE /\ wantsAction' = Nothing
      /\ editing' = Nothing /\ worker' = Call(Fetch("first")) /\ kept' = kept
  BY DEF PowerCut, UiRestarts, UiFrom, disk
<1>2. file' \in Configs /\ KeptIn(kept, file')
  <2>1. CASE PowerCut
    BY <2>1 DEF PowerCut, IInv, DaemonType, KInv, DaemonKeeps
  <2>2. CASE UiRestarts
    BY <2>2 DEF UiRestarts, disk, IInv, DaemonType, KInv, DaemonKeeps
  <2> QED
    BY <2>1, <2>2
<1>3. settings'.profiles = file'.profiles
  BY <1>1, <1>2, ConfigShape
<1>4. UiKeeps'
  BY <1>1, <1>2, <1>3, KeptInSame DEF UiKeeps
<1>5. worker'.op = Fetch("first") /\ worker'.answer = "none"
  BY <1>1 DEF Call
<1>6. WorkerKeeps' /\ NoPromise' /\ AnsweredIsStored'
  BY <1>1, <1>5, PlainShape DEF WorkerKeeps, NoPromise, AnsweredIsStored, Edits
<1>7. DaemonKeeps'
  <2>1. CASE PowerCut
    BY <1>1, <1>2, <2>1 DEF PowerCut, DaemonKeeps
  <2>2. CASE UiRestarts
    BY <1>1, <2>2 DEF UiRestarts, daemon, disk, KInv, DaemonKeeps
  <2> QED
    BY <2>1, <2>2
<1> QED
  BY <1>1, <1>4, <1>6, <1>7 DEF KInv

\* A step of the user promises nothing, and perhaps takes a promise back.
LEMMA LessIsKept ==
  ASSUME KInv, UNCHANGED <<memory, up, saving, file, outcomes, worker>>,
         \A p \in Profiles: kept'[p] = kept[p] \/ kept'[p] = "absent",
         worker.op.kind = "reset" => kept' = kept \/ kept' = NoProfiles,
         Edits(worker.op) => worker.op.profile \in Profiles
  PROVE  /\ DaemonKeeps' /\ WorkerKeeps' /\ AnsweredIsStored'
         /\ worker.op.kind = "reset" => \A p \in Profiles: kept'[p] = "absent"
         /\ Edits(worker.op) => kept'[worker.op.profile] = "absent"
<1>1. \A c: KeptIn(kept, c) => KeptIn(kept', c)
  BY KeptInLess
<1>2. DaemonKeeps'
  BY <1>1 DEF KInv, DaemonKeeps
<1>3. WorkerKeeps'
  BY <1>1 DEF KInv, WorkerKeeps
<1>4. AnsweredIsStored'
  BY DEF KInv, AnsweredIsStored, HasChange
<1>5. worker.op.kind = "reset" => \A p \in Profiles: kept'[p] = "absent"
  BY DefaultsShape DEF KInv, NoPromise
<1>6. Edits(worker.op) => kept'[worker.op.profile] = "absent"
  BY DEF KInv, NoPromise
<1> QED
  BY <1>2, <1>3, <1>4, <1>5, <1>6

LEMMA EditedShape ==
  ASSUME IInv, Edits(worker.op)
  PROVE  worker.op \in ProfileOps /\ worker.op.profile \in Profiles
         /\ ContentOf(worker.op) \in Contents
BY OpShape, ProfileOpShape DEF IInv, WorkerType

LEMMA UserStepsKeepProfiles ==
  ASSUME IInv, KInv, BeginEdit \/ FinishEdit \/ AskReset \/ AskProfileAction
  PROVE  KInv'
<1>1. CASE BeginEdit
  <2>1. PICK ks \in SUBSET Keys: editing' = [settings EXCEPT !.prefs = ks]
    <3>1. PICK k \in Keys:
            editing' = [settings EXCEPT !.prefs =
                          IF k \in @ THEN @ \ {k} ELSE @ \union {k}]
      BY <1>1 DEF BeginEdit
    <3>2. settings.prefs \subseteq Keys
      BY ConfigShape DEF IInv, UiType
    <3> QED
      BY <3>1, <3>2
  <2>2. UNCHANGED <<memory, up, saving, file, outcomes, settings, pending,
                    wantsReset, wantsAction, worker, kept>>
    BY <1>1 DEF BeginEdit, daemon, disk, told
  <2>3. editing'.profiles = settings.profiles
    BY <2>1, PrefsShape DEF IInv, UiType
  <2>4. UiKeeps'
    BY <2>2, <2>3, KeptInSame DEF KInv, UiKeeps
  <2>5. DaemonKeeps' /\ WorkerKeeps' /\ NoPromise' /\ AnsweredIsStored'
    BY <2>2 DEF KInv, DaemonKeeps, WorkerKeeps, NoPromise, AnsweredIsStored, HasChange
  <2> QED
    BY <2>2, <2>4, <2>5 DEF KInv
<1>2. CASE FinishEdit
  <2>1. /\ editing # Nothing /\ settings' = editing /\ pending' = editing
        /\ editing' = Nothing
        /\ UNCHANGED <<memory, up, saving, file, outcomes, wantsReset, wantsAction,
                       worker, kept>>
    BY <1>2 DEF FinishEdit, daemon, disk, told
  <2>2. UiKeeps'
    BY <2>1 DEF KInv, UiKeeps
  <2>3. DaemonKeeps' /\ WorkerKeeps' /\ NoPromise' /\ AnsweredIsStored'
    BY <2>1 DEF KInv, DaemonKeeps, WorkerKeeps, NoPromise, AnsweredIsStored, HasChange
  <2> QED
    BY <2>1, <2>2, <2>3 DEF KInv
<1>3. CASE AskReset
  <2>1. /\ kept' = NoProfiles
        /\ UNCHANGED <<memory, up, saving, file, outcomes, settings, pending,
                       wantsAction, editing, worker>>
    BY <1>3 DEF AskReset, daemon, disk
  <2>2. \A p \in Profiles: kept'[p] = "absent"
    BY <2>1, DefaultsShape
  <2>3. DaemonKeeps' /\ WorkerKeeps' /\ AnsweredIsStored'
    BY <2>1, <2>2, LessIsKept, EditedShape
  <2>4. UiKeeps'
    BY <2>1, <2>2 DEF UiKeeps, KeptIn
  <2>5. NoPromise'
    <3>1. wantsAction # Nothing => wantsAction.profile \in Profiles
      BY ProfileOpShape DEF IInv, UiType
    <3> QED
      BY <2>1, <2>2, <3>1, EditedShape DEF KInv, NoPromise
  <2> QED
    BY <2>1, <2>3, <2>4, <2>5, DefaultsShape DEF KInv
<1>4. CASE AskProfileAction
  <2>1. PICK op \in ProfileOps:
          wantsAction' = op /\ kept' = [kept EXCEPT ![op.profile] = "absent"]
    BY <1>4 DEF AskProfileAction
  <2>2. /\ ~Edits(worker.op)
        /\ UNCHANGED <<memory, up, saving, file, outcomes, settings, pending,
                       wantsReset, editing, worker>>
    BY <1>4 DEF AskProfileAction, ActionInProgress, daemon, disk
  <2>3. op.profile \in Profiles
    BY ProfileOpShape
  <2>4. /\ kept' \in [Profiles -> Contents] /\ kept'[op.profile] = "absent"
        /\ \A p \in Profiles: kept'[p] = kept[p] \/ kept'[p] = "absent"
    BY <2>1, <2>3 DEF KInv, Contents
  <2>5. (\A p \in Profiles: kept[p] = "absent") => kept' = kept
    BY <2>1, <2>3 DEF KInv
  <2>6. worker.op.kind = "reset" => kept' = kept
    BY <2>5 DEF KInv, NoPromise
  <2>7. DaemonKeeps' /\ WorkerKeeps' /\ AnsweredIsStored'
    BY <2>2, <2>4, <2>6, LessIsKept, EditedShape
  <2>8. UiKeeps'
    <3>1. \A c: KeptIn(kept, c) => KeptIn(kept', c)
      BY <2>4, KeptInLess
    <3> QED
      BY <2>2, <3>1 DEF KInv, UiKeeps
  <2>9. NoPromise'
    BY <2>1, <2>2, <2>4, <2>5 DEF KInv, NoPromise
  <2> QED
    BY <2>4, <2>7, <2>8, <2>9 DEF KInv
<1> QED
  BY <1>1, <1>2, <1>3, <1>4

\* The worker's steps.
LEMMA CallShape ==
  /\ \A op: Call(op).op = op /\ Call(op).answer = "none"
  /\ Idle.op = Nothing /\ Idle.answer = "none"
  /\ Idle.op.kind = "none" /\ ~Edits(Idle.op)
BY PlainShape DEF Call, Idle, Edits

LEMMA TakeStepsKeepProfiles ==
  ASSUME IInv, KInv, TakeReset \/ TakeSave \/ TakeAction
  PROVE  KInv'
<1>1. /\ UNCHANGED <<memory, up, saving, file, outcomes, settings, editing, kept>>
      /\ worker = Idle
  BY DEF TakeReset, TakeSave, TakeAction, daemon, disk, told
<1>2. DaemonKeeps'
  BY <1>1 DEF KInv, DaemonKeeps
<1>3. saving # Nothing => saving.caller # "ui"
  BY <1>1, CallShape, IdleShape DEF IInv, CallerWaits
<1>4. CASE TakeReset
  <2>1. /\ wantsReset /\ wantsReset' = FALSE /\ worker' = Call(PlainOp("reset"))
        /\ UNCHANGED <<pending, wantsAction>>
    BY <1>4 DEF TakeReset
  <2>2. worker'.op.kind = "reset" /\ ~Edits(worker'.op)
    BY <2>1, CallShape, PlainShape DEF Edits
  <2>3. UiKeeps' /\ WorkerKeeps' /\ NoPromise' /\ AnsweredIsStored'
    BY <1>1, <2>1, <2>2 DEF KInv, UiKeeps, WorkerKeeps, NoPromise, AnsweredIsStored
  <2> QED
    BY <1>1, <1>2, <2>3 DEF KInv
<1>5. CASE TakeSave
  <2>1. /\ pending # Nothing /\ pending' = Nothing
        /\ worker' = Call(SetOp(pending)) /\ UNCHANGED <<wantsReset, wantsAction>>
    BY <1>5 DEF TakeSave
  <2>2. worker'.op.kind = "set" /\ ~Edits(worker'.op) /\ worker'.op.config = pending
    BY <2>1, CallShape DEF SetOp, Edits
  <2>3. UiKeeps' /\ WorkerKeeps' /\ NoPromise' /\ AnsweredIsStored'
    BY <1>1, <2>1, <2>2 DEF KInv, UiKeeps, WorkerKeeps, NoPromise, AnsweredIsStored
  <2> QED
    BY <1>1, <1>2, <2>3 DEF KInv
<1>6. CASE TakeAction
  <2>1. /\ wantsAction # Nothing /\ wantsAction' = Nothing
        /\ worker' = Call(wantsAction) /\ UNCHANGED <<pending, wantsReset>>
    BY <1>6 DEF TakeAction
  <2>2. worker'.op = wantsAction /\ worker'.answer = "none"
    BY <2>1, CallShape
  <2>3. wantsAction.kind \in {"create", "update", "delete"}
    BY <2>1, ProfileOpShape DEF IInv, UiType
  <2>4. UiKeeps' /\ WorkerKeeps' /\ NoPromise'
    BY <1>1, <2>1, <2>2, <2>3 DEF KInv, UiKeeps, WorkerKeeps, NoPromise
  <2>5. AnsweredIsStored'
    BY <1>1, <1>3, <2>2 DEF AnsweredIsStored
  <2> QED
    BY <1>1, <1>2, <2>4, <2>5 DEF KInv
<1> QED
  BY <1>4, <1>5, <1>6

LEMMA CallStepsKeepProfiles ==
  ASSUME IInv, KInv, Refused \/ Fetched
  PROVE  KInv'
<1>1. UNCHANGED <<memory, up, saving, file, outcomes, settings, pending,
                  wantsReset, wantsAction, editing, kept>>
  BY DEF Refused, Fetched, daemon, disk, ui, told
<1>2. CASE worker' = [worker EXCEPT !.answer = "error"]
  <2>1. worker'.op = worker.op /\ kept' \in [Profiles -> Contents] /\ UiKeeps'
        /\ WorkerKeeps' /\ NoPromise'
    BY <1>1, <1>2, UiIsLeftAlone
  <2>2. worker'.answer = "error"
    BY <1>2 DEF IInv, WorkerType
  <2>3. DaemonKeeps' /\ AnsweredIsStored'
    BY <1>1, <2>1, <2>2 DEF KInv, DaemonKeeps, AnsweredIsStored, HasChange
  <2> QED
    BY <2>1, <2>3 DEF KInv
<1>3. CASE /\ Fetched /\ up
           /\ worker' = [worker EXCEPT !.answer = "ok", !.config = Copy(memory)]
  <2>1. worker'.op = worker.op /\ worker'.config = Copy(memory)
        /\ worker.op.kind = "fetch" /\ ~Edits(worker.op)
    BY <1>3 DEF Fetched, IInv, WorkerType, Edits
  <2>2. KeptIn(kept, Copy(memory))
    BY <1>3, ConfigShape, KeptInSame DEF IInv, DaemonType, KInv, DaemonKeeps
  <2>3. WorkerKeeps' /\ NoPromise' /\ AnsweredIsStored'
    BY <1>1, <2>1, <2>2 DEF KInv, WorkerKeeps, NoPromise, AnsweredIsStored
  <2>4. DaemonKeeps' /\ UiKeeps'
    BY <1>1 DEF KInv, DaemonKeeps, UiKeeps
  <2> QED
    BY <1>1, <2>3, <2>4 DEF KInv
<1> QED
  BY <1>2, <1>3 DEF Refused, Fetched

LEMMA AfterStepsKeepProfiles ==
  ASSUME IInv, KInv,
         AfterReset \/ AfterOutcome \/ AfterFailedSave \/ AfterFetch \/ AfterFailedFetch
  PROVE  KInv'
<1>1. /\ UNCHANGED <<memory, up, saving, file, outcomes, wantsReset, wantsAction,
                     editing, kept>>
      /\ worker' = Idle \/ worker' = Call(Fetch("failed save"))
  BY DEF AfterReset, AfterOutcome, AfterFailedSave, AfterFetch, AfterFailedFetch,
         daemon, disk, ui, told
<1>2. worker'.op.kind \in {"none", "fetch"} /\ worker'.answer = "none"
      /\ ~Edits(worker'.op)
  BY <1>1, CallShape, PlainShape DEF Edits
<1>3. DaemonKeeps' /\ WorkerKeeps' /\ NoPromise' /\ AnsweredIsStored'
  BY <1>1, <1>2 DEF KInv, DaemonKeeps, WorkerKeeps, NoPromise, AnsweredIsStored
<1>4. UiKeeps'
  <2>1. CASE AfterReset
    <3>1. \A p \in Profiles: kept[p] = "absent"
      BY <2>1 DEF AfterReset, Done, KInv, NoPromise
    <3> QED
      BY <1>1, <3>1 DEF UiKeeps, KeptIn
  <2>2. CASE AfterOutcome \/ AfterFailedSave \/ AfterFailedFetch
    BY <1>1, <2>2 DEF AfterOutcome, AfterFailedSave, AfterFailedFetch, ui, KInv, UiKeeps
  <2>3. CASE AfterFetch
    <3>1. /\ settings' = IF TakesOver THEN worker.config ELSE settings
          /\ UNCHANGED pending /\ KeptIn(kept, worker.config)
      BY <2>3 DEF AfterFetch, Done, KInv, WorkerKeeps
    <3> QED
      BY <1>1, <3>1 DEF KInv, UiKeeps
  <2> QED
    BY <2>1, <2>2, <2>3
<1> QED
  BY <1>1, <1>3, <1>4 DEF KInv

\* An answered change is promised, unless a reset or an edit goes over it.
LEMMA AfterActionKeepsProfiles ==
  ASSUME IInv, KInv, AfterAction
  PROVE  KInv'
<1> DEFINE p == worker.op.profile
           content == ContentOf(worker.op)
           promised == [kept EXCEPT ![p] = content]
<1>1. /\ Edits(worker.op) /\ worker.answer = "ok"
      /\ settings' = WithProfile(settings, worker.op)
      /\ pending' = Repatched(p, content)
      /\ kept' = IF wantsReset \/ Overlaps THEN kept ELSE promised
      /\ worker' = Idle
      /\ UNCHANGED <<memory, up, saving, file, outcomes, wantsReset, wantsAction,
                     editing>>
  BY DEF AfterAction, daemon, disk
<1>2. worker.op \in ProfileOps /\ p \in Profiles /\ content \in Contents
  BY <1>1, EditedShape
<1>3. kept[p] = "absent" /\ wantsAction = Nothing
  BY <1>1 DEF KInv, NoPromise
<1>4. kept' \in [Profiles -> Contents]
  BY <1>1, <1>2 DEF KInv
<1>5. settings.profiles \in [Profiles -> Contents]
      /\ settings'.profiles = [settings.profiles EXCEPT ![p] = content]
  BY <1>1, <1>2, ConfigShape, WithProfileShape DEF IInv, UiType
<1>6. pending # Nothing => pending'.profiles = [settings.profiles EXCEPT ![p] = content]
  BY <1>1, <1>2, <1>5, RepatchedShape DEF IInv, UiType
<1>7. pending = Nothing => pending' = Nothing
  BY <1>1 DEF Repatched
<1>8. KeptIn(kept, settings') /\ KeptIn(promised, settings')
  <2>1. KeptIn(kept, settings)
    BY DEF KInv, UiKeeps
  <2> HIDE DEF p, content
  <2> QED
    BY <1>2, <1>3, <1>5, <2>1, KeptInChanged
<1>9. pending' # Nothing => KeptIn(kept, pending') /\ KeptIn(promised, pending')
  BY <1>5, <1>6, <1>7, <1>8, KeptInSame
<1>10. UiKeeps'
  <2>1. CASE kept' = kept
    BY <1>1, <1>8, <1>9, <2>1 DEF KInv, UiKeeps
  <2>2. CASE kept' = promised /\ editing = Nothing
    BY <1>1, <1>8, <1>9, <2>2 DEF UiKeeps
  <2> QED
    BY <1>1, <2>1, <2>2 DEF Overlaps
<1>11. DaemonKeeps'
  <2>1. ASSUME NEW c, KeptIn(kept, c), HasChange(c)
        PROVE  KeptIn(promised, c)
    <3> SUFFICES ASSUME NEW q \in Profiles, promised[q] # "absent"
                 PROVE  c.profiles[q] = promised[q]
      BY DEF KeptIn
    <3>1. CASE q = p
      BY <1>2, <2>1, <3>1 DEF KInv, HasChange
    <3>2. CASE q # p
      BY <1>2, <2>1, <3>2 DEF KInv, KeptIn
    <3> QED
      BY <3>1, <3>2
  <2>2. /\ \A c \in outcomes: HasChange(c)
        /\ HasChange(file) /\ (up => HasChange(memory))
        /\ saving # Nothing => HasChange(saving.config)
    BY <1>1 DEF KInv, AnsweredIsStored
  <2>3. CASE kept' = kept
    BY <1>1, <2>3 DEF KInv, DaemonKeeps
  <2>4. CASE kept' = promised
    <3>1. /\ \A c \in outcomes: KeptIn(promised, c)
          /\ KeptIn(promised, file) /\ (up => KeptIn(promised, memory))
          /\ saving # Nothing => KeptIn(promised, saving.config)
      BY <2>1, <2>2 DEF KInv, DaemonKeeps
    <3> HIDE DEF promised
    <3> QED
      BY <1>1, <2>4, <3>1 DEF DaemonKeeps
  <2> QED
    BY <1>1, <2>3, <2>4
<1>12. WorkerKeeps' /\ AnsweredIsStored'
  BY <1>1, CallShape DEF WorkerKeeps, AnsweredIsStored
<1>13. NoPromise'
  <2>1. wantsReset => kept' = kept
    BY <1>1
  <2> QED
    BY <1>1, <1>3, <2>1, CallShape DEF KInv, NoPromise
<1> QED
  BY <1>4, <1>10, <1>11, <1>12, <1>13 DEF KInv

LEMMA NextKeepsProfiles == IInv /\ KInv /\ [Next]_vars => KInv'
<1> SUFFICES ASSUME IInv, KInv, [Next]_vars PROVE KInv'
  OBVIOUS
<1>1. CASE Next
  BY <1>1, DaemonStepsKeepProfiles, PowerCutKeepsProfiles, UserStepsKeepProfiles,
     TakeStepsKeepProfiles, CallStepsKeepProfiles, AfterStepsKeepProfiles,
     AfterActionKeepsProfiles DEF Next
<1>2. CASE UNCHANGED vars
  <2>1. UNCHANGED <<memory, up, saving, file, outcomes, settings, pending,
                    wantsReset, wantsAction, editing, worker, kept>>
    BY <1>2 DEF vars, daemon, disk, ui, told
  <2>2. DaemonKeeps' /\ UiKeeps' /\ WorkerKeeps' /\ NoPromise'
    BY <2>1 DEF KInv, DaemonKeeps, UiKeeps, WorkerKeeps, NoPromise
  <2>3. AnsweredIsStored'
    BY <2>1 DEF KInv, AnsweredIsStored, HasChange
  <2> QED
    BY <2>1, <2>2, <2>3 DEF KInv
<1> QED
  BY <1>1, <1>2

LEMMA KInvKept == KInv => ProfilesKept
BY DEF KInv, DaemonKeeps, KeptIn, ProfilesKept

\* A saved profile that was confirmed to the user, and not between the two halves
\* of an edit, is never lost to a setting saved from an older copy, to a failed
\* save, a kill or a power cut.
THEOREM SavedProfilesStay == Spec => []ProfilesKept
<1>1. Init => IInv /\ KInv
  BY InitIInv, InitKInv
<1>2. IInv /\ KInv /\ [Next]_vars => (IInv /\ KInv)'
  BY NextKeeps, NextKeepsProfiles
<1>3. KInv => ProfilesKept
  BY KInvKept
<1> QED
  BY <1>1, <1>2, <1>3, PTL DEF Spec

-----------------------------------------------------------------------------
(* The two copies.  Between the UI's changes and its call they differ, and *)
(* an answered call is in the daemon's copy, which is the file when it is  *)
(* down.                                                                   *)
Same(c, d) == c.profiles = d.profiles /\ c.prefs = d.prefs
Current == IF up THEN memory ELSE file

\* What the call of the worker makes of c.
Gives(c, d) ==
  /\ Edits(worker.op) =>
       /\ d.profiles = [c.profiles EXCEPT ![worker.op.profile] = ContentOf(worker.op)]
       /\ d.prefs = c.prefs
  /\ worker.op.kind = "set" => Same(d, worker.op.config)
  /\ worker.op.kind = "reset" => Same(d, Defaults)

SavesCall ==
  saving # Nothing =>
    IF saving.caller = "ui" THEN Gives(memory, saving.config)
    ELSE Same(saving.config, memory)

AnsweredIsCurrent ==
  worker.answer = "ok" =>
    /\ worker.op.kind = "set" => Same(Current, worker.op.config)
    /\ worker.op.kind = "reset" => Same(Current, Defaults)
    /\ worker.op.kind = "fetch" => Same(Current, worker.config)

\* The worker brings nothing that the settings lack.
Undisturbed ==
  \/ worker.op.kind = "none"
  \/ worker.op.kind = "fetch" /\ worker.op.why = "first"
  \/ (Edits(worker.op) \/ worker.op.kind = "reset") /\ worker.answer # "ok"

UiFollows ==
  /\ pending # Nothing => Same(pending, settings)
  /\ pending = Nothing =>
       /\ Undisturbed => Same(settings, Current)
       /\ worker.op.kind = "set" => Same(settings, worker.op.config)
       /\ Edits(worker.op) /\ worker.answer = "ok" => Gives(settings, Current)

SInv == SavesCall /\ AnsweredIsCurrent /\ (~misled => UiFollows)

LEMMA SameShape ==
  /\ \A c: Same(c, c)
  /\ \A c, d: Same(c, d) => Same(d, c)
  /\ \A c, d, e: Same(c, d) /\ Same(d, e) => Same(c, e)
BY DEF Same

LEMMA InitSInv == Init => SInv
<1> SUFFICES ASSUME Init PROVE SInv
  OBVIOUS
<1>1. worker.op = Fetch("first") /\ worker.answer = "none"
  BY DEF Init, Call
<1>2. Current = Defaults /\ settings = Defaults /\ worker.op.kind = "fetch"
  BY <1>1, PlainShape DEF Init, Current
<1> QED
  BY <1>1, <1>2, SameShape DEF Init, SInv, SavesCall, AnsweredIsCurrent, UiFollows,
     Edits

\* The file has the daemon's settings unless it waits for nobody but the UI.
LEMMA FileIsCurrent ==
  ASSUME IInv, SavesCall
  PROVE  \/ Same(file, Current)
         \/ saving # Nothing /\ saving.caller = "ui" /\ saving.temp = "renamed" /\ Waiting
<1>1. CASE ~up
  BY <1>1, SameShape DEF Current
<1>2. CASE up /\ (saving = Nothing \/ saving.temp # "renamed")
  BY <1>2 DEF IInv, FileFollowsMemory, Current, Same
<1>3. CASE up /\ saving # Nothing /\ saving.temp = "renamed"
  BY <1>3 DEF IInv, FileFollowsMemory, CallerWaits, SavesCall, Current
<1> QED
  BY <1>1, <1>2, <1>3

\* A step that leaves the UI and the daemon's settings as they are.
LEMMA SettingsAreLeftAlone ==
  ASSUME SInv, UNCHANGED <<settings, pending>>, misled => misled',
         Same(Current', Current),
         worker'.op = worker.op, worker'.config = worker.config,
         worker'.answer = worker.answer
           \/ (worker'.answer = "error" /\ worker.answer = "none")
  PROVE  AnsweredIsCurrent' /\ (~misled' => UiFollows')
<1>1. AnsweredIsCurrent'
  BY DEF SInv, AnsweredIsCurrent, Same
<1>2. ASSUME ~misled' PROVE UiFollows'
  <2>1. UiFollows /\ (Undisturbed' => Undisturbed)
    BY <1>2 DEF SInv, Undisturbed
  <2> QED
    BY <2>1 DEF UiFollows, Same, Gives
<1> QED
  BY <1>1, <1>2

LEMMA CopiesAreLeftAlone ==
  ASSUME SInv, UNCHANGED <<settings, pending, misled, worker>>, Same(Current', Current)
  PROVE  AnsweredIsCurrent' /\ (~misled' => UiFollows')
<1>1. /\ worker'.op = worker.op /\ worker'.config = worker.config
      /\ worker'.answer = worker.answer /\ (misled => misled')
  OBVIOUS
<1> QED
  BY <1>1, SettingsAreLeftAlone

LEMMA ErrorShape ==
  ASSUME IInv, worker' = [worker EXCEPT !.answer = "error"]
  PROVE  worker'.op = worker.op /\ worker'.config = worker.config
         /\ worker'.answer = "error"
BY DEF IInv, WorkerType

\* The UI calls nothing that is being saved.
LEMMA SavesForOthers ==
  ASSUME IInv, SInv, UNCHANGED <<saving, memory>>,
         ~Waiting \/ worker.op.kind = "fetch" \/ saving = Nothing \/ ~up
  PROVE  SavesCall'
BY DEF IInv, CallerWaits, SInv, SavesCall

\* What a method saves.
LEMMA AppliedGives ==
  ASSUME IInv
  PROVE  /\ worker.op.kind \notin {"fetch", "none"} => Gives(memory, Applied(worker.op))
         /\ \A op \in {PlainOp("pause"), PlainOp("resume"), PlainOp("manual")}:
              Same(Applied(op), memory)
<1>1. memory \in Configs /\ worker.op \in WorkerOps /\ memory.paused \in BOOLEAN
  BY ConfigShape DEF IInv, DaemonType, WorkerType
<1>2. ASSUME worker.op.kind \notin {"fetch", "none"}
      PROVE  Gives(memory, Applied(worker.op))
  <2>0. /\ worker.op.kind \in {"reset", "set", "create", "update", "delete"}
        /\ (worker.op.kind = "set" => worker.op.config \in Configs)
        /\ (Edits(worker.op) => worker.op \in ProfileOps)
    BY <1>1, <1>2, OpShape
  <2>1. CASE Edits(worker.op)
    <3>1. /\ Applied(worker.op) = WithProfile(memory, worker.op)
          /\ worker.op.kind \notin {"set", "reset"}
      BY <2>0, <2>1 DEF Applied, Edits
    <3>2. WithProfile(memory, worker.op).prefs = memory.prefs
      BY <1>1 DEF WithProfile, Configs
    <3> QED
      BY <1>1, <2>0, <2>1, <3>1, <3>2, WithProfileShape DEF Gives
  <2>2. CASE worker.op.kind = "set"
    <3>1. Applied(worker.op) = [worker.op.config EXCEPT !.paused = memory.paused]
      BY <2>2 DEF Applied, Edits
    <3>2. Same(Applied(worker.op), worker.op.config)
      BY <1>1, <2>0, <2>2, <3>1, PausedShape DEF Same
    <3> QED
      BY <2>2, <3>2 DEF Gives, Edits
  <2>3. CASE worker.op.kind = "reset"
    BY <2>3, SameShape DEF Applied, Gives, Edits
  <2> QED
    BY <2>0, <2>1, <2>2, <2>3 DEF Edits
<1>3. ASSUME NEW op \in {PlainOp("pause"), PlainOp("resume"), PlainOp("manual")}
      PROVE  Same(Applied(op), memory)
  <2>1. op.kind \in {"pause", "resume", "manual"}
    BY DEF PlainOp
  <2>2. PICK b \in BOOLEAN: Applied(op) = [memory EXCEPT !.paused = b]
    BY <2>1 DEF Applied, Edits
  <2> QED
    BY <1>1, <2>2, PausedShape DEF Same
<1> QED
  BY <1>2, <1>3

LEMMA SaveStepsKeepSettings ==
  ASSUME IInv, SInv, SyncTemp \/ Rename \/ SaveFails
  PROVE  SInv'
<1>1. /\ saving # Nothing /\ up /\ up' = up
      /\ UNCHANGED <<settings, pending, misled>>
      /\ saving.caller = "ui" => worker.answer = "none"
  BY DEF SyncTemp, Rename, SaveFails, disk, ui, told, IInv, CallerWaits, Waiting
<1>2. CASE SyncTemp \/ Rename
  <2>1. /\ \E t \in {"synced", "renamed"}: saving' = [saving EXCEPT !.temp = t]
        /\ UNCHANGED <<memory, worker>>
    BY <1>2 DEF SyncTemp, Rename
  <2>2. saving'.config = saving.config /\ saving'.caller = saving.caller
    BY <1>1, <2>1, SavingShape DEF IInv
  <2>3. SavesCall'
    BY <1>1, <2>1, <2>2 DEF SInv, SavesCall, Gives
  <2>4. Same(Current', Current)
    BY <1>1, <2>1 DEF Current, Same
  <2> QED
    BY <1>1, <2>1, <2>3, <2>4, CopiesAreLeftAlone DEF SInv
<1>3. CASE SaveFails
  <2>1. /\ memory' = KeptOnFailure /\ saving' = Nothing
        /\ Answered(saving.caller, "error")
    BY <1>3 DEF SaveFails
  <2>2. Same(memory', memory)
    BY <1>1, <2>1, SameShape DEF KeptOnFailure, IInv, FileFollowsMemory, Same
  <2>3. Same(Current', Current)
    BY <1>1, <2>2 DEF Current
  <2>4. \/ worker' = worker
        \/ worker' = [worker EXCEPT !.answer = "error"] /\ worker.answer = "none"
    BY <1>1, <2>1 DEF Answered
  <2>5. /\ worker'.op = worker.op /\ worker'.config = worker.config
        /\ worker'.answer = worker.answer
             \/ (worker'.answer = "error" /\ worker.answer = "none")
    BY <2>4, ErrorShape
  <2>6. SavesCall'
    BY <2>1 DEF SavesCall
  <2> QED
    BY <1>1, <2>3, <2>5, <2>6, SettingsAreLeftAlone DEF SInv
<1> QED
  BY <1>2, <1>3

LEMMA StoredKeepsSettings ==
  ASSUME IInv, SInv, Stored
  PROVE  SInv'
<1>1. /\ saving # Nothing /\ memory' = saving.config /\ saving' = Nothing
      /\ Answered(saving.caller, "ok") /\ up /\ up' = up
      /\ UNCHANGED <<settings, pending, misled>>
  BY DEF Stored, ui, told, IInv, CallerWaits
<1>2. SavesCall' /\ Current = memory /\ Current' = saving.config
  BY <1>1 DEF SavesCall, Current
<1>3. CASE saving.caller = "ui"
  <2>1. /\ Gives(memory, saving.config) /\ worker.answer = "none"
        /\ worker.op.kind # "fetch" /\ worker.op # Nothing
    BY <1>1, <1>3 DEF SInv, SavesCall, IInv, CallerWaits, Waiting
  <2>2. worker'.op = worker.op /\ worker'.answer = "ok"
    BY <1>1, <1>3 DEF Answered, IInv, WorkerType
  <2>3. worker.op.kind \in {"reset", "set", "create", "update", "delete"}
    BY <2>1, OpShape DEF IInv, WorkerType
  <2>4. AnsweredIsCurrent'
    BY <1>2, <2>1, <2>2, <2>3 DEF AnsweredIsCurrent, Gives
  <2>5. ASSUME ~misled' PROVE UiFollows'
    <3>1. UiFollows
      BY <1>1, <2>5 DEF SInv
    <3>2. ~Undisturbed'
      BY <2>2, <2>3 DEF Undisturbed
    <3>4. pending = Nothing /\ Edits(worker.op) => Gives(settings, Current)'
      <4>1. ASSUME pending = Nothing, Edits(worker.op)
            PROVE  Gives(settings, Current)'
        <5>1. Same(settings, memory)
          BY <1>2, <2>1, <3>1, <4>1 DEF UiFollows, Undisturbed
        <5> QED
          BY <1>1, <1>2, <2>1, <2>2, <5>1 DEF Gives, Same
      <4> QED
        BY <4>1
    <3> QED
      BY <1>1, <2>2, <3>1, <3>2, <3>4 DEF UiFollows
  <2> QED
    BY <1>2, <2>4, <2>5 DEF SInv
<1>4. CASE saving.caller # "ui"
  <2>1. worker' = worker /\ Same(Current', Current)
    BY <1>1, <1>2, <1>4 DEF Answered, SInv, SavesCall
  <2> QED
    BY <1>1, <1>2, <2>1, CopiesAreLeftAlone DEF SInv
<1> QED
  BY <1>3, <1>4

LEMMA BeginsKeepSettings ==
  ASSUME IInv, SInv, OtherMethod \/ Served
  PROVE  SInv'
<1>1. /\ UNCHANGED <<memory, up, file, worker, settings, pending, misled>>
  BY DEF OtherMethod, Served, Begin, disk, ui, told
<1>2. SavesCall'
  <2>1. CASE OtherMethod
    <3>1. PICK op \in {PlainOp("pause"), PlainOp("resume"), PlainOp("manual")}:
            Begin(op, "other")
      BY <2>1 DEF OtherMethod
    <3>2. saving'.config = Applied(op) /\ saving'.caller = "other"
      BY <3>1 DEF Begin
    <3> QED
      BY <1>1, <3>2, AppliedGives DEF SavesCall
  <2>2. CASE Served
    <3>1. /\ worker.op.kind \notin {"fetch", "none"}
          /\ saving'.config = Applied(worker.op) /\ saving'.caller = "ui"
      BY <2>2, OpShape DEF Served, Begin, Waiting, IInv, WorkerType
    <3> QED
      BY <1>1, <3>1, AppliedGives DEF SavesCall, Gives
  <2> QED
    BY <2>1, <2>2
<1>3. Same(Current', Current)
  BY <1>1 DEF Current, Same
<1> QED
  BY <1>1, <1>2, <1>3, CopiesAreLeftAlone DEF SInv

LEMMA StartKeepsSettings ==
  ASSUME IInv, SInv, Start
  PROVE  SInv'
<1>1. /\ ~up /\ up' /\ memory' = file /\ saving = Nothing /\ saving' = Nothing
      /\ UNCHANGED <<worker, settings, pending, misled>>
  BY ConfigShape DEF Start, disk, ui, told, IInv, DaemonType, CallerWaits
<1>2. Same(Current', Current)
  BY <1>1 DEF Current, Same
<1> QED
  BY <1>1, <1>2, CopiesAreLeftAlone DEF SInv, SavesCall

LEMMA KillKeepsSettings ==
  ASSUME IInv, SInv, Kill
  PROVE  SInv'
<1>1. /\ up /\ ~up' /\ saving' = Nothing
      /\ worker' = IF Waiting THEN [worker EXCEPT !.answer = "error"] ELSE worker
      /\ misled' = (misled \/ StoredUnnoticed)
      /\ UNCHANGED <<file, settings, pending>>
  BY DEF Kill, disk, ui
<1>2. /\ worker'.op = worker.op /\ worker'.config = worker.config
      /\ worker'.answer = worker.answer
           \/ (worker'.answer = "error" /\ worker.answer = "none")
  BY <1>1, ErrorShape DEF Waiting
<1>3. SavesCall' /\ Current' = file
  BY <1>1 DEF SavesCall, Current
<1>4. CASE Same(file, Current)
  BY <1>1, <1>2, <1>3, <1>4, SettingsAreLeftAlone DEF SInv
<1>5. CASE saving # Nothing /\ saving.caller = "ui" /\ Waiting /\ saving.temp = "renamed"
  <2>1. worker.op.kind # "fetch" /\ worker'.answer = "error"
    BY <1>1, <1>5 DEF IInv, CallerWaits, WorkerType
  <2>2. AnsweredIsCurrent'
    BY <2>1 DEF AnsweredIsCurrent
  <2>3. ASSUME ~misled' PROVE UiFollows'
    <3>1. UiFollows /\ (worker.op.kind = "set" \/ pending # Nothing)
      BY <1>1, <1>5, <2>1, <2>3 DEF SInv, StoredUnnoticed
    <3> QED
      BY <1>1, <1>2, <2>1, <3>1 DEF UiFollows, Undisturbed, Edits
  <2> QED
    BY <1>3, <2>2, <2>3 DEF SInv
<1> QED
  BY <1>4, <1>5, FileIsCurrent DEF SInv

LEMMA NewUiKeepsSettings ==
  ASSUME IInv, SInv, PowerCut \/ UiRestarts
  PROVE  SInv'
<1>1. /\ settings' = IF file' = Broken THEN Defaults ELSE Copy(file')
      /\ pending' = Nothing /\ worker' = Call(Fetch("first"))
  BY DEF PowerCut, UiRestarts, UiFrom, disk
<1>2. file' \in Configs
  BY DEF PowerCut, UiRestarts, disk, IInv, DaemonType
<1>3. Same(settings', file')
  BY <1>1, <1>2, ConfigShape DEF Same
<1>4. worker'.op.kind = "fetch" /\ worker'.answer = "none"
  BY <1>1, PlainShape DEF Call
<1>5. Same(file', Current') /\ SavesCall'
  <2>1. CASE PowerCut
    BY <2>1, SameShape DEF PowerCut, Current, SavesCall
  <2>2. CASE UiRestarts
    <3>1. worker = Idle /\ UNCHANGED <<memory, up, saving, file>>
      BY <2>2 DEF UiRestarts, daemon, disk
    <3> QED
      BY <3>1, IdleShape, FileIsCurrent, SavesForOthers DEF SInv, Current
  <2> QED
    BY <2>1, <2>2
<1>6. UiFollows'
  BY <1>1, <1>3, <1>4, <1>5, SameShape DEF UiFollows, Edits
<1> QED
  BY <1>4, <1>5, <1>6 DEF SInv, AnsweredIsCurrent

LEMMA UserStepsKeepSettings ==
  ASSUME IInv, SInv, BeginEdit \/ FinishEdit \/ AskReset \/ AskProfileAction
  PROVE  SInv'
<1>1. UNCHANGED <<memory, up, saving, file, worker>>
  BY DEF BeginEdit, FinishEdit, AskReset, AskProfileAction, daemon, disk
<1>2. SavesCall' /\ Current' = Current
  BY <1>1 DEF SInv, SavesCall, Gives, Current
<1>3. CASE BeginEdit \/ AskReset \/ AskProfileAction
  <2>1. UNCHANGED <<settings, pending, misled>>
    BY <1>3 DEF BeginEdit, AskReset, AskProfileAction, told
  <2> QED
    BY <1>1, <1>2, <2>1, SameShape, CopiesAreLeftAlone DEF SInv
<1>4. CASE FinishEdit
  <2>1. settings' = editing /\ pending' = editing /\ editing # Nothing
    BY <1>4 DEF FinishEdit
  <2>2. UiFollows'
    BY <2>1, SameShape DEF UiFollows
  <2> QED
    BY <1>1, <1>2, <2>2 DEF SInv, AnsweredIsCurrent
<1> QED
  BY <1>3, <1>4

LEMMA TakeStepsKeepSettings ==
  ASSUME IInv, SInv, TakeReset \/ TakeSave \/ TakeAction
  PROVE  SInv'
<1>1. /\ UNCHANGED <<memory, up, saving, file, settings, misled>>
      /\ worker = Idle /\ worker'.answer = "none"
  BY CallShape DEF TakeReset, TakeSave, TakeAction, daemon, disk, told
<1>2. SavesCall' /\ Current' = Current /\ AnsweredIsCurrent'
  BY <1>1, IdleShape, SavesForOthers DEF Current, AnsweredIsCurrent
<1>3. ASSUME ~misled' PROVE UiFollows'
  <2>1. UiFollows /\ (pending = Nothing => Same(settings, Current))
    BY <1>1, <1>3, CallShape DEF SInv, UiFollows, Undisturbed
  <2>2. CASE TakeSave
    <3>1. /\ pending' = Nothing /\ worker'.op = SetOp(pending) /\ pending # Nothing
      BY <2>2, CallShape DEF TakeSave
    <3>2. worker'.op.kind = "set" /\ worker'.op.config = pending
      BY <3>1 DEF SetOp
    <3> QED
      BY <1>1, <2>1, <3>1, <3>2, SameShape DEF UiFollows, Undisturbed, Edits
  <2>3. CASE TakeReset
    <3>1. pending' = pending /\ worker'.op.kind = "reset"
      BY <2>3, CallShape, PlainShape DEF TakeReset
    <3> QED
      BY <1>1, <1>2, <2>1, <3>1 DEF UiFollows, Edits
  <2>4. CASE TakeAction
    <3>1. pending' = pending /\ worker'.op = wantsAction /\ wantsAction \in ProfileOps
      BY <2>4, CallShape DEF TakeAction, IInv, UiType
    <3>2. worker'.op.kind \in {"create", "update", "delete"}
      BY <3>1, ProfileOpShape
    <3> QED
      BY <1>1, <1>2, <2>1, <3>1, <3>2 DEF UiFollows
  <2> QED
    BY <2>2, <2>3, <2>4
<1> QED
  BY <1>2, <1>3 DEF SInv

LEMMA CallStepsKeepSettings ==
  ASSUME IInv, SInv, Refused \/ Fetched
  PROVE  SInv'
<1>1. UNCHANGED <<memory, up, saving, file, settings, pending, misled>>
  BY DEF Refused, Fetched, daemon, disk, ui, told
<1>2. SavesCall' /\ Current' = Current
  BY <1>1, SavesForOthers DEF Refused, Fetched, Current
<1>3. CASE worker' = [worker EXCEPT !.answer = "error"]
  <2>1. /\ worker'.op = worker.op /\ worker'.config = worker.config
        /\ worker'.answer = "error" /\ worker.answer = "none"
    BY <1>3 DEF Refused, Fetched, Waiting, IInv, WorkerType
  <2> QED
    BY <1>1, <1>2, <2>1, SameShape, SettingsAreLeftAlone DEF SInv
<1>4. CASE /\ Fetched /\ up
           /\ worker' = [worker EXCEPT !.answer = "ok", !.config = Copy(memory)]
  <2>1. /\ worker'.op = worker.op /\ worker'.config = Copy(memory)
        /\ worker.op.kind = "fetch"
    BY <1>4 DEF Fetched, IInv, WorkerType
  <2>2. Same(Current, Copy(memory))
    BY <1>4, ConfigShape DEF IInv, DaemonType, Current, Same
  <2>3. AnsweredIsCurrent'
    BY <1>2, <2>1, <2>2 DEF AnsweredIsCurrent
  <2>4. ~misled' => UiFollows'
    BY <1>1, <1>2, <2>1 DEF SInv, UiFollows, Undisturbed, Edits
  <2> QED
    BY <1>2, <2>3, <2>4 DEF SInv
<1> QED
  BY <1>3, <1>4 DEF Refused, Fetched

LEMMA AfterStepsKeepSettings ==
  ASSUME IInv, SInv,
         AfterReset \/ AfterOutcome \/ AfterFailedSave \/ AfterFetch \/ AfterFailedFetch
  PROVE  SInv'
<1>1. UNCHANGED <<memory, up, saving, file>> /\ ~Waiting
  BY DEF AfterReset, AfterOutcome, AfterFailedSave, AfterFetch, AfterFailedFetch,
         Done, Waiting, daemon, disk
<1>2. SavesCall' /\ Current' = Current
  BY <1>1, SavesForOthers DEF Current
<1>3. worker'.answer = "none" /\ (worker' = Idle \/ worker' = Call(Fetch("failed save")))
  BY CallShape DEF AfterReset, AfterOutcome, AfterFailedSave, AfterFetch, AfterFailedFetch
<1>4. AnsweredIsCurrent'
  BY <1>3 DEF AnsweredIsCurrent
<1>5. worker' = Idle => worker'.op.kind = "none"
  BY CallShape
<1>6. CASE AfterReset
  <2>1. settings' = Defaults /\ pending' = Nothing /\ worker' = Idle
        /\ Same(Current, Defaults)
    BY <1>6 DEF AfterReset, Done, SInv, AnsweredIsCurrent
  <2>2. UiFollows'
    BY <1>2, <1>5, <2>1, SameShape DEF UiFollows, Edits
  <2> QED
    BY <1>2, <1>4, <2>2 DEF SInv
<1>7. CASE AfterOutcome
  <2>1. /\ UNCHANGED <<settings, pending, misled>> /\ worker' = Idle
        /\ \/ worker.op.kind = "set" /\ worker.answer = "ok"
           \/ worker.answer = "error" /\ worker.op.kind \notin {"set", "fetch"}
    BY <1>7 DEF AfterOutcome, Done, ui, told
  <2>2. ASSUME UiFollows, pending = Nothing PROVE Same(settings, Current)
    <3>1. CASE worker.op.kind = "set" /\ worker.answer = "ok"
      BY <2>2, <3>1, SameShape DEF UiFollows, SInv, AnsweredIsCurrent
    <3>2. CASE worker.answer = "error" /\ worker.op.kind \notin {"set", "fetch"}
      BY <2>2, <3>2, OpShape DEF UiFollows, Undisturbed, IInv, WorkerType, Edits
    <3> QED
      BY <2>1, <3>1, <3>2
  <2>3. UiFollows => UiFollows'
    BY <1>2, <1>5, <2>1, <2>2 DEF UiFollows, Edits
  <2> QED
    BY <1>2, <1>4, <2>1, <2>3 DEF SInv
<1>8. CASE AfterFailedSave
  <2>1. UNCHANGED <<settings, pending, misled>> /\ worker'.op = Fetch("failed save")
    BY <1>8, CallShape DEF AfterFailedSave, ui, told
  <2>2. worker'.op.kind = "fetch" /\ worker'.op.why = "failed save"
    BY <2>1, PlainShape
  <2>3. UiFollows => UiFollows'
    BY <2>1, <2>2 DEF UiFollows, Undisturbed, Edits
  <2> QED
    BY <1>2, <1>4, <2>1, <2>3 DEF SInv
<1>9. CASE AfterFetch
  <2>1. /\ settings' = (IF TakesOver THEN worker.config ELSE settings)
        /\ worker' = Idle /\ pending' = pending
        /\ misled' = (IF worker.op.why = "first" THEN misled ELSE pending # Nothing)
        /\ Same(Current, worker.config) /\ worker.op.kind = "fetch"
    BY <1>9 DEF AfterFetch, Done, SInv, AnsweredIsCurrent
  <2>2. ASSUME TakesOver, ~misled' PROVE UiFollows'
    <3>1. pending = Nothing
      BY <2>1, <2>2 DEF TakesOver
    <3> QED
      BY <1>2, <1>5, <2>1, <2>2, <3>1, SameShape DEF UiFollows, Edits
  <2>3. ASSUME ~TakesOver, ~misled' PROVE UiFollows'
    <3>1. worker.op.why = "first" /\ settings' = settings /\ UiFollows
      BY <2>1, <2>3 DEF TakesOver, SInv
    <3> QED
      BY <1>2, <1>5, <2>1, <3>1 DEF UiFollows, Undisturbed, Edits
  <2> QED
    BY <1>2, <1>4, <2>2, <2>3 DEF SInv
<1>10. CASE AfterFailedFetch
  <2>1. /\ UNCHANGED <<settings, pending>> /\ worker' = Idle
        /\ misled' = (misled \/ (worker.op.why # "first" /\ pending = Nothing))
        /\ worker.op.kind = "fetch"
    BY <1>10 DEF AfterFailedFetch, Done, ui
  <2>2. ASSUME ~misled' PROVE UiFollows'
    <3>1. UiFollows /\ (worker.op.why = "first" \/ pending # Nothing)
      BY <2>1, <2>2 DEF SInv
    <3> QED
      BY <1>2, <1>5, <2>1, <3>1 DEF UiFollows, Undisturbed, Edits
  <2> QED
    BY <1>2, <1>4, <2>2 DEF SInv
<1> QED
  BY <1>6, <1>7, <1>8, <1>9, <1>10

LEMMA AfterActionKeepsSettings ==
  ASSUME IInv, SInv, AfterAction
  PROVE  SInv'
<1> DEFINE p == worker.op.profile
           content == ContentOf(worker.op)
           changed == [settings.profiles EXCEPT ![p] = content]
<1>1. /\ Edits(worker.op) /\ worker.answer = "ok"
      /\ settings' = WithProfile(settings, worker.op)
      /\ pending' = Repatched(p, content)
      /\ worker' = Idle
      /\ UNCHANGED <<memory, up, saving, file, misled>>
  BY DEF AfterAction, daemon, disk
<1>2. ~Waiting /\ worker'.op.kind = "none" /\ worker'.answer = "none"
  BY <1>1, CallShape DEF Waiting
<1>3. SavesCall' /\ Current' = Current /\ AnsweredIsCurrent'
  BY <1>1, <1>2, SavesForOthers DEF Current, AnsweredIsCurrent
<1>4. settings \in Configs /\ worker.op \in ProfileOps
  BY <1>1, EditedShape DEF IInv, UiType
<1>5. settings'.profiles = changed /\ settings'.prefs = settings.prefs
  BY <1>1, <1>4, WithProfileShape DEF WithProfile, Configs
<1>6. ASSUME ~misled' PROVE UiFollows'
  <2>1. UiFollows
    BY <1>1, <1>6 DEF SInv
  <2>2. CASE pending = Nothing
    <3>1. pending' = Nothing /\ Gives(settings, Current)
      BY <1>1, <2>1, <2>2 DEF UiFollows, Repatched
    <3>2. Same(settings', Current)
      BY <1>1, <1>5, <3>1 DEF Gives, Same
    <3> QED
      BY <1>2, <1>3, <3>1, <3>2 DEF UiFollows, Edits
  <2>3. CASE pending # Nothing
    <3>1. pending' = [pending EXCEPT !.profiles = changed] /\ pending \in Configs
      BY <1>1, <2>3 DEF Repatched, IInv, UiType
    <3>2. pending'.profiles = changed /\ pending'.prefs = pending.prefs
      BY <3>1 DEF Configs
    <3>3. Same(pending', settings') /\ pending' # Nothing
      <4>1. DOMAIN pending' = {"profiles", "prefs", "paused"} /\ DOMAIN Nothing = {"kind"}
        BY <3>1 DEF Configs, Nothing
      <4> QED
        BY <1>5, <2>1, <2>3, <3>2, <4>1 DEF UiFollows, Same
    <3> QED
      BY <3>3 DEF UiFollows
  <2> QED
    BY <2>2, <2>3
<1> QED
  BY <1>3, <1>6 DEF SInv

LEMMA NextKeepsSettings == IInv /\ SInv /\ [Next]_vars => SInv'
<1> SUFFICES ASSUME IInv, SInv, [Next]_vars PROVE SInv'
  OBVIOUS
<1>1. CASE Next
  BY <1>1, SaveStepsKeepSettings, StoredKeepsSettings, BeginsKeepSettings,
     StartKeepsSettings, KillKeepsSettings, NewUiKeepsSettings, UserStepsKeepSettings,
     TakeStepsKeepSettings, CallStepsKeepSettings, AfterStepsKeepSettings,
     AfterActionKeepsSettings DEF Next
<1>2. CASE UNCHANGED vars
  <2>1. UNCHANGED <<memory, up, saving, file, settings, pending, worker, misled>>
    BY <1>2 DEF vars, daemon, disk, ui, told
  <2>2. SavesCall' /\ Current' = Current
    BY <2>1 DEF SInv, SavesCall, Gives, Current
  <2> QED
    BY <2>1, <2>2, SameShape, CopiesAreLeftAlone DEF SInv
<1> QED
  BY <1>1, <1>2

\* Once every change of the UI is saved and every answer is taken over, the
\* settings it shows are those of the daemon, or there was, since the last edit
\* or reset: a profile action or a reset in the file whose answer was lost with
\* the daemon, or a failed save after which the configuration could not be read
\* or was read over an edit that waited.
THEOREM SettledCopiesAgree == Spec => []SettingsAgree
<1>1. Init => IInv /\ SInv
  BY InitIInv, InitSInv
<1>2. IInv /\ SInv /\ [Next]_vars => (IInv /\ SInv)'
  BY NextKeeps, NextKeepsSettings
<1>3. SInv => SettingsAgree
  <2> SUFFICES ASSUME SInv, Settled, ~misled PROVE Same(settings, memory)
    BY DEF SettingsAgree, Same
  <2>1. worker.op.kind = "none" /\ Current = memory /\ UiFollows /\ pending = Nothing
    BY CallShape DEF SInv, Settled, Current
  <2> QED
    BY <2>1 DEF UiFollows, Undisturbed
<1> QED
  BY <1>1, <1>2, <1>3, PTL DEF Spec

=============================================================================
