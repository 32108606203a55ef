--------------------------- MODULE KeyboardLighting ---------------------------
(***************************************************************************)
(* set_lighting of a session daemon and what the daemon reports of it      *)
(* (rog-daemon/src/main.rs), composed with AuraHelper: the daemon is one   *)
(* of the helper's callers, the others are daemons of other sessions.      *)
(*                                                                         *)
(* The daemon chooses its backend when it starts: asusd, whose effect it   *)
(* reads, changes and writes back; the native HID backend, which cannot be *)
(* read, so that fields a request leaves out come from the request the     *)
(* daemon recorded last; or the brightness of the keyboard LED alone.      *)
(* An effect is its mode and its colour; speed, direction and the second   *)
(* colour are kept and dropped as the colour is.                           *)
(***************************************************************************)
EXTENDS AuraHelper

CONSTANTS
  Daemon,    \* the caller this module is about
  ModeOf,    \* the mode of an effect
  ColourOf   \* its colour, None if the mode takes none

Modes == {ModeOf[e] : e \in Effects}
Colours == {ColourOf[e] : e \in Effects}

ASSUME LightingAssumption ==
  /\ Daemon \in Callers
  /\ DOMAIN ModeOf = Effects /\ DOMAIN ColourOf = Effects
  /\ \A d, e \in Effects :
       ModeOf[d] = ModeOf[e] /\ ColourOf[d] = ColourOf[e] => d = e

VARIABLES
  backend,       \* chosen at start: asusd, native, sysfs
  set,           \* the set_lighting call that holds hardware_control_lock
  recorded,      \* native_lighting.request
  outcome,       \* native_lighting.outcome
  foreign,       \* history: someone else touched the keyboard after the record
  repeated,      \* history: it was answered by suppressing a repeat, after an
                 \* effect of this daemon had broken off
  mixers         \* history: whose effects, "own" or "others", have left the
                 \* keyboard between two since the last complete write

report == <<recorded, outcome>>
touched == <<foreign, repeated, mixers>>
lightingVars ==
  <<vars, backend, set, report, touched>>

Idle == [at |-> "idle", effect |-> None, level |-> FALSE]
Busy(at, effect, lvl) == [at |-> at, effect |-> effect, level |-> lvl]

(* A request names a mode, a colour, a level, or several of them.          *)
Wishes ==
  {w \in [mode : Modes \union {None, "static", "off"}, colour : Colours \union {None},
          level : BOOLEAN] :
     w.mode # None \/ w.colour # None \/ w.level}
ForEffect(wish) == wish.mode # None \/ wish.colour # None

-----------------------------------------------------------------------------
(* The effect that a mode and a colour make: a colour that the mode does   *)
(* not take is dropped, and there is none if one is missing.               *)
Supported(mode, colour) ==
  {e \in Effects : ModeOf[e] = mode /\ ColourOf[e] \in {None, colour}}

(* Mutant: fields that the request leaves out are not taken over. *)
MergedAfresh(wish) ==
  Supported(IF wish.mode # None THEN wish.mode ELSE "static", wish.colour)

(* The request, with the fields it leaves out taken from the recorded one. *)
Merged(wish) ==
  Supported(IF wish.mode # None THEN wish.mode
            ELSE IF recorded # None THEN ModeOf[recorded] ELSE "static",
            IF wish.colour # None THEN wish.colour
            ELSE IF recorded # None THEN ColourOf[recorded] ELSE None)

(* asusd's effect, whatever it is, with the fields of the request put into *)
(* it.                                                                     *)
Changed(wish) ==
  {e \in Effects :
     /\ wish.mode # None => ModeOf[e] = wish.mode
     /\ wish.colour # None /\ ColourOf[e] # None => ColourOf[e] = wish.colour}

(* The probe of asusd finds it with an interface that is known, finds only *)
(* its service, or fails and finds nothing.                                *)
AsusdProbed == IF asusd THEN {"verified", "detected", "none"} ELSE {"none"}

(* The scan for the one HID device that is supported.                      *)
NativeFound == device # 0

(* The backend of a daemon that starts now: a service of asusd suppresses  *)
(* native HID even if its interface is not known.                          *)
Selectable ==
  {CASE probed = "verified" -> "asusd"
     [] probed = "none" /\ NativeFound -> "native"
     [] OTHER -> "sysfs" : probed \in AsusdProbed}

LightingInit ==
  /\ Init
  /\ backend \in Selectable
  /\ set = Idle
  /\ recorded = None /\ outcome = "none"
  /\ foreign = FALSE /\ repeated = FALSE /\ mixers = {}

-----------------------------------------------------------------------------
\* Native: the validated request goes to the helper.
NativeAsks(wish) ==
  /\ backend = "native" /\ set = Idle /\ ForEffect(wish)
  /\ \E e \in Merged(wish) :
       /\ Ask(Daemon) /\ call'[Daemon].request = e
       /\ set' = Busy("waiting", e, wish.level)
  /\ UNCHANGED <<backend, report, touched>>

\* The helper's answer, an error or the loss of the answer.
Fails ==
  /\ outcome' = "failed"
  /\ set' = Idle
  /\ UNCHANGED recorded

\* asusd owns the keyboard, the device is gone, or the helper is.
NativeIsRefused(wish) ==
  /\ backend = "native" /\ set = Idle /\ ForEffect(wish)
  /\ Merged(wish) # {}
  /\ Fails
  /\ UNCHANGED <<vars, backend, touched>>

\* The helper's steps for this daemon.
HelperWorks ==
  /\ \/ /\ Lock(Daemon) \/ Proceed(Daemon) \/ CheckOwner(Daemon)
        /\ UNCHANGED mixers
     \/ SendReport(Daemon) /\ mixers' = mixers \union {"own"}
  /\ UNCHANGED <<backend, set, report, foreign, repeated>>

\* A complete effect ends all mixtures, unless asusd took over meanwhile.
Completes(c) ==
  SendLastReport(c) /\ mixers' = IF asusd THEN {"others"} ELSE {}

\* The last report is written, or the request is one that need not be.
HelperFinishes ==
  /\ Completes(Daemon) \/ (Suppress(Daemon) /\ UNCHANGED mixers)
  /\ foreign' = ("others" \in mixers') /\ repeated' = ("own" \in mixers')
  /\ set' = [set EXCEPT !.at = "answered"]
  /\ UNCHANGED <<backend, report>>

\* Mutant: a failure is not recorded.
HelperRefusesUnrecorded ==
  /\ Refuse(Daemon) \/ Abort(Daemon)
  /\ set' = Idle
  /\ UNCHANGED <<backend, report, touched>>

HelperRefuses ==
  /\ Refuse(Daemon) \/ Abort(Daemon)
  /\ Fails
  /\ UNCHANGED <<backend, touched>>

\* A helper that exits takes the answer with it.
HelperExits ==
  /\ HelperRestarts
  /\ IF set.at \in {"waiting", "answered"} THEN Fails
     ELSE UNCHANGED <<set, report>>
  /\ UNCHANGED <<backend, touched>>

NativeRecords ==
  /\ set.at = "answered"
  /\ recorded' = set.effect
  /\ set' = [set EXCEPT !.at = "levelling"]
  /\ UNCHANGED <<vars, backend, outcome, touched>>

\* Native: brightness alone.
NativeLevels(wish) ==
  /\ backend = "native" /\ set = Idle /\ ~ForEffect(wish)
  /\ set' = Busy("levelling", None, wish.level)
  /\ UNCHANGED <<vars, backend, report, touched>>

-----------------------------------------------------------------------------
\* asusd: its effect is read and changed, ...
AsusdIsRead(wish) ==
  /\ backend = "asusd" /\ set = Idle
  /\ IF ForEffect(wish)
     THEN asusd /\ \E e \in Changed(wish) : set' = Busy("changed", e, wish.level)
     ELSE set' = Busy("levelling", None, wish.level)
  /\ UNCHANGED <<vars, backend, report, touched>>

\* ... and written back.
AsusdIsSet ==
  /\ set.at = "changed"
  /\ AsusdWrites /\ shown' = set.effect
  /\ set' = [set EXCEPT !.at = "levelling"]
  /\ foreign' = TRUE /\ mixers' = mixers \union {"others"}
  /\ UNCHANGED <<backend, report, repeated>>

\* An error of asusd is answered and not recorded.
AsusdFails ==
  /\ set.at = "changed" \/ (set.at = "levelling" /\ backend = "asusd")
  /\ set' = Idle
  /\ UNCHANGED <<vars, backend, report, touched>>

AsusdLevels ==
  /\ set.at = "levelling" /\ backend = "asusd" /\ set.level /\ asusd
  /\ set' = Busy("ending", set.effect, FALSE)
  /\ UNCHANGED <<vars, backend, report, touched>>

\* sysfs alone: Off writes zero, Static the level given or the one read.
SysfsLevels(wish) ==
  /\ backend = "sysfs" /\ set = Idle
  /\ wish.colour = None /\ wish.mode \in {None, "static", "off"}
  /\ set' = Busy("levelling", None, TRUE)
  /\ UNCHANGED <<vars, backend, report, touched>>

-----------------------------------------------------------------------------
(* set_sysfs_keyboard_brightness: directly, or through the helper if the   *)
(* permission is missing.  The LED may be absent, writable or not at any   *)
(* call; asusd's own brightness is used where its interface has it.        *)
Levelling == set.at = "levelling" /\ set.level

LevelSucceeds ==
  /\ Levelling
  /\ set' = Busy("ending", set.effect, FALSE)
  /\ UNCHANGED <<vars, backend, report, touched>>

\* Only the native backend records the failure.
LevelFails ==
  /\ Levelling
  /\ outcome' = IF backend = "native" THEN "failed" ELSE outcome
  /\ set' = Idle
  /\ UNCHANGED <<vars, backend, recorded, touched>>

LevelIsMissing ==
  /\ Levelling /\ backend # "sysfs"
  /\ set' = Idle
  /\ UNCHANGED <<vars, backend, report, touched>>

\* An effect is accepted, a level is verified by its readback.
SetEnds ==
  /\ set.at \in {"levelling", "ending"} /\ ~set.level
  /\ outcome' = IF set.effect # None THEN "accepted" ELSE "verified"
  /\ set' = Idle
  /\ UNCHANGED <<vars, backend, recorded, touched>>

-----------------------------------------------------------------------------
\* The session daemon is restarted.  Its call of the helper goes on, as one of
\* those that do not concern the new daemon.
DaemonRestarts ==
  /\ backend' \in Selectable
  /\ set' = Idle
  /\ recorded' = None /\ outcome' = "none"
  /\ \/ call[Daemon] = NoCall /\ UNCHANGED call
     \/ \E c \in Callers \ {Daemon} :
          /\ call[Daemon] # NoCall /\ call[c] = NoCall
          /\ call' = [call EXCEPT ![c] = call[Daemon], ![Daemon] = NoCall]
  /\ UNCHANGED <<shown, world, last, recent, disturbed, intruding, touched>>

OthersCall ==
  /\ \E c \in Callers \ {Daemon} :
       \/ /\ Ask(c) \/ Lock(c) \/ Refuse(c) \/ Suppress(c) \/ Proceed(c)
             \/ CheckOwner(c) \/ Abort(c)
          /\ UNCHANGED touched
       \/ /\ foreign' = TRUE /\ UNCHANGED repeated
          /\ (SendReport(c) /\ mixers' = mixers \union {"others"}) \/ Completes(c)
  /\ UNCHANGED <<backend, set, report>>

OthersWrite ==
  /\ AsusdWrites
  /\ foreign' = TRUE /\ mixers' = mixers \union {"others"}
  /\ UNCHANGED <<backend, set, report, repeated>>

\* A device that is replaced is somebody else's in either respect.
WorldTurns ==
  /\ \/ /\ IntervalEnds \/ AsusdStarts \/ AsusdStops
        /\ UNCHANGED touched
     \/ /\ (Unplug /\ mixers' = {}) \/ (Plug /\ UNCHANGED mixers)
        /\ foreign' = TRUE /\ UNCHANGED repeated
  /\ UNCHANGED <<backend, set, report>>

LightingNext ==
  \/ \E wish \in Wishes :
       \/ NativeAsks(wish) \/ NativeIsRefused(wish) \/ NativeLevels(wish)
       \/ AsusdIsRead(wish) \/ SysfsLevels(wish)
  \/ HelperWorks \/ HelperFinishes \/ HelperRefuses \/ HelperExits \/ NativeRecords
  \/ AsusdIsSet \/ AsusdFails \/ AsusdLevels
  \/ LevelSucceeds \/ LevelFails \/ LevelIsMissing
  \/ SetEnds
  \/ DaemonRestarts \/ OthersCall \/ OthersWrite \/ WorldTurns

LightingSpec == LightingInit /\ [][LightingNext]_lightingVars

-----------------------------------------------------------------------------
\* What GetLighting reports of a native keyboard is the recorded request.
ReportedEffect == recorded
ReportedAsAccepted == backend = "native" /\ set = Idle /\ outcome = "accepted"

(* An effect that the native backend reports as accepted is the one the    *)
(* keyboard shows, through failed and lost requests, restarts of helper    *)
(* and daemon, and suppressed repeats.  It may not be if asusd or another  *)
(* session wrote to the keyboard or it was replaced since, or if an effect *)
(* of this daemon had broken off midway and the accepted one is the repeat *)
(* of the effect before, which the helper suppresses: an effect that broke *)
(* off later is no excuse.                                                 *)
AcceptedIsShown ==
  ReportedAsAccepted /\ ~foreign /\ ~repeated => shown = ReportedEffect

(* A request changes nothing of such an effect that it does not name,      *)
(* although the keyboard cannot be asked for it.                           *)
UnnamedFieldsKept ==
  [][ReportedAsAccepted /\ ~foreign /\ ~repeated /\ set'.at = "waiting" =>
       \A wish \in Wishes : NativeAsks(wish) =>
         /\ wish.mode = None => ModeOf[set'.effect] = ModeOf[shown]
         /\ wish.colour = None =>
              ColourOf[set'.effect] \in {None, ColourOf[shown]}]_lightingVars
=============================================================================
