------------------------------- MODULE AuraHelper -------------------------------
(***************************************************************************)
(* SetAuraEffect of the root helper (rog-privileged/src/main.rs): session  *)
(* daemons ask for a keyboard effect, which takes a fixed sequence of HID  *)
(* reports that cannot be read back.  The helper remembers the request it  *)
(* has written last and the device it wrote it to, and answers the same    *)
(* request without writing it again.                                       *)
(*                                                                         *)
(* Meanwhile asusd may start, take over the keyboard and stop again, the   *)
(* device may be replaced, and the helper killed.  A daemon asks for one   *)
(* effect at a time, under its hardware lock.                              *)
(***************************************************************************)
EXTENDS Naturals

CONSTANTS
  Callers,   \* session daemons
  Effects,   \* requests that the verified device supports
  Reports,   \* reports of one effect (three: effect, set, apply)
  MaxDevice  \* bound on the replacements of the device

ASSUME AuraAssumption == Reports \in Nat \ {0} /\ MaxDevice \in Nat /\ "none" \notin Effects

VARIABLES
  shown,     \* the effect the keyboard shows, "none" of them if mixed or foreign
  device,    \* the device generation (rdev and inode), or 0 while unplugged
  plugged,   \* generations so far
  asusd,     \* asusd owns its bus name
  last,      \* last_request and last_device_generation
  recent,    \* the last attempt is less than 250 ms old
  call,      \* what every caller asks for, and where its call is
  disturbed, \* history: the keyboard was written to in part, or by asusd, since
             \* the last complete write
  intruding  \* history: reports sent since asusd took over

vars == <<shown, device, plugged, asusd, last, recent, call, disturbed, intruding>>
world == <<device, plugged, asusd>>

None == "none"
Gone == [request |-> None, device |-> 0]
At(place, request) == [at |-> place, request |-> request, sent |-> 0, file |-> 0]
NoCall == At("idle", None)

Locked == \E c \in Callers: call[c].at \in {"locked", "checking", "sending"}

Init ==
  /\ shown = None /\ device = 1 /\ plugged = 1 /\ asusd = FALSE
  /\ last = Gone /\ recent = FALSE
  /\ call = [c \in Callers |-> NoCall]
  /\ disturbed = FALSE /\ intruding = 0

\* The request is checked, and authorized after the first look at the owner
\* of the keyboard; a call that fails so far changes nothing.
Ask(c) ==
  /\ call[c] = NoCall /\ ~asusd /\ device # 0
  /\ \E r \in Effects: call' = [call EXCEPT ![c] = At("queued", r)]
  /\ UNCHANGED <<shown, world, last, recent, disturbed, intruding>>

Lock(c) ==
  /\ call[c].at = "queued" /\ ~Locked
  /\ call' = [call EXCEPT ![c].at = "locked"]
  /\ UNCHANGED <<shown, world, last, recent, disturbed, intruding>>

\* Mutant: a request is compared without its device.
SuppressedAnywhere(r) == last.request = r

\* NativeAuraControlState::decide.
Suppressed(r) == last = [request |-> r, device |-> device]

\* An error, or Ok(false) for the request that was written last.
Refuse(c) ==
  /\ call[c].at \in {"queued", "locked"}
  /\ call[c].at = "queued" \/ asusd \/ device = 0
     \/ (recent /\ ~Suppressed(call[c].request))
  /\ call' = [call EXCEPT ![c] = NoCall]
  /\ UNCHANGED <<shown, world, last, recent, disturbed, intruding>>

Suppress(c) ==
  /\ call[c].at = "locked" /\ ~asusd /\ device # 0
  /\ Suppressed(call[c].request)
  /\ call' = [call EXCEPT ![c] = NoCall]
  /\ UNCHANGED <<shown, world, last, recent, disturbed, intruding>>

Proceed(c) ==
  /\ call[c].at = "locked" /\ ~asusd /\ device # 0
  /\ ~Suppressed(call[c].request) /\ ~recent
  /\ recent' = TRUE
  /\ call' = [call EXCEPT ![c].at = "checking", ![c].file = device]
  /\ UNCHANGED <<shown, world, last, disturbed, intruding>>

\* Mutant: the owner is asked for before the first report only.
CheckOwnerOnce(c) ==
  /\ call[c].at = "checking" /\ (call[c].sent > 0 \/ ~asusd)
  /\ call' = [call EXCEPT ![c].at = "sending"]
  /\ UNCHANGED <<shown, world, last, recent, disturbed, intruding>>

\* The owner is asked for before every report.
CheckOwner(c) ==
  /\ call[c].at = "checking" /\ ~asusd
  /\ call' = [call EXCEPT ![c].at = "sending"]
  /\ UNCHANGED <<shown, world, last, recent, disturbed, intruding>>

\* A report other than the last leaves the keyboard between two effects.
SendReport(c) ==
  /\ call[c].at = "sending" /\ call[c].file = device
  /\ call[c].sent + 1 < Reports
  /\ call' = [call EXCEPT ![c].at = "checking", ![c].sent = @ + 1]
  /\ shown' = None /\ disturbed' = TRUE
  /\ intruding' = IF asusd THEN intruding + 1 ELSE intruding
  /\ UNCHANGED <<world, last, recent>>

\* The request is remembered once all its reports are written.
SendLastReport(c) ==
  /\ call[c].at = "sending" /\ call[c].file = device
  /\ call[c].sent + 1 = Reports
  /\ call' = [call EXCEPT ![c] = NoCall]
  /\ shown' = call[c].request
  /\ disturbed' = asusd
  /\ intruding' = IF asusd THEN intruding + 1 ELSE intruding
  /\ last' = [request |-> call[c].request, device |-> call[c].file]
  /\ UNCHANGED <<world, recent>>

\* asusd came, the device went, or a report was not written in time; what was
\* sent so far stays.
Abort(c) ==
  /\ call[c].at = "sending" \/ (call[c].at = "checking" /\ asusd)
  /\ call' = [call EXCEPT ![c] = NoCall]
  /\ UNCHANGED <<shown, world, last, recent, disturbed, intruding>>

IntervalEnds ==
  /\ recent /\ recent' = FALSE
  /\ UNCHANGED <<shown, world, last, call, disturbed, intruding>>

\* The idle exit, or a kill: what the helper remembers is gone.
HelperRestarts ==
  /\ last' = Gone /\ recent' = FALSE
  /\ call' = [c \in Callers |-> NoCall]
  /\ UNCHANGED <<shown, world, disturbed, intruding>>

AsusdStarts ==
  /\ ~asusd /\ asusd' = TRUE /\ intruding' = 0
  /\ UNCHANGED <<shown, device, plugged, last, recent, call, disturbed>>

AsusdWrites ==
  /\ asusd
  /\ \E e \in Effects: shown' = e
  /\ disturbed' = TRUE
  /\ UNCHANGED <<world, last, recent, call, intruding>>

AsusdStops ==
  /\ asusd /\ asusd' = FALSE
  /\ UNCHANGED <<shown, device, plugged, last, recent, call, disturbed, intruding>>

\* A device that comes back shows what it starts with.
Unplug ==
  /\ device # 0 /\ device' = 0 /\ shown' = None /\ disturbed' = FALSE
  /\ UNCHANGED <<plugged, asusd, last, recent, call, intruding>>

Plug ==
  /\ device = 0 /\ plugged < MaxDevice
  /\ plugged' = plugged + 1 /\ device' = plugged'
  /\ UNCHANGED <<shown, asusd, last, recent, call, disturbed, intruding>>

Step(c) ==
  \/ Ask(c) \/ Lock(c) \/ Refuse(c) \/ Suppress(c) \/ Proceed(c)
  \/ CheckOwner(c) \/ SendReport(c) \/ SendLastReport(c) \/ Abort(c)

Next ==
  \/ \E c \in Callers: Step(c)
  \/ IntervalEnds \/ HelperRestarts
  \/ AsusdStarts \/ AsusdWrites \/ AsusdStops \/ Unplug \/ Plug

Spec == Init /\ [][Next]_vars

-----------------------------------------------------------------------------
\* A request that is suppressed as already written is what the keyboard shows,
\* unless an effect failed midway or asusd wrote in the meantime.
SuppressedIsShown ==
  [][\A c \in Callers:
       Suppress(c) /\ ~disturbed => shown = call[c].request]_vars

\* A call that asusd overtakes sends at most the one report it had checked.
YieldsToAsusd == intruding <= 1
=============================================================================
