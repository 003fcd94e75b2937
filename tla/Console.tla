-------------------------------- MODULE Console --------------------------------
(****************************************************************************)
(* The web console's contact with its device (src/web/src: app.ts, api.ts,   *)
(* console.ts).  Frames of the device's state reach the page as the answer   *)
(* of the 15 s poll, as the answers of commands and over the event stream,   *)
(* in no order among the three; paint() keeps a frame only if isNewer, and   *)
(* any frame as contact.  boot() runs its steps one after the other and then *)
(* leaves the page to its intervals.                                         *)
(* A tick is five seconds: timeouts, polls, the offline verdict and the      *)
(* device's uptime are counted in ticks, and all of one tick is one second   *)
(* of uptime.  What a state holds is its revision.                           *)
(****************************************************************************)
EXTENDS Naturals, Sequences

CONSTANTS
  NoFrame,
  None, Out, Lost,  \* no request or stream; a request out, a request lost
  CmdSlots,         \* requests the user may have in flight at once
  FetchTimeout,     \* api.ts: AbortSignal.timeout, 10 s
  PollEvery,        \* app.ts: setInterval(poll), 15 s
  OfflineAfter,     \* app.ts: OFFLINE_AFTER_MS, 20 s
  MaxFails,         \* api.ts: errors in a row before the stream is given up
  MaxUp, MaxBoots, MaxRev, MaxFaults, MaxQueue   \* bounds of the model

ASSUME ConsoleAssumption ==
  /\ FetchTimeout \in Nat \ {0} /\ PollEvery \in Nat /\ FetchTimeout < PollEvery
  /\ OfflineAfter \in Nat /\ MaxFails \in Nat \ {0}
  /\ MaxUp \in Nat /\ MaxBoots \in Nat /\ MaxRev \in Nat /\ MaxFaults \in Nat /\ MaxQueue \in Nat
  /\ {NoFrame, None, Out, Lost} \cap [boots : Nat, up : Nat, rev : Nat] = {}
  /\ None \notin {Out, Lost} /\ Out # Lost
  /\ "poll" \notin CmdSlots

VARIABLES
  dev, shown,   \* as in Mirror
  reach,        \* the device answers
  faults,       \* bound: what has gone wrong so far
  req,          \* what is in flight, by slot: Out, Lost, or the frame coming back
  stream,       \* the EventSource: open, its failures in a row, the frames on it
  age,          \* ticks since lastOk, or since startedAt before the first answer
  offline,      \* view.offline
  pollFail,     \* view.pollFail > 0
  phase,        \* what boot() waits for; "run" once it has returned
  timer,        \* ticks left to what boot() waits for; in "run", to the next poll
  settled       \* history: a poll of the interval has ended

dev_vars   == <<dev, reach, faults>>
net_vars   == <<req, stream>>
page_vars  == <<shown, age, offline, pollFail>>
boot_vars  == <<phase, timer, settled>>
vars       == <<dev_vars, net_vars, page_vars, boot_vars>>

M == INSTANCE Mirror WITH NoFrame <- NoFrame, dev <- dev, shown <- shown

Slots  == CmdSlots \cup {"poll"}
Frame  == M!Frame

Flight(s)   == req[s] # None
Answered(s) == req[s] \notin {None, Out, Lost}

-----------------------------------------------------------------------------
(* The boot, then the second; equal seconds count as newer.                 *)
isNewer_by_uptime(next, cur) == cur = NoFrame \/ next.up >= cur.up

isNewer(next, cur) ==
  \/ cur = NoFrame
  \/ next.boots > cur.boots
  \/ next.boots = cur.boots /\ next.up >= cur.up

(* paint(next) keeps the newer frame, and takes any frame as contact.       *)
paint(next) ==
  /\ shown' = IF isNewer(next, shown) THEN next ELSE shown
  /\ age' = 0
  /\ offline' = FALSE
  /\ pollFail' = FALSE

(* poll()'s catch: the verdict waits for silence, the badge does not.       *)
pollFailed_patiently ==
  /\ pollFail' = TRUE
  /\ offline' = (offline \/ age > OfflineAfter + PollEvery)
  /\ UNCHANGED <<shown, age>>

pollFailed ==
  /\ pollFail' = TRUE
  /\ offline' = (offline \/ age > OfflineAfter)
  /\ UNCHANGED <<shown, age>>

-----------------------------------------------------------------------------
(* Time.  A reachable device answers by the deadline: an answer that is late  *)
(* is one that was lost.                                                      *)
PollLate   == phase = "run" /\ Flight("poll") /\ timer = PollEvery - FetchTimeout
Overdue    == IF phase = "run" THEN PollLate ELSE timer = 0
PollIsDue  == phase = "run" /\ timer = 0

SilenceLimit == IF settled THEN OfflineAfter + PollEvery + FetchTimeout
                           ELSE PollEvery + 6 * FetchTimeout

Tick ==
  /\ ~Overdue /\ ~PollIsDue
  /\ dev' = [dev EXCEPT !.up = IF @ < MaxUp THEN @ + 1 ELSE @]
  /\ age' = IF age <= SilenceLimit THEN age + 1 ELSE age
  /\ timer' = timer - 1
  /\ UNCHANGED <<reach, faults, net_vars, shown, offline, pollFail, phase, settled>>

-----------------------------------------------------------------------------
(* The device.  Its state changes by itself: auto, the broker, other pages.  *)
DeviceChanges ==
  /\ reach /\ dev.rev < MaxRev
  /\ dev' = [dev EXCEPT !.rev = @ + 1]
  /\ UNCHANGED <<reach, faults, net_vars, page_vars, boot_vars>>

(* A restart: a new boot from second zero, its connections gone.            *)
DeviceRestarts ==
  /\ dev.boots < MaxBoots
  /\ dev' = [dev EXCEPT !.boots = @ + 1, !.up = 0]
  /\ stream' = IF stream = None THEN None ELSE [stream EXCEPT !.open = FALSE, !.queue = << >>]
  /\ UNCHANGED <<reach, faults, req, page_vars, boot_vars>>

Reachability ==
  /\ reach => faults < MaxFaults
  /\ reach' = ~reach
  /\ faults' = IF reach THEN faults + 1 ELSE faults
  /\ UNCHANGED <<dev, net_vars, page_vars, boot_vars>>

(* The device takes a request; a command changes its state first.           *)
Serve(s) ==
  /\ reach /\ req[s] = Out
  /\ dev' = IF s \in CmdSlots /\ dev.rev < MaxRev THEN [dev EXCEPT !.rev = @ + 1] ELSE dev
  /\ req' = [req EXCEPT ![s] = dev']
  /\ UNCHANGED <<reach, faults, stream, page_vars, boot_vars>>

(* A request or its answer is lost, refused, late, or answered with an error. *)
Lose(s) ==
  /\ faults < MaxFaults /\ Flight(s) /\ req[s] # Lost
  /\ req' = [req EXCEPT ![s] = Lost]
  /\ faults' = faults + 1
  /\ UNCHANGED <<dev, reach, stream, page_vars, boot_vars>>

-----------------------------------------------------------------------------
(* command(): the answer is painted, a failure is kept quiet.  The controls   *)
(* are there before boot() waits for anything.  A command, like a retry of    *)
(* loadDevice, may time out whenever it is unanswered.                       *)
Command(s) ==
  /\ ~Flight(s)
  /\ req' = [req EXCEPT ![s] = Out]
  /\ UNCHANGED <<dev_vars, stream, page_vars, boot_vars>>

CommandAnswered(s) ==
  /\ Answered(s) /\ paint(req[s])
  /\ req' = [req EXCEPT ![s] = None]
  /\ UNCHANGED <<dev_vars, stream, boot_vars>>

CommandFailed(s) ==
  /\ Flight(s) /\ (req[s] = Lost \/ ~reach)
  /\ req' = [req EXCEPT ![s] = None]
  /\ UNCHANGED <<dev_vars, stream, page_vars, boot_vars>>

(* poll(): of the interval, or the one boot() awaits before the climate.     *)
PollDue_unless_streaming ==
  /\ PollIsDue
  /\ req' = IF stream # None /\ stream.open THEN req ELSE [req EXCEPT !["poll"] = Out]
  /\ timer' = PollEvery
  /\ UNCHANGED <<dev_vars, stream, page_vars, phase, settled>>

PollDue ==
  /\ PollIsDue
  /\ req' = [req EXCEPT !["poll"] = Out]
  /\ timer' = PollEvery
  /\ UNCHANGED <<dev_vars, stream, page_vars, phase, settled>>

(* refreshClimate awaits sensors, stats and history one after the other.    *)
PollOver ==
  /\ req' = [req EXCEPT !["poll"] = None]
  /\ IF phase = "poll" THEN phase' = "climate" /\ timer' = 3 * FetchTimeout /\ settled' = settled
                       ELSE phase' = phase /\ timer' = timer /\ settled' = TRUE

PollAnswered ==
  /\ Answered("poll") /\ paint(req["poll"]) /\ PollOver
  /\ UNCHANGED <<dev_vars, stream>>

PollFailed ==
  /\ Flight("poll") /\ (req["poll"] = Lost \/ (Overdue /\ ~reach))
  /\ pollFailed /\ PollOver
  /\ UNCHANGED <<dev_vars, stream>>

-----------------------------------------------------------------------------
(* boot() awaits loadDevice, the poll and the climate, whatever becomes of    *)
(* each, and leaves the page to its stream and its intervals (the device      *)
(* facts and the update check are in Install, the history in History).        *)
DeviceOver ==
  /\ phase = "device"
  /\ phase' = "poll" /\ timer' = FetchTimeout
  /\ req' = [req EXCEPT !["poll"] = Out]
  /\ UNCHANGED <<dev_vars, stream, page_vars, settled>>

ClimateOver ==
  /\ phase = "climate"
  /\ phase' = "run" /\ timer' = PollEvery
  /\ stream' = [open |-> FALSE, fails |-> 0, queue |-> << >>]
  /\ UNCHANGED <<dev_vars, req, page_vars, settled>>

-----------------------------------------------------------------------------
(* The event stream: subscribe().                                           *)
StreamOpens ==
  /\ stream # None /\ ~stream.open /\ reach
  /\ stream' = [open |-> TRUE, fails |-> 0, queue |-> << >>]
  /\ UNCHANGED <<dev_vars, req, page_vars, boot_vars>>

StreamSends ==
  /\ stream # None /\ stream.open /\ reach /\ Len(stream.queue) < MaxQueue
  /\ stream' = [stream EXCEPT !.queue = Append(@, dev)]
  /\ UNCHANGED <<dev_vars, req, page_vars, boot_vars>>

StreamDelivers ==
  /\ stream # None /\ stream.queue # << >>
  /\ paint(Head(stream.queue))
  /\ stream' = [stream EXCEPT !.queue = Tail(@)]
  /\ UNCHANGED <<dev_vars, req, boot_vars>>

(* onerror: the browser tries again, until MaxFails failures in a row.      *)
StreamFails ==
  /\ stream # None
  /\ ~reach \/ (stream.open /\ faults < MaxFaults)
  /\ stream' = IF stream.fails + 1 < MaxFails
               THEN [open |-> FALSE, fails |-> stream.fails + 1, queue |-> << >>]
               ELSE None
  /\ faults' = IF reach THEN faults + 1 ELSE faults
  /\ UNCHANGED <<dev, reach, req, page_vars, boot_vars>>

-----------------------------------------------------------------------------
Init ==
  /\ dev = [boots |-> 0, up |-> 0, rev |-> 0] /\ shown = NoFrame
  /\ reach \in BOOLEAN /\ faults = 0
  /\ req = [s \in Slots |-> None]
  /\ stream = None
  /\ age = 0 /\ offline = FALSE /\ pollFail = FALSE
  /\ phase = "device" /\ timer = FetchTimeout /\ settled = FALSE

Device   == DeviceChanges \/ DeviceRestarts \/ Reachability
Network  == StreamOpens \/ StreamSends \/ StreamFails \/ \E s \in Slots : Serve(s) \/ Lose(s)
Commands == \E s \in CmdSlots : Command(s) \/ CommandAnswered(s) \/ CommandFailed(s)
Booting  == DeviceOver \/ ClimateOver
Polling  == PollDue \/ PollAnswered \/ PollFailed

Next == Tick \/ Device \/ Network \/ Commands \/ Booting \/ Polling \/ StreamDelivers

Spec == Init /\ [][Next]_vars

(* The browser's timers and the network do their part; nobody owes a         *)
(* command, a change of state or a fault.                                    *)
Fairness ==
  /\ WF_vars(Tick)
  /\ WF_vars(StreamOpens) /\ WF_vars(StreamDelivers)
  /\ \A s \in Slots : WF_vars(Serve(s))
  /\ \A s \in CmdSlots : WF_vars(CommandAnswered(s)) /\ WF_vars(CommandFailed(s))
  /\ WF_vars(PollDue) /\ WF_vars(PollAnswered) /\ WF_vars(PollFailed)
  /\ WF_vars(DeviceOver) /\ WF_vars(ClimateOver)

FairSpec == Spec /\ Fairness

-----------------------------------------------------------------------------
(* Properties.                                                              *)

(* The page shows a state the device was in, and goes back to no earlier     *)
(* boot or second however poll, stream and commands cross (isNewer).         *)
MirrorSpec == M!MirrorSpec

(* NO CONTACT is never said of a device that answered within OfflineAfter.  *)
OfflineHonest == offline => age > OfflineAfter /\ pollFail

(* Silence is named: by the second poll to fail once the intervals run, and  *)
(* by the first after the whole of boot() on a page opened cold.             *)
SilenceNamed == age > SilenceLimit => offline

(* The notice is up for a device that has been silent, and only for one.     *)
ContactHonest == OfflineHonest /\ SilenceNamed

(* A device that answers again is shown again as it is, the stream given up  *)
(* or not.                                                                   *)
Converges == <>[]reach => <>[](~offline /\ shown # NoFrame /\ shown.rev = dev.rev)

(* No answer trades a state for an earlier one of the device's history       *)
(* (console.ts: the pair of boot and uptime "orders every frame").          *)
(* The code does not keep to it and no run checks it; README.md says how.   *)
NeverOlder == [][shown # NoFrame => shown'.rev >= shown.rev]_vars

(* A device that is gone is eventually and for good called gone.            *)
GoneIsNamed == <>[](~reach) => <>[]offline

(* An outage is over in the end, or named: the page ends current, or offline.  *)
EndsHonest == Converges /\ GoneIsNamed
=============================================================================
