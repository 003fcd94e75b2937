----------------------------- MODULE ConsoleProofs -----------------------------
(* Proofs about Console for every value of its constants: it implements        *)
(* Mirror, and its verdict on a silent device is honest and given in time.     *)
EXTENDS Console, TLAPS

(* Types: what each variable ranges over.                                   *)
Streams == [open : BOOLEAN, fails : Nat, queue : Seq(Frame)]

TypeOK ==
  /\ dev \in Frame /\ shown \in Frame \cup {NoFrame}
  /\ req \in [Slots -> {None, Out, Lost} \cup Frame]
  /\ stream \in {None} \cup Streams
  /\ age \in Nat /\ offline \in BOOLEAN /\ pollFail \in BOOLEAN
  /\ phase \in {"device", "poll", "climate", "run"} /\ timer \in Nat /\ settled \in BOOLEAN

(* Every frame the page shows or may yet be given was once the device's, and  *)
(* any two of them are of one history.                                       *)
Queued(f) == stream # None /\ \E i \in 1..Len(stream.queue) : stream.queue[i] = f

Held == {f \in Frame : f = shown \/ Queued(f) \/ \E s \in Slots : req[s] = f}

OneHistory ==
  /\ \A f \in Held : M!Past(f, dev)
  /\ \A f, g \in Held : M!Consistent(f, g)

(* How long the page can have been without contact, phase by phase.          *)
Silence ==
  /\ phase \in {"device", "poll"} => timer <= FetchTimeout
  /\ phase = "climate" => timer <= 3 * FetchTimeout
  /\ phase = "run" => timer <= PollEvery
  /\ phase \in {"device", "climate"} => ~Flight("poll")
  /\ phase = "run" /\ Flight("poll") => timer >= PollEvery - FetchTimeout
  /\ phase # "run" => ~settled
  /\ ~offline =>
       /\ phase = "device" => age + timer <= FetchTimeout
       /\ phase = "poll" => age + timer <= 2 * FetchTimeout
       /\ phase = "climate" => age + timer <= 5 * FetchTimeout
       /\ phase = "run" /\ ~settled =>
            age + timer <= 5 * FetchTimeout + PollEvery + (IF Flight("poll") THEN PollEvery ELSE 0)
       /\ settled => age + timer <= OfflineAfter + PollEvery + (IF Flight("poll") THEN PollEvery ELSE 0)

-----------------------------------------------------------------------------
(* No model value is a frame, and "poll" is no command.                     *)
LEMMA Apart == /\ NoFrame \notin Frame /\ None \notin Frame /\ Out \notin Frame /\ Lost \notin Frame
               /\ None # Out /\ None # Lost /\ "poll" \in Slots /\ CmdSlots \subseteq Slots
  BY ConsoleAssumption DEF Frame, M!Frame, Slots

LEMMA FrameIs == Frame = [boots : Nat, up : Nat, rev : Nat]
  BY DEF Frame, M!Frame

LEMMA TypeInit == Init => TypeOK
  <1> SUFFICES ASSUME Init PROVE TypeOK
    OBVIOUS
  <1>1. dev \in Frame BY FrameIs DEF Init
  <1>2. req \in [Slots -> {None, Out, Lost} \cup Frame] BY DEF Init
  <1> QED BY <1>1, <1>2, ConsoleAssumption DEF Init, TypeOK

LEMMA PaintTypes ==
  ASSUME TypeOK, NEW next \in Frame, paint(next)
  PROVE  shown' \in Frame \cup {NoFrame} /\ age' = 0 /\ offline' = FALSE /\ pollFail' = FALSE
  BY DEF TypeOK, paint

(* What is in flight and answered is a frame, and so is the head of a queue.  *)
LEMMA Arrivals ==
  ASSUME TypeOK
  PROVE  /\ \A s \in Slots : Answered(s) => req[s] \in Frame /\ req[s] \in Held
         /\ stream # None /\ stream.queue # << >> =>
              /\ Head(stream.queue) \in Frame /\ Head(stream.queue) \in Held
              /\ Tail(stream.queue) \in Seq(Frame)
              /\ Len(Tail(stream.queue)) = Len(stream.queue) - 1
              /\ \A i \in 1..Len(Tail(stream.queue)) : Tail(stream.queue)[i] = stream.queue[i + 1]
  <1>1. \A s \in Slots : Answered(s) => req[s] \in Frame /\ req[s] \in Held
    BY DEF TypeOK, Answered, Held
  <1>2. ASSUME stream # None, stream.queue # << >>
        PROVE  /\ Head(stream.queue) \in Frame /\ Head(stream.queue) \in Held
               /\ Tail(stream.queue) \in Seq(Frame)
               /\ Len(Tail(stream.queue)) = Len(stream.queue) - 1
               /\ \A i \in 1..Len(Tail(stream.queue)) : Tail(stream.queue)[i] = stream.queue[i + 1]
    <2> DEFINE q == stream.queue
    <2>1. q \in Seq(Frame) BY <1>2 DEF TypeOK, Streams
    <2>2. q # << >> BY <1>2
    <2> HIDE DEF q
    <2>3. /\ 1 \in 1..Len(q) /\ Head(q) = q[1] /\ q[1] \in Frame
          /\ Tail(q) \in Seq(Frame) /\ Len(Tail(q)) = Len(q) - 1
          /\ \A i \in 1..Len(Tail(q)) : Tail(q)[i] = q[i + 1]
      BY <2>1, <2>2
    <2>4. Head(q) \in Held BY <2>3, <1>2 DEF Held, Queued, q
    <2> QED BY <2>3, <2>4 DEF q
  <1> QED BY <1>1, <1>2

LEMMA TypeStep == TypeOK /\ [Next]_vars => TypeOK'
  <1> SUFFICES ASSUME TypeOK, [Next]_vars PROVE TypeOK'
    OBVIOUS
  <1> USE Apart, ConsoleAssumption
  <1>1. CASE Tick
    <2>1. timer # 0 /\ timer - 1 \in Nat
      BY <1>1 DEF Tick, Overdue, PollIsDue, TypeOK
    <2>2. dev' \in Frame
      BY <1>1 DEF Tick, TypeOK, Frame, M!Frame
    <2> QED BY <1>1, <2>1, <2>2 DEF Tick, TypeOK, net_vars
  <1>2. CASE Device
    <2>1. CASE DeviceChanges
      <3>1. dev' \in Frame BY <2>1, FrameIs DEF DeviceChanges, TypeOK
      <3> QED BY <2>1, <3>1 DEF DeviceChanges, TypeOK, net_vars, page_vars, boot_vars
    <2>2. CASE DeviceRestarts
      <3>1. dev' \in Frame
        <4>1. dev \in [boots : Nat, up : Nat, rev : Nat] BY FrameIs DEF TypeOK
        <4>2. dev' = [boots |-> dev.boots + 1, up |-> 0, rev |-> dev.rev]
          BY <2>2, <4>1 DEF DeviceRestarts
        <4> QED BY <4>1, <4>2, FrameIs
      <3>2. stream' \in {None} \cup Streams
        <4>1. << >> \in Seq(Frame) OBVIOUS
        <4>2. CASE stream = None BY <2>2, <4>2 DEF DeviceRestarts
        <4>3. CASE stream \in Streams /\ stream # None
          BY <2>2, <4>1, <4>3 DEF DeviceRestarts, Streams
        <4> QED BY <4>2, <4>3 DEF TypeOK
      <3> QED BY <2>2, <3>1, <3>2 DEF DeviceRestarts, TypeOK, page_vars, boot_vars
    <2>3. CASE Reachability
      BY <2>3 DEF Reachability, TypeOK, net_vars, page_vars, boot_vars
    <2> QED BY <1>2, <2>1, <2>2, <2>3 DEF Device
  <1>3. CASE Network
    <2>1. CASE StreamOpens
      BY <2>1 DEF StreamOpens, TypeOK, Streams, dev_vars, page_vars, boot_vars
    <2>2. CASE StreamSends
      <3>1. stream \in Streams /\ dev \in Frame BY <2>2 DEF StreamSends, TypeOK
      <3>2. Append(stream.queue, dev) \in Seq(Frame) BY <3>1 DEF Streams
      <3>3. stream' \in Streams BY <2>2, <3>1, <3>2 DEF StreamSends, Streams
      <3> QED BY <2>2, <3>3 DEF StreamSends, TypeOK, dev_vars, page_vars, boot_vars
    <2>3. CASE StreamFails
      BY <2>3 DEF StreamFails, TypeOK, Streams, page_vars, boot_vars
    <2>4. ASSUME NEW s \in Slots, Serve(s) PROVE TypeOK'
      <3>1. dev' \in Frame BY <2>4 DEF Serve, TypeOK, Frame, M!Frame
      <3> QED BY <2>4, <3>1 DEF Serve, TypeOK, page_vars, boot_vars
    <2>5. ASSUME NEW s \in Slots, Lose(s) PROVE TypeOK'
      BY <2>5 DEF Lose, TypeOK, page_vars, boot_vars
    <2> QED BY <1>3, <2>1, <2>2, <2>3, <2>4, <2>5 DEF Network
  <1>4. CASE Commands
    <2>1. ASSUME NEW s \in CmdSlots, Command(s) PROVE TypeOK'
      BY <2>1 DEF Command, TypeOK, dev_vars, page_vars, boot_vars
    <2>2. ASSUME NEW s \in CmdSlots, CommandAnswered(s) PROVE TypeOK'
      <3>1. PICK next \in Frame : paint(next) BY <2>2, Arrivals DEF CommandAnswered
      <3>2. shown' \in Frame \cup {NoFrame} /\ age' = 0 /\ offline' = FALSE /\ pollFail' = FALSE
        BY <3>1, PaintTypes
      <3> QED BY <2>2, <3>2 DEF CommandAnswered, TypeOK, dev_vars, boot_vars
    <2>3. ASSUME NEW s \in CmdSlots, CommandFailed(s) PROVE TypeOK'
      BY <2>3 DEF CommandFailed, TypeOK, dev_vars, page_vars, boot_vars
    <2> QED BY <1>4, <2>1, <2>2, <2>3 DEF Commands
  <1>5. CASE Booting
    <2>1. FetchTimeout \in Nat /\ PollEvery \in Nat /\ << >> \in Seq(Frame) OBVIOUS
    <2>2. CASE DeviceOver
      BY <2>1, <2>2 DEF DeviceOver, TypeOK, dev_vars, page_vars
    <2>3. CASE ClimateOver
      <3>1. stream' \in Streams BY <2>1, <2>3 DEF ClimateOver, Streams
      <3> QED BY <2>1, <2>3, <3>1 DEF ClimateOver, TypeOK, dev_vars, page_vars
    <2> QED BY <1>5, <2>2, <2>3 DEF Booting
  <1>6. CASE Polling
    <2>1. CASE PollDue
      BY <2>1 DEF PollDue, TypeOK, dev_vars, page_vars
    <2>2. ASSUME PollOver
          PROVE  /\ req' \in [Slots -> {None, Out, Lost} \cup Frame] /\ timer' \in Nat
                 /\ phase' \in {"device", "poll", "climate", "run"} /\ settled' \in BOOLEAN
      <3>1. req' \in [Slots -> {None, Out, Lost} \cup Frame] BY <2>2 DEF PollOver, TypeOK
      <3>2. 3 * FetchTimeout \in Nat OBVIOUS
      <3>3. CASE phase = "poll" BY <2>2, <3>1, <3>2, <3>3 DEF PollOver, TypeOK
      <3>4. CASE phase # "poll" BY <2>2, <3>1, <3>4 DEF PollOver, TypeOK
      <3> QED BY <3>3, <3>4
    <2>3. CASE PollAnswered
      <3>1. PICK next \in Frame : paint(next) BY <2>3, Arrivals DEF PollAnswered
      <3>2. shown' \in Frame \cup {NoFrame} /\ age' = 0 /\ offline' = FALSE /\ pollFail' = FALSE
        BY <3>1, PaintTypes
      <3> QED BY <2>2, <2>3, <3>2 DEF PollAnswered, TypeOK, dev_vars
    <2>4. CASE PollFailed
      <3>1. /\ pollFail' = TRUE /\ offline' \in BOOLEAN /\ UNCHANGED <<shown, age>>
        BY <2>4 DEF PollFailed, pollFailed, TypeOK
      <3> QED BY <2>2, <2>4, <3>1 DEF PollFailed, TypeOK, dev_vars
    <2> QED BY <1>6, <2>1, <2>3, <2>4 DEF Polling
  <1>7. CASE StreamDelivers
    <2>1. stream' \in Streams
      BY <1>7, Arrivals DEF StreamDelivers, TypeOK, Streams
    <2>2. PICK next \in Frame : paint(next)
      BY <1>7, Arrivals DEF StreamDelivers
    <2>3. /\ shown' \in Frame \cup {NoFrame} /\ age' = 0 /\ offline' = FALSE /\ pollFail' = FALSE
      BY <2>2, PaintTypes
    <2> QED BY <1>7, <2>1, <2>3 DEF StreamDelivers, TypeOK, dev_vars, boot_vars
  <1>8. CASE UNCHANGED vars
    BY <1>8 DEF vars, dev_vars, net_vars, page_vars, boot_vars, TypeOK
  <1> QED BY <1>1, <1>2, <1>3, <1>4, <1>5, <1>6, <1>7, <1>8 DEF Next

(* The types hold in every state.                                           *)
THEOREM ConsoleTypes == Spec => []TypeOK
  BY TypeInit, TypeStep, PTL DEF Spec

-----------------------------------------------------------------------------
(* OfflineHonest: paint clears the verdict, and only pollFailed gives it.     *)
LEMMA HonestStep == TypeOK /\ OfflineHonest /\ [Next]_vars => OfflineHonest'
  <1> SUFFICES ASSUME TypeOK, OfflineHonest, [Next]_vars PROVE OfflineHonest'
    OBVIOUS
  <1>1. CASE Tick
    BY <1>1, ConsoleAssumption DEF Tick, TypeOK, OfflineHonest
  <1>2. CASE UNCHANGED <<age, offline, pollFail>>
    BY <1>2 DEF OfflineHonest
  <1>3. CASE PollFailed
    BY <1>3, ConsoleAssumption DEF PollFailed, pollFailed, TypeOK, OfflineHonest
  <1>4. ASSUME NEW next, paint(next) PROVE OfflineHonest'
    BY <1>4 DEF paint, OfflineHonest
  <1>5. CASE Device \/ Network \/ Booting
    BY <1>5, <1>2 DEF Device, DeviceChanges, DeviceRestarts, Reachability, Network, StreamOpens,
         StreamSends, StreamFails, Serve, Lose, Booting, DeviceOver, ClimateOver, page_vars
  <1>6. CASE Commands
    BY <1>6, <1>2, <1>4 DEF Commands, Command, CommandAnswered, CommandFailed, page_vars
  <1>7. CASE Polling
    BY <1>7, <1>2, <1>3, <1>4 DEF Polling, PollDue, PollAnswered, page_vars
  <1>8. CASE StreamDelivers
    BY <1>8, <1>4 DEF StreamDelivers
  <1>9. CASE UNCHANGED vars
    BY <1>9, <1>2 DEF vars, page_vars
  <1> QED BY <1>1, <1>5, <1>6, <1>7, <1>8, <1>9 DEF Next

(* NO CONTACT is said only of a device silent for longer than OfflineAfter,   *)
(* whatever frames, failures and restarts interleave (app.ts poll).          *)
THEOREM OfflineIsHonest == Spec => []OfflineHonest
  <1>1. Init => OfflineHonest BY DEF Init, OfflineHonest
  <1> QED BY <1>1, HonestStep, ConsoleTypes, PTL DEF Spec

-----------------------------------------------------------------------------
(* SilenceNamed: Silence is inductive.                                      *)
LEMMA SilenceInit == Init => Silence
  BY ConsoleAssumption, Apart DEF Init, Silence, Flight

(* Contact sets the clock back, so only the timers' own ranges matter.       *)
LEMMA SilencePainted ==
  ASSUME TypeOK, TypeOK', Silence, NEW next, paint(next),
         \/ UNCHANGED boot_vars /\ req'["poll"] = req["poll"]
         \/ phase \in {"poll", "run"} /\ PollOver
  PROVE  Silence'
  <1>1. age' = 0 /\ offline' = FALSE BY DEF paint
  <1>2. CASE UNCHANGED boot_vars /\ req'["poll"] = req["poll"]
    BY <1>1, <1>2, ConsoleAssumption DEF Silence, TypeOK, boot_vars, Flight
  <1>3. CASE phase \in {"poll", "run"} /\ PollOver
    <2>1. ~Flight("poll")' BY <1>3, Apart DEF PollOver, TypeOK, Flight
    <2>2. CASE phase = "poll"
      <3>1. phase' = "climate" /\ timer' = 3 * FetchTimeout /\ settled' = settled
        BY <1>3, <2>2 DEF PollOver
      <3> QED BY <1>1, <2>1, <2>2, <3>1, ConsoleAssumption DEF Silence, TypeOK
    <2>3. CASE phase = "run"
      <3>1. phase' = "run" /\ timer' = timer /\ settled' = TRUE
        BY <1>3, <2>3 DEF PollOver
      <3> QED BY <1>1, <2>1, <2>3, <3>1, ConsoleAssumption DEF Silence, TypeOK
    <2> QED BY <1>3, <2>2, <2>3
  <1> QED BY <1>2, <1>3

LEMMA SilenceStep == TypeOK /\ TypeOK' /\ Silence /\ [Next]_vars => Silence'
  <1> SUFFICES ASSUME TypeOK, TypeOK', Silence, [Next]_vars PROVE Silence'
    OBVIOUS
  <1> USE ConsoleAssumption, Apart
  <1>1. CASE Tick
    <2>1. /\ timer' = timer - 1 /\ timer # 0
          /\ ~(phase = "run" /\ Flight("poll") /\ timer = PollEvery - FetchTimeout)
          /\ offline' = offline /\ phase' = phase /\ settled' = settled /\ req' = req
      BY <1>1 DEF Tick, Overdue, PollIsDue, PollLate, TypeOK, net_vars
    <2>2. PICK d \in Nat : d <= 1 /\ age' = age + d
      <3>1. age' = age + 1 \/ age' = age + 0 BY <1>1 DEF Tick, TypeOK
      <3> QED BY <3>1
    <2>3. timer \in Nat /\ age \in Nat /\ PollEvery \in Nat /\ FetchTimeout \in Nat BY DEF TypeOK
    <2> QED BY <2>1, <2>2, <2>3 DEF Silence, TypeOK, Flight
  <1>2. CASE UNCHANGED <<age, offline, boot_vars>> /\ Flight("poll")' = Flight("poll")
    BY <1>2 DEF Silence, boot_vars
  <1>3. CASE Device \/ StreamOpens \/ StreamSends \/ StreamFails
    BY <1>2, <1>3 DEF Device, DeviceChanges, DeviceRestarts, Reachability, StreamOpens, StreamSends,
         StreamFails, net_vars, page_vars, Flight
  <1>4. ASSUME NEW s \in Slots, Serve(s) \/ Lose(s) PROVE Silence'
    <2>1. Flight("poll")' = Flight("poll")
      BY <1>4 DEF Serve, Lose, Flight, TypeOK
    <2> QED BY <1>2, <1>4, <2>1 DEF Serve, Lose, page_vars
  <1>5. ASSUME NEW s \in CmdSlots, Command(s) \/ CommandAnswered(s) \/ CommandFailed(s) PROVE Silence'
    <2>1. req'["poll"] = req["poll"]
      BY <1>5 DEF Command, CommandAnswered, CommandFailed, TypeOK
    <2>2. CASE Command(s) \/ CommandFailed(s)
      BY <1>2, <2>1, <2>2 DEF Command, CommandFailed, page_vars, Flight
    <2>3. CASE CommandAnswered(s)
      BY <2>1, <2>3, SilencePainted DEF CommandAnswered
    <2> QED BY <1>5, <2>2, <2>3
  <1>6. CASE DeviceOver
    BY <1>6 DEF DeviceOver, Silence, TypeOK, Flight, page_vars
  <1>7. CASE ClimateOver
    BY <1>7 DEF ClimateOver, Silence, TypeOK, Flight, page_vars
  <1>8. CASE PollDue
    <2>1. /\ phase = "run" /\ timer = 0 /\ timer' = PollEvery /\ ~Flight("poll") /\ Flight("poll")'
          /\ UNCHANGED <<age, offline, phase, settled>>
      BY <1>8 DEF PollDue, PollIsDue, Silence, Flight, TypeOK, page_vars
    <2> QED BY <2>1 DEF Silence, TypeOK
  <1>9. CASE PollAnswered
    <2>1. phase \in {"poll", "run"} /\ PollOver /\ \E next : paint(next)
      BY <1>9 DEF PollAnswered, Silence, Answered, Flight, TypeOK
    <2> QED BY <2>1, SilencePainted
  <1>10. CASE PollFailed
    <2>1. phase \in {"poll", "run"} BY <1>10 DEF PollFailed, Silence, TypeOK
    <2>4. ~Flight("poll")' BY <1>10 DEF PollFailed, PollOver, Flight, TypeOK
    <2>5. age' = age /\ (~offline' => ~offline /\ age <= OfflineAfter)
      <3>1. age' = age /\ (~offline' => ~offline /\ ~(age > OfflineAfter))
        BY <1>10 DEF PollFailed, pollFailed
      <3> QED BY <3>1 DEF TypeOK
    <2>2. CASE phase = "poll"
      BY <1>10, <2>4, <2>5, <2>2 DEF PollFailed, PollOver, Silence, TypeOK
    <2>3. CASE phase = "run"
      BY <1>10, <2>4, <2>5, <2>3 DEF PollFailed, PollOver, Silence, TypeOK
    <2> QED BY <2>1, <2>2, <2>3
  <1>11. CASE StreamDelivers
    BY <1>11, SilencePainted DEF StreamDelivers
  <1>12. CASE UNCHANGED vars
    BY <1>2, <1>12 DEF vars, page_vars, net_vars, Flight
  <1> QED BY <1>1, <1>3, <1>4, <1>5, <1>6, <1>7, <1>8, <1>9, <1>10, <1>11, <1>12
       DEF Next, Network, Commands, Booting, Polling

LEMMA SilenceIsEnough == TypeOK /\ Silence => SilenceNamed
  BY ConsoleAssumption DEF TypeOK, Silence, SilenceNamed, SilenceLimit, Flight

(* A silent device is named: within one interval and one timeout of           *)
(* OfflineAfter once the polls run, and by the first poll after boot() on a    *)
(* page that never had an answer, whatever boot() was waiting for.           *)
THEOREM SilenceIsNamed == Spec => []SilenceNamed
  <1>1. Spec => []Silence
    BY SilenceInit, SilenceStep, ConsoleTypes, PTL DEF Spec
  <1> QED BY <1>1, SilenceIsEnough, ConsoleTypes, PTL

(* NO CONTACT, which poll gives and paint takes back (app.ts, console.ts), is    *)
(* said of a device that has been silent, and of no other.                    *)
THEOREM ContactIsHonest == Spec => []ContactHonest
  BY OfflineIsHonest, SilenceIsNamed, PTL DEF ContactHonest

-----------------------------------------------------------------------------
(* The refinement.  No step takes the device back.                          *)
LEMMA DevAdvances ==
  ASSUME TypeOK, [Next]_vars
  PROVE  ~M!Later(dev, dev') /\ dev'.rev >= dev.rev
  <1>0. dev \in [boots : Nat, up : Nat, rev : Nat] BY FrameIs DEF TypeOK
  <1>1. CASE dev' = dev
    BY <1>0, <1>1 DEF M!Later
  <1>2. CASE Tick
    BY <1>0, <1>2 DEF Tick, M!Later
  <1>3. ASSUME dev' = [dev EXCEPT !.rev = dev.rev + 1]
        PROVE  ~M!Later(dev, dev') /\ dev'.rev >= dev.rev
    BY <1>0, <1>3 DEF M!Later
  <1>4. CASE DeviceRestarts
    <2>1. dev' = [boots |-> dev.boots + 1, up |-> 0, rev |-> dev.rev]
      BY <1>0, <1>4 DEF DeviceRestarts
    <2> QED BY <1>0, <2>1 DEF M!Later
  <1>5. CASE DeviceChanges \/ \E s \in Slots : Serve(s)
    BY <1>1, <1>3, <1>5 DEF DeviceChanges, Serve
  <1>6. dev' = dev \/ Tick \/ DeviceRestarts \/ DeviceChanges \/ \E s \in Slots : Serve(s)
    BY DEF Next, Device, Reachability, Network, Commands, Booting, Polling, StreamOpens, StreamSends,
       StreamFails, Lose, Command, CommandAnswered, CommandFailed, DeviceOver, ClimateOver, PollDue,
       PollAnswered, PollFailed, StreamDelivers, dev_vars, vars
  <1> QED BY <1>1, <1>2, <1>4, <1>5, <1>6

(* Every step keeps the frames held and adds at most the device's own.       *)
LEMMA HeldGrowsByDev ==
  ASSUME TypeOK, [Next]_vars
  PROVE  Held' \subseteq Held \cup {dev'}
  <1> USE Apart
  <1>1. ASSUME UNCHANGED shown,
               \A t \in Slots : req'[t] = req[t] \/ req'[t] \notin Frame \/ req'[t] = dev',
               \A f \in Frame : Queued(f)' => Queued(f) \/ f = dev'
        PROVE  Held' \subseteq Held \cup {dev'}
    BY <1>1 DEF Held
  <1>2. ASSUME NEW next \in Held, paint(next),
               \A t \in Slots : req'[t] = req[t] \/ req'[t] \notin Frame,
               \A f \in Frame : Queued(f)' => Queued(f)
        PROVE  Held' \subseteq Held \cup {dev'}
    <2>1. shown' = shown \/ shown' = next BY <1>2 DEF paint
    <2>2. \A f \in Frame : f = shown' => f \in Held BY <1>2, <2>1 DEF Held
    <2> QED BY <1>2, <2>2 DEF Held
  <1>3. (UNCHANGED stream) => \A f \in Frame : Queued(f)' => Queued(f)
    BY DEF Queued
  <1>4. CASE Tick
    BY <1>1, <1>3, <1>4 DEF Tick, net_vars
  <1>5. CASE DeviceChanges \/ Reachability
    BY <1>1, <1>3, <1>5 DEF DeviceChanges, Reachability, net_vars, page_vars
  <1>6. CASE DeviceRestarts
    <2>1. CASE stream = None
      BY <1>1, <1>6, <2>1 DEF DeviceRestarts, Queued, page_vars
    <2>2. CASE stream # None
      <3>1. stream \in Streams /\ stream' = [stream EXCEPT !.open = FALSE, !.queue = << >>]
        BY <1>6, <2>2 DEF DeviceRestarts, TypeOK
      <3>2. stream'.queue = << >> BY <3>1 DEF Streams
      <3>3. \A f \in Frame : ~Queued(f)' BY <3>2 DEF Queued
      <3> QED BY <1>1, <1>6, <3>3 DEF DeviceRestarts, page_vars
    <2> QED BY <2>1, <2>2
  <1>7. ASSUME NEW s \in Slots, Serve(s) \/ Lose(s) PROVE Held' \subseteq Held \cup {dev'}
    <2>1. UNCHANGED <<shown, stream>> BY <1>7 DEF Serve, Lose, page_vars
    <2>2. \A t \in Slots : req'[t] = req[t] \/ req'[t] \notin Frame \/ req'[t] = dev'
      BY <1>7 DEF Serve, Lose, TypeOK
    <2> QED BY <1>1, <1>3, <2>1, <2>2
  <1>8. ASSUME NEW s \in CmdSlots, Command(s) \/ CommandFailed(s) PROVE Held' \subseteq Held \cup {dev'}
    <2>1. UNCHANGED <<shown, stream>> BY <1>8 DEF Command, CommandFailed, page_vars
    <2>2. \A t \in Slots : req'[t] = req[t] \/ req'[t] \notin Frame
      BY <1>8 DEF Command, CommandFailed, TypeOK
    <2> QED BY <1>1, <1>3, <2>1, <2>2
  <1>9. ASSUME NEW s \in CmdSlots, CommandAnswered(s) PROVE Held' \subseteq Held \cup {dev'}
    <2>1. UNCHANGED stream /\ (\A t \in Slots : req'[t] = req[t] \/ req'[t] \notin Frame)
      BY <1>9 DEF CommandAnswered, TypeOK
    <2>2. s \in Slots /\ req[s] \in Held /\ paint(req[s]) BY <1>9, Arrivals DEF CommandAnswered
    <2> QED BY <1>2, <1>3, <2>1, <2>2
  <1>10. PollOver => \A t \in Slots : req'[t] = req[t] \/ req'[t] \notin Frame
    BY DEF PollOver, TypeOK
  <1>11. CASE PollAnswered
    <2>1. req["poll"] \in Held /\ paint(req["poll"]) BY <1>11, Arrivals DEF PollAnswered
    <2> QED BY <1>2, <1>3, <1>10, <1>11, <2>1 DEF PollAnswered
  <1>12. CASE PollFailed
    BY <1>1, <1>3, <1>10, <1>12 DEF PollFailed, pollFailed
  <1>13. CASE PollDue \/ DeviceOver
    <2>1. UNCHANGED <<shown, stream>> BY <1>13 DEF PollDue, DeviceOver, page_vars
    <2>2. \A t \in Slots : req'[t] = req[t] \/ req'[t] \notin Frame
      BY <1>13 DEF PollDue, DeviceOver, TypeOK
    <2> QED BY <1>1, <1>3, <2>1, <2>2
  <1>14. CASE ClimateOver \/ StreamOpens \/ StreamFails
    <2>1. \A f \in Frame : ~Queued(f)'
      BY <1>14 DEF ClimateOver, StreamOpens, StreamFails, Queued
    <2>2. UNCHANGED <<shown, req>>
      BY <1>14 DEF ClimateOver, StreamOpens, StreamFails, page_vars
    <2> QED BY <1>1, <2>1, <2>2
  <1>15. CASE StreamSends
    <2> DEFINE q == stream.queue
    <2>1. stream # None /\ q \in Seq(Frame) /\ dev \in Frame /\ UNCHANGED <<dev, shown, req>>
      BY <1>15 DEF StreamSends, TypeOK, Streams, dev_vars, page_vars
    <2>2. stream'.queue = Append(q, dev) BY <1>15 DEF StreamSends, TypeOK, Streams
    <2> HIDE DEF q
    <2>3. \A i \in 1..Len(Append(q, dev)) :
            Append(q, dev)[i] = dev \/ (i \in 1..Len(q) /\ Append(q, dev)[i] = q[i])
      BY <2>1
    <2>4. \A f \in Frame : Queued(f)' => Queued(f) \/ f = dev'
      BY <2>1, <2>2, <2>3 DEF Queued, q
    <2> QED BY <1>1, <2>1, <2>4
  <1>16. CASE StreamDelivers
    <2> DEFINE q == stream.queue
    <2>1. stream # None /\ stream \in Streams /\ q \in Seq(Frame) /\ q # << >> /\ req' = req
      BY <1>16 DEF StreamDelivers, TypeOK, Streams
    <2>2. stream'.queue = Tail(q) BY <1>16, <2>1 DEF StreamDelivers, Streams
    <2> HIDE DEF q
    <2>3. \A i \in 1..Len(Tail(q)) : i + 1 \in 1..Len(q) /\ Tail(q)[i] = q[i + 1]
      BY <2>1
    <2>4. \A f \in Frame : Queued(f)' => Queued(f)
      BY <2>1, <2>2, <2>3 DEF Queued, q
    <2>5. Head(stream.queue) \in Held /\ paint(Head(stream.queue))
      BY <1>16, Arrivals DEF StreamDelivers
    <2> QED BY <1>2, <2>1, <2>4, <2>5
  <1>17. CASE UNCHANGED vars
    BY <1>1, <1>3, <1>17 DEF vars, net_vars, page_vars
  <1> QED BY <1>4, <1>5, <1>6, <1>7, <1>8, <1>9, <1>11, <1>12, <1>13, <1>14, <1>15, <1>16, <1>17
       DEF Next, Device, Network, Commands, Booting, Polling

LEMMA HistoryInit == Init => OneHistory
  BY Apart DEF Init, OneHistory, Held, Queued, Frame, M!Frame

LEMMA HistoryStep == TypeOK /\ TypeOK' /\ OneHistory /\ [Next]_vars => OneHistory'
  <1> SUFFICES ASSUME TypeOK, TypeOK', OneHistory, [Next]_vars PROVE OneHistory'
    OBVIOUS
  <1>1. /\ Held' \subseteq Held \cup {dev'} /\ Held \subseteq Frame /\ dev \in Frame /\ dev' \in Frame
        /\ ~M!Later(dev, dev') /\ dev'.rev >= dev.rev
    BY DevAdvances, HeldGrowsByDev DEF Held, TypeOK
  <1>2. \A f \in Held : M!Past(f, dev')
    BY <1>1 DEF OneHistory, M!Past, M!Later, Frame, M!Frame
  <1>3. M!Past(dev', dev')
    BY <1>1 DEF M!Past, M!Later, Frame, M!Frame
  <1>4. \A f, g \in Held \cup {dev'} : M!Consistent(f, g)
    <2> SUFFICES ASSUME NEW f \in Held \cup {dev'}, NEW g \in Held \cup {dev'} PROVE M!Consistent(f, g)
      OBVIOUS
    <2>1. CASE f \in Held /\ g \in Held BY <2>1 DEF OneHistory
    <2>2. CASE f = dev' BY <1>1, <1>2, <1>3, <2>2 DEF M!Consistent, M!Past, M!Later, Frame, M!Frame
    <2>3. CASE g = dev' BY <1>1, <1>2, <1>3, <2>3 DEF M!Consistent, M!Past, M!Later, Frame, M!Frame
    <2> QED BY <2>1, <2>2, <2>3
  <1>5. \A f \in Held' : M!Past(f, dev') BY <1>1, <1>2, <1>3
  <1>6. \A f, g \in Held' : M!Consistent(f, g) BY <1>1, <1>4
  <1> QED BY <1>5, <1>6 DEF OneHistory

(* A painted frame is a Look of Mirror, or leaves what is shown.             *)
LEMMA PaintIsALook ==
  ASSUME TypeOK, OneHistory, NEW next \in Held, paint(next), dev' = dev
  PROVE  M!Look \/ UNCHANGED M!mirror_vars
  <1>1. CASE ~isNewer(next, shown)
    BY <1>1 DEF paint, M!mirror_vars
  <1>2. CASE isNewer(next, shown)
    <2>1. shown' = next /\ next \in Frame /\ M!Past(next, dev)
      BY <1>2 DEF paint, OneHistory, Held
    <2>2. ASSUME shown # NoFrame PROVE ~M!Later(shown, next) /\ M!Consistent(next, shown)
      <3>1. shown \in Held BY <2>2 DEF TypeOK, Held
      <3>2. ~M!Later(shown, next)
        BY <1>2, <2>1, <2>2, <3>1 DEF isNewer, M!Later, Held, Frame, M!Frame
      <3> QED BY <3>1, <3>2 DEF OneHistory
    <2> QED BY <2>1, <2>2 DEF M!Look, M!Frame, Frame
  <1> QED BY <1>1, <1>2

LEMMA StepMirrors ==
  TypeOK /\ TypeOK' /\ OneHistory /\ [Next]_vars => [M!MirrorNext]_(M!mirror_vars)
  <1> SUFFICES ASSUME TypeOK, TypeOK', OneHistory, [Next]_vars
               PROVE  M!MirrorNext \/ UNCHANGED M!mirror_vars
    OBVIOUS
  <1>1. CASE shown' = shown
    <2>1. ~M!Later(dev, dev') /\ dev'.rev >= dev.rev /\ dev' \in Frame
      BY DevAdvances DEF TypeOK
    <2> QED BY <1>1, <2>1 DEF M!MirrorNext, M!Advance, Frame
  <1>2. CASE \E next \in Held : paint(next) /\ dev' = dev
    BY <1>2, PaintIsALook DEF M!MirrorNext
  <1>3. shown' = shown \/ (\E s \in CmdSlots : CommandAnswered(s)) \/ PollAnswered \/ StreamDelivers
    BY DEF Next, Tick, Device, DeviceChanges, DeviceRestarts, Reachability, Network, StreamOpens,
       StreamSends, StreamFails, Serve, Lose, Commands, Command, CommandFailed, Booting, DeviceOver,
       ClimateOver, Polling, PollDue, PollFailed, pollFailed, page_vars, vars
  <1>4. CASE \E s \in CmdSlots : CommandAnswered(s)
    BY <1>2, <1>4, Arrivals, Apart DEF CommandAnswered, dev_vars
  <1>5. CASE PollAnswered
    BY <1>2, <1>5, Arrivals, Apart DEF PollAnswered, dev_vars
  <1>6. CASE StreamDelivers
    BY <1>2, <1>6, Arrivals DEF StreamDelivers, dev_vars
  <1> QED BY <1>1, <1>3, <1>4, <1>5, <1>6

(* The page implements Mirror: whatever order poll, stream and commands         *)
(* answer in and whenever the device restarts, it shows a state the device      *)
(* was in and goes back to no earlier boot or second (console.ts isNewer).     *)
THEOREM ConsoleMirrors == Spec => MirrorSpec
  <1>1. Init => M!MirrorInit BY DEF Init, M!MirrorInit, M!Frame
  <1>2. Spec => [](TypeOK /\ OneHistory)
    BY TypeInit, TypeStep, HistoryInit, HistoryStep, PTL DEF Spec
  <1> QED BY <1>1, <1>2, StepMirrors, PTL DEF Spec, MirrorSpec, M!MirrorSpec
=============================================================================
