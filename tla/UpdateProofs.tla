----------------------------- MODULE UpdateProofs -----------------------------
(* Proofs about updates for every value of the constants.  On the board        *)
(* (OtaRollback): there is always an image to boot, success is said of complete *)
(* images only, and a rollback is earned.  On the page (Install): what is       *)
(* offered is sound, nothing unverified is sent unsaid, the verdict is true.    *)
EXTENDS OtaRollback, Install, WellFoundedInduction, TLAPS

-----------------------------------------------------------------------------
(* The board.                                                               *)

(* An upload's flags: nobody is authorised between requests, authorisation is *)
(* this request's token, and a part that ended well has selected its slot.    *)
UploadInv ==
  /\ request \in {"none", "rebooting"} => ~g_authorized
  /\ g_authorized \/ request = "rebooting" => token
  /\ (request = "between" /\ g_authorized /\ ~StreamFailed) \/ request = "rebooting"
       => boot_slot = Other(running) /\ slot[boot_slot] # Torn

(* A boot runs what the bootloader picks; until its check is made nothing has *)
(* touched it, and afterwards the streak is its own.                         *)
Picked == IF slot[boot_slot] # Torn THEN boot_slot ELSE Other(boot_slot)

BootInv ==
  /\ slot[running] # Torn
  /\ phase = "booting" => request = "none" /\ running = Picked
  /\ phase = "up" => rtc_streak_sha = slot[running]
  /\ rtc_streak_sha = slot[running] => own_boots >= rtc_unhealthy_boots

OtaInv == OtaTypeOK /\ UploadInv /\ BootInv

(* What NVS names is the proven image the board runs or could fall back on.   *)
ProvenInv ==
  /\ boot_slot # running => boot_slot \notin proven
  /\ running \in proven => conf_sha = slot[running]
  /\ running \notin proven /\ Other(running) \in proven => conf_sha = slot[Other(running)]
  /\ running_confirmed \/ confirmed_this_boot => conf_sha = slot[running]

-----------------------------------------------------------------------------
LEMMA OtherSlot ==
  \A s \in Slots : Other(s) \in Slots /\ Other(s) # s /\ Other(Other(s)) = s
                   /\ \A t \in Slots : t = s \/ t = Other(s)
  BY DEF Slots, Other

LEMMA CappedIs ==
  \A k \in Nat : Capped(k) \in 0 .. kMaxUnhealthy /\ Capped(k) <= k
                 /\ (k >= kMaxUnhealthy <=> Capped(k) = kMaxUnhealthy)
                 /\ \A m \in Nat : m >= k => Capped(m) >= Capped(k)
  BY BoundsAssumption DEF Capped

LEMMA OtaInit_Inv == OtaInit => OtaInv /\ ProvenInv
  <1> SUFFICES ASSUME OtaInit PROVE OtaInv /\ ProvenInv
    OBVIOUS
  <1>1. PICK img \in Images : slot = [s \in Slots |-> IF s = 0 THEN img ELSE Torn]
    BY DEF OtaInit
  <1>2. img # Torn /\ img # Noise
    BY ImagesAssumption
  <1>3. 0 \in Slots /\ slot[0] = img
    BY <1>1 DEF Slots
  <1>4. OtaTypeOK
    <2>1. OtaHandlerTypeOK
      <3>1. g_authorized \in BOOLEAN /\ g_failed \in BOOLEAN /\ engine_error \in BOOLEAN /\ token \in BOOLEAN
        BY Zenon DEF OtaInit, WebInit
      <3>2. 0 \in 0 .. kParts
        BY PartsAssumption
      <3> QED BY <3>1, <3>2 DEF OtaInit, WebInit, OtaHandlerTypeOK
    <2>2. /\ running_confirmed \in BOOLEAN /\ confirmed_this_boot \in BOOLEAN
          /\ ever_connected \in BOOLEAN
      BY Zenon DEF OtaInit
    <2>3. 0 \in 0 .. kMaxUnhealthy /\ kInputs \in 0 .. kInputs
      BY BoundsAssumption
    <2>4. slot \in [Slots -> Images \cup {Torn}]
      BY <1>1
    <2> QED BY <1>3, <2>1, <2>2, <2>3, <2>4 DEF OtaInit, OtaTypeOK
  <1>5. UploadInv
    BY DEF OtaInit, WebInit, UploadInv
  <1>6. BootInv
    BY <1>2, <1>3 DEF OtaInit, WebInit, BootInv, Picked
  <1>7. ProvenInv
    BY DEF OtaInit, ProvenInv
  <1> QED BY <1>4, <1>5, <1>6, <1>7 DEF OtaInv

(* A restart: RAM and the handlers start over in the slot the bootloader      *)
(* takes, and there is one.                                                  *)
LEMMA BootLands ==
  ASSUME OtaInv, NEW selected \in Slots, Boot(selected), slot' = slot,
         selected = boot_slot \/ slot[selected] # Torn
  PROVE  /\ running' \in Slots /\ slot'[running'] # Torn /\ UploadInv' /\ OtaHandlerTypeOK'
         /\ phase' = "booting" /\ request' = "none" /\ running' = Picked'
         /\ boot_slot' \in Slots /\ boot_slot' = selected
         /\ running_confirmed' = FALSE /\ confirmed_this_boot' = FALSE /\ ever_connected' = FALSE
  <1> USE DEF OtaInv
  <1>1. boot_slot' = selected /\ running' = (IF slot[selected] # Torn THEN selected ELSE Other(selected))
    BY DEF Boot
  <1>2. running' \in Slots /\ slot'[running'] # Torn
    <2>1. CASE slot[selected] # Torn
      BY <2>1, <1>1
    <2>2. CASE slot[selected] = Torn
      <3>1. selected = boot_slot /\ running # selected /\ running \in Slots
        BY <2>2 DEF OtaTypeOK, BootInv
      <3>2. Other(selected) = running
        BY <3>1, OtherSlot
      <3> QED BY <2>2, <3>1, <3>2, <1>1 DEF BootInv
    <2> QED BY <2>1, <2>2
  <1>3. OtaHandlerTypeOK' /\ UploadInv'
    <2>1. /\ g_authorized' = FALSE /\ g_failed' = FALSE /\ engine' = "idle" /\ engine_error' = FALSE
          /\ request' = "none" /\ token' = FALSE /\ parts' = 0 /\ reply' = "none"
      BY DEF Boot, WebStartsOver
    <2>2. g_authorized' \in BOOLEAN /\ g_failed' \in BOOLEAN /\ engine_error' \in BOOLEAN /\ token' \in BOOLEAN
      BY <2>1, Zenon
    <2>3. 0 \in 0 .. kParts
      BY PartsAssumption
    <2> QED BY <2>1, <2>2, <2>3 DEF OtaHandlerTypeOK, UploadInv
  <1>4. running' = Picked'
    BY <1>1 DEF Picked
  <1> QED BY <1>1, <1>2, <1>3, <1>4 DEF Boot, WebStartsOver

(* A restart that is no rollback keeps the row of fruitless boots with its    *)
(* image, and the streak no longer than the row.                             *)
LEMMA RestartKeepsRow ==
  ASSUME OtaInv, Boot(boot_slot), KeepRow, slot' = slot,
         \/ rtc_unhealthy_boots' = rtc_unhealthy_boots /\ rtc_streak_sha' = rtc_streak_sha
         \/ rtc_streak_sha' = Noise /\ rtc_unhealthy_boots' \in {0, kMaxUnhealthy}
  PROVE  BootInv' /\ own_boots' \in 0 .. kMaxUnhealthy
         /\ rtc_unhealthy_boots' \in 0 .. kMaxUnhealthy /\ rtc_streak_sha' \in Images \cup {Noise}
  <1> USE DEF OtaInv
  <1>0. boot_slot \in Slots BY DEF OtaTypeOK
  <1>1. /\ running' \in Slots /\ slot'[running'] # Torn
        /\ phase' = "booting" /\ request' = "none" /\ running' = Picked'
    BY <1>0, BootLands
  <1>2. own_boots' \in 0 .. kMaxUnhealthy
    BY BoundsAssumption DEF KeepRow, OtaTypeOK
  <1>3. slot'[running'] \in Images
    BY <1>1 DEF OtaTypeOK
  <1>4. slot'[running'] # Noise
    BY <1>3, ImagesAssumption
  <1>5. rtc_streak_sha' = slot'[running'] => own_boots' >= rtc_unhealthy_boots'
    <2> SUFFICES ASSUME rtc_streak_sha' = slot'[running']
                 PROVE  own_boots' >= rtc_unhealthy_boots'
      OBVIOUS
    <2>1. rtc_unhealthy_boots' = rtc_unhealthy_boots /\ rtc_streak_sha' = rtc_streak_sha
      BY <1>4
    <2>2. slot[running'] = Running
      <3>1. CASE phase = "booting"
        BY <3>1 DEF BootInv, Picked, Boot, Running
      <3>2. CASE phase = "up"
        BY <3>2, <2>1 DEF BootInv, Running
      <3> QED BY <3>1, <3>2 DEF OtaTypeOK
    <2>3. own_boots' = own_boots /\ rtc_streak_sha = slot[running]
      BY <2>1, <2>2 DEF KeepRow, Running
    <2> QED BY <2>1, <2>3 DEF BootInv
  <1>6. rtc_unhealthy_boots' \in 0 .. kMaxUnhealthy /\ rtc_streak_sha' \in Images \cup {Noise}
    BY BoundsAssumption DEF OtaTypeOK
  <1> QED BY <1>1, <1>2, <1>5, <1>6 DEF BootInv

(* The four restarts that are no rollback.                                  *)
Restarts == UnconfirmedDeadline \/ WarmRestart \/ PowerCut \/ UploadRestarts

LEMMA RestartInv == ASSUME OtaInv, Restarts PROVE OtaInv'
  <1> USE DEF OtaInv
  <1>1. /\ Boot(boot_slot) /\ KeepRow /\ slot' = slot /\ conf_sha' = conf_sha /\ proven' = proven
        /\ \/ rtc_unhealthy_boots' = rtc_unhealthy_boots /\ rtc_streak_sha' = rtc_streak_sha
           \/ rtc_streak_sha' = Noise /\ rtc_unhealthy_boots' \in {0, kMaxUnhealthy}
    BY DEF Restarts, UnconfirmedDeadline, WarmRestart, PowerCut, UploadRestarts
  <1>2. inputs' \in 0 .. kInputs
    BY BoundsAssumption
    DEF Restarts, UnconfirmedDeadline, WarmRestart, PowerCut, UploadRestarts, Outside, OtaTypeOK
  <1>3. boot_slot \in Slots
    BY DEF OtaTypeOK
  <1>4. /\ running' \in Slots /\ UploadInv' /\ OtaHandlerTypeOK' /\ phase' = "booting"
        /\ boot_slot' \in Slots
        /\ running_confirmed' = FALSE /\ confirmed_this_boot' = FALSE /\ ever_connected' = FALSE
    BY <1>1, <1>3, BootLands
  <1>5. /\ BootInv' /\ own_boots' \in 0 .. kMaxUnhealthy
        /\ rtc_unhealthy_boots' \in 0 .. kMaxUnhealthy /\ rtc_streak_sha' \in Images \cup {Noise}
    BY <1>1, RestartKeepsRow
  <1>6. OtaTypeOK'
    BY <1>1, <1>2, <1>4, <1>5 DEF OtaTypeOK
  <1> QED BY <1>4, <1>5, <1>6

LEMMA StreakIs ==
  ASSUME OtaTypeOK
  PROVE  /\ StreakAtBoot \in 0 .. kMaxUnhealthy
         /\ StreakAtBoot = Capped((IF rtc_streak_sha = Running THEN rtc_unhealthy_boots ELSE 0) + 1)
  BY CappedIs, BoundsAssumption DEF OtaTypeOK, StreakAtBoot

LEMMA RunOnInv == ASSUME OtaInv, RunOn PROVE OtaInv'
  <1> USE DEF OtaInv
  <1>1. own_boots \in 0 .. kMaxUnhealthy /\ rtc_unhealthy_boots \in 0 .. kMaxUnhealthy
    BY DEF OtaTypeOK
  <1>2. own_boots' = Capped(own_boots + 1) /\ own_boots' \in 0 .. kMaxUnhealthy
    BY <1>1, CappedIs, BoundsAssumption DEF RunOn
  <1>3. rtc_unhealthy_boots' \in 0 .. kMaxUnhealthy
    BY StreakIs DEF RunOn
  <1>4. own_boots' >= rtc_unhealthy_boots'
    <2> DEFINE before == IF rtc_streak_sha = Running THEN rtc_unhealthy_boots ELSE 0
    <2>1. before \in Nat /\ own_boots \in Nat /\ own_boots >= before
      BY <1>1, BoundsAssumption DEF BootInv, Running
    <2>2. before + 1 \in Nat /\ own_boots + 1 \in Nat /\ own_boots + 1 >= before + 1
      BY <2>1
    <2>3. rtc_unhealthy_boots' = Capped(before + 1)
      BY StreakIs DEF RunOn
    <2> HIDE DEF before
    <2> QED BY <2>2, <2>3, <1>2, CappedIs
  <1>5. Running \in Images /\ slot' = slot /\ running' = running
    BY DEF RunOn, OtaTypeOK, BootInv, Running
  <1>6. OtaTypeOK'
    BY <1>2, <1>3, <1>5 DEF RunOn, OtaTypeOK, OtaHandlerTypeOK, web_vars, flags, engine_st
  <1>7. UploadInv'
    BY DEF RunOn, UploadInv, web_vars, StreamFailed
  <1>8. BootInv'
    BY <1>4, <1>5 DEF RunOn, BootInv, Running
  <1> QED BY <1>6, <1>7, <1>8

LEMMA RollBackInv == ASSUME OtaInv, RollBack PROVE OtaInv'
  <1> USE DEF OtaInv
  <1>1. Other(running) \in Slots /\ slot[Other(running)] # Torn /\ slot' = slot
    BY OtherSlot DEF RollBack, OtaTypeOK
  <1>2. Boot(Other(running))
    BY DEF RollBack
  <1>3. /\ running' \in Slots /\ slot'[running'] # Torn /\ UploadInv' /\ OtaHandlerTypeOK'
        /\ phase' = "booting" /\ request' = "none" /\ running' = Picked' /\ boot_slot' \in Slots
        /\ running_confirmed' = FALSE /\ confirmed_this_boot' = FALSE /\ ever_connected' = FALSE
    BY <1>1, <1>2, BootLands
  <1>4. Running \in Images
    BY DEF OtaTypeOK, BootInv, Running
  <1>5. OtaTypeOK'
    <2>1. /\ running_confirmed' \in BOOLEAN /\ confirmed_this_boot' \in BOOLEAN
          /\ ever_connected' \in BOOLEAN
      BY <1>3, Zenon
    <2>2. 0 \in 0 .. kMaxUnhealthy
      BY BoundsAssumption
    <2>3. /\ rtc_unhealthy_boots' = 0 /\ own_boots' = 0 /\ rtc_streak_sha' = Running
          /\ conf_sha' = conf_sha /\ proven' = proven /\ inputs' = inputs
      BY DEF RollBack
    <2> QED BY <1>1, <1>3, <1>4, <2>1, <2>2, <2>3 DEF OtaTypeOK
  <1>6. BootInv'
    BY <1>3, BoundsAssumption DEF RollBack, BootInv
  <1> QED BY <1>3, <1>5, <1>6

LEMMA MarkInv == ASSUME OtaInv, mark_healthy PROVE OtaInv'
  <1> USE DEF OtaInv
  <1>1. Running \in Images /\ slot' = slot /\ running' = running /\ boot_slot' = boot_slot
    BY DEF mark_healthy, OtaTypeOK, BootInv, Running
  <1>2. conf_sha' \in Images \cup {Nobody} /\ running_confirmed' \in BOOLEAN
    BY <1>1 DEF mark_healthy, StoreSha, OtaTypeOK
  <1>3. OtaTypeOK'
    BY <1>1, <1>2, BoundsAssumption DEF mark_healthy, OtaTypeOK, OtaHandlerTypeOK, web_vars
  <1>4. UploadInv'
    BY <1>1 DEF mark_healthy, UploadInv, web_vars, StreamFailed
  <1>5. BootInv'
    BY <1>1 DEF mark_healthy, BootInv, OtaTypeOK
  <1> QED BY <1>3, <1>4, <1>5

(* What an upload does to everything but its flags.                         *)
Uploads == UploadRequest \/ UploadWrite \/ Harmless(Start) \/ Harmless(Aborted)
           \/ Harmless(handle_done) \/ \E img \in Images : UploadEnd(img)

LEMMA UploadFlags ==
  ASSUME OtaHandlerTypeOK, Request \/ Start \/ Write \/ End \/ Aborted \/ handle_done
  PROVE  OtaHandlerTypeOK'
  <1> USE DEF OtaHandlerTypeOK, flags, engine_st
  <1>1. CASE Request BY <1>1 DEF Request
  <1>2. CASE Start
    <2>1. request' = "part" /\ parts' = parts - 1 /\ parts > 0 /\ parts \in 0 .. kParts
          /\ token' = token /\ reply' = reply /\ engine' \in {"idle", "open"}
      BY <1>2 DEF Start
    <2>2. g_authorized' \in BOOLEAN /\ g_failed' \in BOOLEAN /\ engine_error' \in BOOLEAN
      BY <1>2, Zenon DEF Start
    <2>3. parts' \in 0 .. kParts
      BY <2>1, PartsAssumption
    <2> QED BY <2>1, <2>2, <2>3
  <1>3. CASE Write BY <1>3 DEF Write
  <1>4. CASE End BY <1>4 DEF End
  <1>5. CASE Aborted BY <1>5 DEF Aborted, reset_stream
  <1>6. CASE handle_done
    <2>1. /\ g_authorized' = FALSE /\ g_failed' = FALSE /\ request = "between"
          /\ engine_error' = engine_error /\ token' = token /\ parts' = parts
      BY <1>6 DEF handle_done
    <2>2. g_authorized' \in BOOLEAN /\ g_failed' \in BOOLEAN
      BY <2>1, Zenon
    <2>3. /\ reply' \in {"200", "403", "500"} /\ request' \in {"none", "rebooting"}
          /\ engine' \in {"idle", "open"}
          /\ request' = "rebooting" => reply' = "200" /\ engine' = "idle"
      BY <1>6 DEF handle_done, StreamFailed
    <2> QED BY <2>1, <2>2, <2>3
  <1> QED BY <1>1, <1>2, <1>3, <1>4, <1>5, <1>6

LEMMA UploadsInv == ASSUME OtaInv, Uploads PROVE OtaInv'
  <1> USE DEF OtaInv
  <1> DEFINE tgt == Other(running)
  <1>1. tgt \in Slots /\ tgt # running /\ running \in Slots
    BY OtherSlot DEF OtaTypeOK
  <1>2. /\ NoReboot
        /\ Request \/ Start \/ Write \/ End \/ Aborted \/ handle_done
        /\ phase = "booting" => FALSE
    BY DEF Uploads, UploadRequest, UploadWrite, UploadEnd, Harmless, Request, Start, Write, End,
           Aborted, handle_done, BootInv, OtaTypeOK
  <1>3. OtaHandlerTypeOK'
    BY <1>2, UploadFlags DEF OtaTypeOK
  <1>4. /\ slot' = slot \/ \E img \in Images \cup {Torn} : slot' = [slot EXCEPT ![tgt] = img]
        /\ boot_slot' \in {boot_slot, tgt} /\ proven' \subseteq proven
    BY DEF Uploads, UploadRequest, UploadWrite, UploadEnd, Harmless, flash_target
  <1>5. slot' \in [Slots -> Images \cup {Torn}] /\ slot'[running] = slot[running]
    <2>1. CASE slot' = slot
      BY <2>1 DEF OtaTypeOK
    <2>2. CASE \E img \in Images \cup {Torn} : slot' = [slot EXCEPT ![tgt] = img]
      BY <2>2, <1>1 DEF OtaTypeOK
    <2> QED BY <1>4, <2>1, <2>2
  <1>6. inputs' \in 0 .. kInputs
    BY BoundsAssumption
    DEF Uploads, UploadRequest, UploadWrite, UploadEnd, Harmless, Outside, OtaTypeOK
  <1>7. OtaTypeOK'
    <2>1. /\ running' = running /\ phase' = phase /\ conf_sha' = conf_sha /\ own_boots' = own_boots
          /\ rtc_unhealthy_boots' = rtc_unhealthy_boots /\ rtc_streak_sha' = rtc_streak_sha
          /\ running_confirmed' = running_confirmed /\ confirmed_this_boot' = confirmed_this_boot
          /\ ever_connected' = ever_connected
      BY <1>2 DEF NoReboot, ram
    <2>2. boot_slot' \in Slots /\ proven' \subseteq Slots
      BY <1>1, <1>4 DEF OtaTypeOK
    <2>3. slot' \in [Slots -> Images \cup {Torn}]
      BY <1>5
    <2> HIDE DEF OtaInv
    <2>4. OtaTypeOK
      BY DEF OtaInv
    <2> QED BY <1>3, <1>6, <2>1, <2>2, <2>3, <2>4 DEF OtaTypeOK
  <1>8. BootInv'
    <2>1. /\ running' = running /\ phase' = phase /\ own_boots' = own_boots
          /\ rtc_unhealthy_boots' = rtc_unhealthy_boots /\ rtc_streak_sha' = rtc_streak_sha
      BY <1>2 DEF NoReboot
    <2>2. phase = "up"
      BY <1>2 DEF OtaTypeOK
    <2> QED BY <1>5, <2>1, <2>2 DEF BootInv
  <1>9. UploadInv'
    <2>1. CASE UploadRequest
      BY <2>1, <1>2 DEF UploadRequest, Request, NoReboot, ram, flags, engine_st, UploadInv, StreamFailed
    <2>2. CASE UploadWrite
      BY <2>2 DEF UploadWrite, Write, UploadInv
    <2>3. CASE Harmless(Start)
      BY <2>3 DEF Harmless, Start, UploadInv
    <2>4. CASE Harmless(Aborted)
      BY <2>4 DEF Harmless, Aborted, reset_stream, UploadInv
    <2>5. CASE Harmless(handle_done)
      BY <2>5 DEF Harmless, handle_done, NoReboot, flags, UploadInv, StreamFailed
    <2>6. ASSUME NEW img \in Images, UploadEnd(img) PROVE UploadInv'
      <3>1. request = "part" /\ request' = "between" /\ g_authorized' = g_authorized /\ token' = token
            /\ running' = running
        BY <2>6 DEF UploadEnd, End, NoReboot
      <3>2. CASE ImageAccepted
        <4>1. slot' = [slot EXCEPT ![tgt] = img] /\ boot_slot' = tgt
          BY <2>6, <3>2 DEF UploadEnd, flash_target
        <4>2. slot'[boot_slot'] = img /\ img # Torn
          BY <4>1, <1>1, ImagesAssumption DEF OtaTypeOK
        <4> QED BY <3>1, <4>1, <4>2 DEF UploadInv
      <3>3. CASE ~ImageAccepted
        <4>1. ~g_authorized' \/ g_failed'
          BY <3>1, <3>3, <2>6 DEF UploadEnd, End, ImageAccepted, OtaTypeOK, OtaHandlerTypeOK
        <4> QED BY <3>1, <4>1 DEF UploadInv, StreamFailed
      <3> QED BY <3>2, <3>3
    <2> QED BY <2>1, <2>2, <2>3, <2>4, <2>5, <2>6 DEF Uploads
  <1> QED BY <1>7, <1>8, <1>9

LEMMA NextIs == OtaNext <=> RunOn \/ RollBack \/ mark_healthy \/ Restarts \/ Uploads
  BY DEF OtaNext, UploadGoesOn, Restarts, Uploads

LEMMA OtaStep == OtaInv /\ [OtaNext]_ota_vars => OtaInv'
  <1> SUFFICES ASSUME OtaInv, [OtaNext]_ota_vars PROVE OtaInv'
    OBVIOUS
  <1>1. CASE OtaNext
    BY <1>1, NextIs, RunOnInv, RollBackInv, MarkInv, RestartInv, UploadsInv
  <1>2. CASE UNCHANGED ota_vars
    BY <1>2 DEF ota_vars, ram, web_vars, OtaInv, OtaTypeOK, OtaHandlerTypeOK, UploadInv, BootInv,
                Picked, StreamFailed
  <1> QED BY <1>1, <1>2

-----------------------------------------------------------------------------
(* No upload, crash or power cut leaves the board without an image to boot,    *)
(* lets a request without the token restart it, or announces a new slot that   *)
(* is not whole and next; for every cap, every number of parts and all images. *)
THEOREM AlwaysOtaSafe == OtaSpec => []OtaSafe
  <1>1. OtaInit => OtaInv
    BY OtaInit_Inv
  <1>2. OtaInv /\ [OtaNext]_ota_vars => OtaInv'
    BY OtaStep
  <1>3. OtaInv => OtaSafe
    BY DEF OtaInv, OtaSafe, AlwaysBootable, OkMeansFlashed, RebootNeedsToken, UploadInv, BootInv, Running
  <1> QED BY <1>1, <1>2, <1>3, PTL DEF OtaSpec

(* The bootloader's answer to a streak: an image is given up at the cap, every *)
(* boot of the streak having been its own.                                   *)
LEMMA RollBackFair == ASSUME OtaInv, RollBack PROVE own_boots >= kMaxUnhealthy - 1
  <1> DEFINE before == IF rtc_streak_sha = Running THEN rtc_unhealthy_boots ELSE 0
  <1>1. before \in Nat /\ own_boots \in Nat /\ own_boots >= before
    BY BoundsAssumption DEF OtaInv, OtaTypeOK, BootInv, Running
  <1>2. StreakAtBoot >= kMaxUnhealthy /\ StreakAtBoot = Capped(before + 1)
    BY StreakIs DEF RollBack, Judged, boot_health_should_rollback, OtaInv
  <1> HIDE DEF before
  <1>3. before + 1 \in Nat /\ Capped(before + 1) \in 0 .. kMaxUnhealthy /\ Capped(before + 1) <= before + 1
    BY <1>1, CappedIs
  <1> QED BY <1>1, <1>2, <1>3, BoundsAssumption

THEOREM ChanceIsFair == OtaSpec => FairChance
  <1>1. OtaInit => OtaInv
    BY OtaInit_Inv
  <1>2. OtaInv /\ [OtaNext]_ota_vars => OtaInv'
    BY OtaStep
  <1>3. OtaInv => [RollBack => own_boots >= kMaxUnhealthy - 1]_ota_vars
    BY RollBackFair
  <1> QED BY <1>1, <1>2, <1>3, PTL DEF OtaSpec, FairChance

-----------------------------------------------------------------------------
(* Where the store of the confirmed image succeeds, an image that reached the  *)
(* broker since it was flashed is never given up.                            *)
LEMMA ProvenRestart ==
  ASSUME OtaInv, ProvenInv, Restarts PROVE ProvenInv'
  <1> USE DEF OtaInv
  <1>1. /\ Boot(boot_slot) /\ slot' = slot /\ conf_sha' = conf_sha /\ proven' = proven
        /\ boot_slot \in Slots /\ running \in Slots
    BY DEF Restarts, UnconfirmedDeadline, WarmRestart, PowerCut, UploadRestarts, OtaTypeOK
  <1>2. /\ boot_slot' = boot_slot /\ running_confirmed' = FALSE /\ confirmed_this_boot' = FALSE
        /\ running' = IF slot[boot_slot] # Torn THEN boot_slot ELSE Other(boot_slot)
    BY <1>1 DEF Boot
  <1>3. CASE running' = running
    BY <1>1, <1>2, <1>3, OtherSlot DEF ProvenInv
  <1>4. CASE running' # running
    <2>1. running' = boot_slot /\ Other(running') = running /\ boot_slot # running
      <3>1. CASE slot[boot_slot] # Torn
        BY <3>1, <1>1, <1>2, <1>4, OtherSlot
      <3>2. CASE slot[boot_slot] = Torn
        BY <3>2, <1>1, <1>2, <1>4, OtherSlot DEF BootInv
      <3> QED BY <3>1, <3>2
    <2> QED BY <2>1, <1>1, <1>2 DEF ProvenInv
  <1> QED BY <1>3, <1>4

LEMMA ProvenUpload ==
  ASSUME OtaInv, ProvenInv, Uploads PROVE ProvenInv'
  <1> USE DEF OtaInv
  <1> DEFINE tgt == Other(running)
  <1>1. tgt \in Slots /\ tgt # running /\ running \in Slots
    BY OtherSlot DEF OtaTypeOK
  <1>2. /\ running' = running /\ conf_sha' = conf_sha
        /\ running_confirmed' = running_confirmed /\ confirmed_this_boot' = confirmed_this_boot
    BY DEF Uploads, UploadRequest, UploadWrite, UploadEnd, Harmless, NoReboot, ram
  <1>3. \/ slot' = slot /\ boot_slot' = boot_slot /\ proven' = proven
        \/ /\ \E img \in Images \cup {Torn} : slot' = [slot EXCEPT ![tgt] = img]
           /\ boot_slot' \in {boot_slot, tgt} /\ proven' = proven \ {tgt}
    BY DEF Uploads, UploadRequest, UploadWrite, UploadEnd, Harmless, flash_target
  <1>4. slot'[running] = slot[running]
    BY <1>1, <1>3 DEF OtaTypeOK
  <1>5. CASE slot' = slot /\ boot_slot' = boot_slot /\ proven' = proven
    BY <1>2, <1>5 DEF ProvenInv
  <1>6. CASE boot_slot' \in {boot_slot, tgt} /\ proven' = proven \ {tgt}
    BY <1>1, <1>2, <1>4, <1>6, OtherSlot DEF ProvenInv
  <1> QED BY <1>3, <1>5, <1>6

LEMMA RollBackUnproven == ASSUME ProvenInv, RollBack PROVE running \notin proven
  BY DEF ProvenInv, RollBack, Judged, boot_health_should_rollback, Running

LEMMA ProvenStep ==
  ASSUME ~NvsMayFail, OtaInv, ProvenInv, [OtaNext]_ota_vars PROVE ProvenInv'
  <1>1. CASE RunOn
    BY <1>1 DEF RunOn, ProvenInv, Running
  <1>2. CASE RollBack
    <2>1. running \notin proven /\ proven' = proven /\ slot' = slot /\ conf_sha' = conf_sha
      BY <1>2, RollBackUnproven DEF RollBack
    <2>2. /\ running' = Other(running) /\ boot_slot' = Other(running) /\ Other(running') = running
          /\ running_confirmed' = FALSE /\ confirmed_this_boot' = FALSE
      BY <1>2, OtherSlot DEF RollBack, Boot, OtaInv, OtaTypeOK
    <2> QED BY <2>1, <2>2 DEF ProvenInv
  <1>3. CASE mark_healthy
    <2>1. conf_sha' = slot[running]
      BY <1>3 DEF mark_healthy, StoreSha, ProvenInv, Running
    <2>2. slot' = slot /\ running' = running /\ boot_slot' = boot_slot /\ proven' = proven \cup {running}
      BY <1>3 DEF mark_healthy
    <2> QED BY <2>1, <2>2 DEF ProvenInv
  <1>4. CASE Restarts
    BY <1>4, ProvenRestart
  <1>5. CASE Uploads
    BY <1>5, ProvenUpload
  <1>6. CASE UNCHANGED ota_vars
    BY <1>6 DEF ota_vars, ram, ProvenInv
  <1> QED BY <1>1, <1>2, <1>3, <1>4, <1>5, <1>6, NextIs

(* A rollback is earned: the image had its fair chance and never reached the   *)
(* broker, for every cap, whatever uploads, crashes and power cuts came before. *)
THEOREM RollBackIsEarned == ASSUME ~NvsMayFail PROVE OtaSpec => RollBackEarned
  <1>1. OtaInit => OtaInv /\ ProvenInv
    BY OtaInit_Inv
  <1>2. OtaInv /\ ProvenInv /\ [OtaNext]_ota_vars => (OtaInv /\ ProvenInv)'
    BY OtaStep, ProvenStep
  <1>3. OtaInv /\ ProvenInv => [RollBack => running \notin proven]_ota_vars
    BY RollBackUnproven
  <1>4. OtaSpec => [][RollBack => running \notin proven]_ota_vars
    BY <1>1, <1>2, <1>3, PTL DEF OtaSpec
  <1> QED BY <1>4, ChanceIsFair DEF RollBackEarned, ProvenStays


-----------------------------------------------------------------------------
(* Versions and releases.                                                   *)

Pack(v) == v.major * 1000000 + v.minor * 1000 + v.patch
TopCode == 2000999999

(* The packed code of a version, and what it says of the numbers in it.      *)
LEMMA CodeIs ==
  ASSUME NEW t \in Tag
  PROVE  /\ versionCode(t) \in Int /\ -1 <= versionCode(t) /\ versionCode(t) <= TopCode
         /\ versionCode(t) # Null =>
              /\ t # Unparsed /\ t \in Version
              /\ t.major \in Nat /\ t.minor \in Nat /\ t.patch \in Nat /\ t.minor <= 999 /\ t.patch <= 999
              /\ versionCode(t) = Pack(t)
<1>1. CASE t = Unparsed
  BY <1>1, SMT DEF versionCode, Null, TopCode
<1>2. CASE t # Unparsed
  <2>1. t \in Version /\ t.major \in Nat /\ t.minor \in Nat /\ t.patch \in Nat
    BY <1>2 DEF Tag, Version
  <2>2. CASE t.major > MAX_MAJOR \/ t.minor > MAX_MINOR \/ t.patch > MAX_PATCH
    <3>1. versionCode(t) = Null
      BY <2>2 DEF versionCode
    <3> QED
      BY <3>1, SMT DEF Null, TopCode
  <2>3. CASE t.major <= MAX_MAJOR /\ t.minor <= MAX_MINOR /\ t.patch <= MAX_PATCH
    <3>1. versionCode(t) = Pack(t)
      BY <1>2, <2>1, <2>3, SMT DEF versionCode, Pack, MAX_MAJOR, MAX_MINOR, MAX_PATCH
    <3>2. t.minor <= 999 /\ t.patch <= 999
      BY <2>1, <2>3 DEF MAX_MINOR, MAX_PATCH
    <3>3. Pack(t) \in Int /\ 0 <= Pack(t) /\ Pack(t) <= TopCode
      BY <2>1, <2>3, SMT DEF Pack, TopCode, MAX_MAJOR, MAX_MINOR, MAX_PATCH
    <3>4. -1 <= Pack(t)
      BY <3>3
    <3> QED
      BY <1>2, <2>1, <3>1, <3>2, <3>3, <3>4
  <2> QED
    BY <2>1, <2>2, <2>3, SMT DEF MAX_MAJOR, MAX_MINOR, MAX_PATCH
<1> QED
  BY <1>1, <1>2

(* The codes order the versions that have one as their numbers do.           *)
LEMMA CodeOrders ==
  ASSUME NEW a \in Tag, NEW b \in Tag, versionCode(a) # Null, versionCode(b) # Null
  PROVE  versionCode(a) > versionCode(b) <=> Above(a, b)
<1>1. /\ a.major \in Nat /\ a.minor \in Nat /\ a.patch \in Nat /\ a.minor <= 999 /\ a.patch <= 999
      /\ versionCode(a) = Pack(a)
  BY CodeIs
<1>2. /\ b.major \in Nat /\ b.minor \in Nat /\ b.patch \in Nat /\ b.minor <= 999 /\ b.patch <= 999
      /\ versionCode(b) = Pack(b)
  BY CodeIs
<1>3. Pack(a) > Pack(b) <=> Above(a, b)
  BY <1>1, <1>2, SMT DEF Above, Pack
<1> QED
  BY <1>1, <1>2, <1>3

LEMMA ReleaseIs ==
  ASSUME NEW releases \in Seq(Release), NEW i \in DOMAIN releases
  PROVE  releases[i] \in Release /\ releases[i].tag \in Tag /\ i \in Nat
<1>1. releases[i] \in Release /\ i \in Nat
  OBVIOUS
<1> QED
  BY <1>1 DEF Release

LEMMA Least ==
  ASSUME NEW S \in SUBSET Nat, S # {}
  PROVE  \E n \in S : \A m \in S : n <= m
<1>1. PICK n \in S : \A m \in S : ~ (<<m, n>> \in OpToRel(<, Nat))
  BY NatLessThanWellFounded, WFMin
<1>2. \A m \in S : m \in Nat /\ n \in Nat /\ ~(m < n)
  BY <1>1 DEF OpToRel
<1> QED
  BY <1>2

(* Of some releases there is a first one with the highest code.              *)
LEMMA LatestIs ==
  ASSUME NEW releases \in Seq(Release), NEW usable \in SUBSET DOMAIN releases, usable # {}
  PROVE  \E i \in usable :
           /\ latest_of(releases, usable) = releases[i]
           /\ \A j \in usable : versionCode(releases[j].tag) <= versionCode(releases[i].tag)
<1> DEFINE code(i)  == versionCode(releases[i].tag)
           below(i) == TopCode - code(i)
           B == {below(i) : i \in usable}
           best(i)  == \A j \in usable : code(j) < code(i) \/ (code(j) = code(i) /\ i <= j)
<1>1. \A i \in usable : releases[i] \in Release /\ releases[i].tag \in Tag /\ i \in Nat
  BY ReleaseIs
<1>2. \A i \in usable : code(i) \in Int /\ below(i) \in Nat
  BY <1>1, CodeIs, SMT DEF TopCode
<1>3. PICK n \in B : \A m \in B : n <= m
  <2>1. B \subseteq Nat /\ B # {}
    BY <1>2
  <2> HIDE DEF B
  <2> QED
    BY <2>1, Least
<1> DEFINE F == {i \in usable : below(i) = n}
<1>4. PICK i \in F : \A j \in F : i <= j
  <2>1. F \subseteq Nat /\ F # {}
    BY <1>1, <1>3
  <2> HIDE DEF F
  <2> QED
    BY <2>1, Least
<1>5. best(i)
  <2>1. i \in usable /\ below(i) = n
    BY <1>4
  <2>2. ASSUME NEW j \in usable PROVE code(j) < code(i) \/ (code(j) = code(i) /\ i <= j)
    <3>1. below(j) \in B /\ n <= below(j)
      BY <1>3
    <3>2. code(j) \in Int /\ code(i) \in Int /\ code(j) <= code(i)
      <4>1. code(j) \in Int /\ code(i) \in Int /\ TopCode - code(i) <= TopCode - code(j) /\ TopCode \in Int
        BY <1>2, <2>1, <3>1, SMT DEF TopCode
      <4> HIDE DEF code
      <4> QED
        BY <4>1
    <3>3. code(j) = code(i) => j \in F
      BY <2>1
    <3> QED
      BY <1>4, <3>2, <3>3
  <2> QED
    BY <2>2
<1> DEFINE k == CHOOSE k \in usable : best(k)
<1>6. k \in usable /\ best(k)
  BY <1>4, <1>5
<1>7. latest_of(releases, usable) = releases[k]
  BY DEF latest_of
<1>8. \A j \in usable : code(j) <= code(k)
  <2>1. ASSUME NEW j \in usable PROVE code(j) <= code(k)
    <3>1. code(j) < code(k) \/ code(j) = code(k)
      BY <1>6
    <3>2. code(j) \in Int /\ code(k) \in Int
      BY <1>2, <1>6
    <3> HIDE DEF code
    <3> QED
      BY <3>1, <3>2
  <2> QED
    BY <2>1
<1> QED
  BY <1>6, <1>7, <1>8

(* What a check of the releases says; what it offers is a published stable    *)
(* release with an image, the highest of those that parse, and above what runs. *)
LEMMA EvaluateIs ==
  ASSUME NEW current \in Version, NEW releases \in Seq(Release)
  PROVE  LET s      == evaluate(current, releases)
             stable == {r \in ToSet(releases) : r.stable /\ versionCode(r.tag) # Null}
         IN  /\ s \in Status
             /\ s.kind = "available" =>
                  /\ s.latest \in Version /\ Above(s.latest, current)
                  /\ \E r \in stable : r.tag = s.latest /\ "ota" \in ToSet(r.assets)
                  /\ \A r \in stable : ~Above(r.tag, s.latest)
<1> DEFINE s      == evaluate(current, releases)
           stable == {r \in ToSet(releases) : r.stable /\ versionCode(r.tag) # Null}
           usable == {i \in DOMAIN releases : releases[i].stable}
           latest == latest_of(releases, usable)
<1>1. CASE usable = {}
  BY <1>1 DEF evaluate, Status, Tag
<1>2. CASE usable # {}
  <2>1. PICK i \in usable :
          /\ latest = releases[i]
          /\ \A j \in usable : versionCode(releases[j].tag) <= versionCode(releases[i].tag)
    BY <1>2, LatestIs
  <2>2. latest \in Release /\ latest.tag \in Tag /\ latest.stable /\ latest \in ToSet(releases)
    BY <2>1, ReleaseIs DEF ToSet
  <2> DEFINE verdict == isUpgrade(current, latest.tag)
  <2>3. s = [kind   |-> CASE verdict = "unknown" -> "unknown"
                         [] verdict = "newer" /\ pickFirmwareAsset(latest.assets) -> "available"
                         [] verdict = "newer" /\ ~pickFirmwareAsset(latest.assets) -> "no-binary"
                         [] verdict = "older"   -> "ahead"
                         [] verdict = "current" -> "up-to-date",
             latest |-> latest.tag]
    BY <1>2 DEF evaluate
  <2>4. verdict \in {"unknown", "newer", "current", "older"}
    <3>1. versionCode(current) \in Int /\ versionCode(latest.tag) \in Int
      BY <2>2, CodeIs DEF Tag
    <3> QED
      BY <3>1 DEF isUpgrade, compare
  <2> HIDE DEF latest, verdict
  <2>5. s \in Status
    BY <2>2, <2>3, <2>4 DEF Status
  <2>6. ASSUME s.kind = "available"
        PROVE  /\ s.latest \in Version /\ Above(s.latest, current)
               /\ \E r \in stable : r.tag = s.latest /\ "ota" \in ToSet(r.assets)
               /\ \A r \in stable : ~Above(r.tag, s.latest)
    <3>1. s.latest = latest.tag /\ verdict = "newer" /\ pickFirmwareAsset(latest.assets)
      BY <2>3, <2>4, <2>6
    <3>2. /\ versionCode(current) # Null /\ versionCode(latest.tag) # Null
          /\ versionCode(latest.tag) > versionCode(current)
      <4>1. compare(versionCode(current), versionCode(latest.tag)) = "newer"
        BY <3>1 DEF verdict, isUpgrade
      <4>2. versionCode(current) \in Int /\ versionCode(latest.tag) \in Int
        BY <2>2, CodeIs DEF Tag
      <4> QED
        BY <4>1, <4>2 DEF compare
    <3>3. s.latest \in Version /\ Above(s.latest, current)
      BY <2>2, <3>1, <3>2, CodeIs, CodeOrders DEF Tag
    <3>4. latest \in stable /\ "ota" \in ToSet(latest.assets)
      BY <2>2, <3>1, <3>2 DEF pickFirmwareAsset, ToSet
    <3>5. ASSUME NEW r \in stable PROVE ~Above(r.tag, s.latest)
      <4>1. PICK j \in DOMAIN releases : r = releases[j]
        BY DEF ToSet
      <4>2. r \in Release /\ r.tag \in Tag /\ j \in usable
        BY <4>1, ReleaseIs
      <4>3. versionCode(r.tag) <= versionCode(latest.tag)
        BY <2>1, <4>1, <4>2
      <4>4. versionCode(r.tag) \in Int /\ versionCode(latest.tag) \in Int
        BY <2>2, <4>2, CodeIs
      <4> QED
        BY <2>2, <3>1, <3>2, <4>2, <4>3, <4>4, CodeOrders
    <3> QED
      BY <3>1, <3>3, <3>4, <3>5
  <2> QED
    BY <2>5, <2>6
<1> QED
  BY <1>1, <1>2

-----------------------------------------------------------------------------
(* The page and the install.                                                *)

PageTypes ==
  /\ feed \in Feeds
  /\ seen \in [fw : Version, boots : Nat] \cup {None}
  /\ info \in {"out", "retry", "known"}
  /\ update \in Status \cup {None} /\ row \in Status \cup {None, Checking}
  /\ checks \subseteq Version
  /\ screen \in {"console", "settings"} /\ installBox \in Version \cup {None}
  /\ booting \in BOOLEAN /\ late \in BOOLEAN

(* What is offered carries a version that parses; a row that offers has its   *)
(* button; a row is painted from a state.                                    *)
Offered ==
  /\ Available(update) => update.latest \in Version
  /\ Available(row) => row.latest \in Version /\ installBox # None
  /\ row # None => seen # None

PageInv == PageTypes /\ Offered /\ UpdateJudged

Board == [runs : Image, boots : Nat, conf : Image \cup {None}, spare : Image,
          staged : Image \cup {None}]
Job   == [pc : {"idle", "image", "verify", "send", "watch"}, release : Version \cup {None},
          image : Image \cup {None}, boots : Nat, ours : BOOLEAN, tried : BOOLEAN]
Hand  == {h \in [pc : {"idle", "verify", "send"}, file : Image \cup {None}] :
            h.pc # "idle" => h.file # None}
Said  == {"working", "unconfirmed", "confirmed", "rolled back", "no verdict"}

Counts   == feeds \in Nat /\ picked \in Nat /\ faults \in Nat
JobTypes == Counts /\ board \in Board /\ job \in Job /\ said \in Said /\ manual \in Hand

(* An install under way has its release, a state to read the boot count from   *)
(* and, once downloaded, an image of that release; what it sends is genuine;   *)
(* and it knows nothing of the board's boots before the upload.              *)
UnderWay ==
  /\ job.pc # "idle" => job.release # None /\ seen # None /\ said \in {"working", "unconfirmed"}
  /\ job.pc \in {"verify", "send", "watch"} => job.image \in Image /\ job.image.fw = job.release
  /\ job.pc = "send" => job.image.genuine
  /\ job.pc \notin {"idle", "watch"} => ~job.ours /\ ~job.tried

(* A slot that is the install's own holds its image until the next boot tries  *)
(* it.                                                                       *)
Waiting ==
  job.pc = "watch" /\ job.ours =>
    IF board.boots = job.boots THEN board.staged = job.image
    ELSE job.boots < board.boots /\ board.staged = None /\ job.tried

(* A confirmed release has nothing staged beside it, so no boot replaces it.  *)
Kept ==
  said = "confirmed" /\ job.ours =>
    /\ job.pc = "idle" /\ board.staged = None
    /\ board.runs.fw = job.release /\ Confirmed(board)

(* What the board holds, and what is about to be sent to it by hand.          *)
Vouched ==
  /\ VerifiedOrWarned
  /\ manual.pc = "send" => manual.file.genuine \/ manual.file \in warned

JobInv == JobTypes /\ UnderWay /\ Waiting /\ Kept /\ RolledBackHonest /\ Vouched

InstallInv == PageInv /\ JobInv

-----------------------------------------------------------------------------
LEMMA InstallInit_Inv == InstallInit => InstallInv
<1> SUFFICES ASSUME InstallInit PROVE InstallInv
  OBVIOUS
<1>1. None \notin Version
  BY InstallAssumption DEF Tag
<1>2. PageTypes
  <2>1. feed \in Feeds
    BY InstallAssumption DEF InstallInit
  <2> QED
    BY <2>1, Zenon DEF InstallInit, PageTypes
<1>3. PageInv
  BY <1>2 DEF InstallInit, PageInv, Offered, UpdateJudged, Available
<1>4. JobTypes
  BY InstallAssumption DEF InstallInit, JobTypes, Counts, Board, Job, Said, Hand, Idle, Rest
<1>5. JobInv
  BY <1>4 DEF InstallInit, JobInv, UnderWay, Waiting, Kept, RolledBackHonest, Vouched,
              VerifiedOrWarned, Idle, Rest
<1> QED
  BY <1>3, <1>5 DEF InstallInv

(* Painting the drawer keeps row and button what they are of each other.      *)
LEMMA Painted ==
  ASSUME PageTypes, Offered, NEW editing \in BOOLEAN, paintSettings(editing),
         update' \in Status \cup {None}, Available(update') => update'.latest \in Version,
         seen # None => seen' # None
  PROVE  /\ row' \in Status \cup {None, Checking} /\ installBox' \in Version \cup {None}
         /\ Available(row') => row'.latest \in Version /\ installBox' # None
         /\ row' # None => seen' # None
<1>1. None \notin Version
  BY InstallAssumption DEF Tag
<1>2. CASE screen' = "settings" /\ seen' # None /\ ~editing
  <2>1. /\ row' = IF update' = None THEN Checking ELSE update'
        /\ installBox' = IF installBox = None /\ Available(update') THEN update'.latest
                                                                    ELSE installBox
    BY <1>2 DEF paintSettings
  <2> QED
    BY <1>1, <1>2, <2>1 DEF PageTypes, Checking, Available
<1>3. CASE ~(screen' = "settings" /\ seen' # None /\ ~editing)
  <2>1. row' = row /\ installBox' = installBox
    BY <1>3 DEF paintSettings
  <2> QED
    BY <2>1 DEF PageTypes, Offered, Available
<1> QED
  BY <1>2, <1>3

(* A check started is one of the version seen.                              *)
LEMMA CheckStarts ==
  ASSUME PageTypes, NEW force \in BOOLEAN, runUpdateCheck(force)
  PROVE  checks' \subseteq Version /\ checks \subseteq checks'
BY DEF PageTypes, runUpdateCheck

(* A judgement leaves no page with facts and state without verdict or check.  *)
LEMMA Judged_ ==
  ASSUME PageTypes, Judge, update' = update
  PROVE  /\ checks' \subseteq Version
         /\ info' = "known" /\ seen # None /\ update' = None => checks' # {}
<1>1. checks' \subseteq Version
  BY CheckStarts DEF Judge
<1>2. info' = "known" /\ seen # None /\ update = None => checks' = checks \cup {seen.fw}
  BY DEF Judge, runUpdateCheck
<1> QED
  BY <1>1, <1>2

-----------------------------------------------------------------------------
(* What the steps of the page leave alone, and what the others do.           *)
LEMMA PageLeaves == Page => UNCHANGED <<board_vars, job_vars, hand_vars, feeds, feed>>
BY DEF Page, Hear, DeviceAnswered, DeviceFailed, RetryDevice, BootEnds, Recheck, CheckDone, setScreen

LEMMA OthersLeave == World \/ OneClick \/ ByHand => UNCHANGED <<page_vars, row_vars>>
BY DEF World, OneClick, GoesOn, ByHand, Publish, BoardReboots, BoardConfirms, BoardRollsBack, Click,
       Download, Verify, Upload, Watch, Deadline, Pick, verifyImage, uploadFirmware, Undisturbed

Counted ==
  /\ feeds' \in {feeds, feeds + 1} /\ picked' \in {picked, picked + 1}
  /\ faults' \in {faults, faults + 1}

LEMMA BoundsCount == ASSUME InstallNext PROVE Counted
<1> USE DEF Counted
<1>1. Publish => Counted
  BY DEF Publish, board_vars
<1>2. BoardReboots => Counted
  BY DEF BoardReboots, board_vars
<1>3. BoardConfirms => Counted
  BY DEF BoardConfirms, board_vars
<1>4. BoardRollsBack => Counted
  BY DEF BoardRollsBack, board_vars
<1>5. Hear => Counted
  BY DEF Hear, board_vars
<1>6. DeviceAnswered => Counted
  BY DEF DeviceAnswered, board_vars
<1>7. DeviceFailed => Counted
  BY DEF DeviceFailed, board_vars
<1>8. RetryDevice => Counted
  BY DEF RetryDevice, board_vars
<1>9. BootEnds => Counted
  BY DEF BootEnds, board_vars
<1>10. Recheck => Counted
  BY DEF Recheck, board_vars
<1>11. (\E v \in checks : CheckDone(v)) => Counted
  BY DEF CheckDone, board_vars
<1>12. setScreen => Counted
  BY DEF setScreen, board_vars
<1>13. Click => Counted
  BY DEF Click, Undisturbed
<1>14. Download => Counted
  BY DEF Download, Undisturbed
<1>15. Verify => Counted
  BY DEF Verify, Undisturbed
<1>16. Upload => Counted
  BY DEF Upload, Undisturbed
<1>17. Watch => Counted
  BY DEF Watch, Undisturbed
<1>18. Deadline => Counted
  BY DEF Deadline, Undisturbed
<1>19. Pick => Counted
  BY DEF Pick
<1>20. verifyImage => Counted
  BY DEF verifyImage, board_vars
<1>21. uploadFirmware => Counted
  BY DEF uploadFirmware
<1> QED
  BY <1>1, <1>2, <1>3, <1>4, <1>5, <1>6, <1>7, <1>8, <1>9, <1>10, <1>11, <1>12, <1>13, <1>14, <1>15, <1>16, <1>17, <1>18, <1>19, <1>20, <1>21
     DEF InstallNext, World, Page, OneClick, GoesOn, ByHand

LEMMA CountsStay == ASSUME Counts, Counted PROVE Counts'
<1>1. feeds' \in Nat /\ picked' \in Nat /\ faults' \in Nat
  BY DEF Counts, Counted
<1> QED
  BY <1>1 DEF Counts

LEMMA TypesStay ==
  ASSUME JobTypes, Counted, board' \in Board, job' \in Job, said' \in Said, manual' \in Hand
  PROVE  JobTypes'
BY CountsStay DEF JobTypes

(* Their fields.                                                            *)
LEMMA Fields ==
  ASSUME JobTypes
  PROVE  /\ board.runs \in Image /\ board.runs.fw \in Version /\ board.boots \in Nat
         /\ board.conf \in Image \cup {None} /\ board.spare \in Image
         /\ board.staged \in Image \cup {None} /\ None \notin Image
         /\ job.release \in Version \cup {None} /\ job.image \in Image \cup {None}
         /\ job.boots \in Nat /\ job.ours \in BOOLEAN /\ job.tried \in BOOLEAN
         /\ job.pc \in {"idle", "image", "verify", "send", "watch"}
BY InstallAssumption DEF JobTypes, Board, Job, Image

(* The page's own steps.                                                    *)
LEMMA PageStep == ASSUME PageInv, JobTypes, Page PROVE PageInv'
<1> USE DEF PageInv
<1>t. PageTypes /\ Offered /\ feed' = feed
  BY PageLeaves
<1>1. ASSUME Hear PROVE PageInv'
  <2>1. /\ seen' \in [fw : Version, boots : Nat] /\ seen' # None
        /\ UNCHANGED <<info, update, checks, booting, screen>>
        /\ late' = (late \/ (seen = None /\ info = "known" /\ ~booting))
    <3>1. seen' = [fw |-> board.runs.fw, boots |-> board.boots] /\ board.runs.fw \in Version /\ board.boots \in Nat
      BY <1>1, Fields DEF Hear
    <3>2. seen' \in [fw : Version, boots : Nat]
      BY <3>1
    <3> QED
      BY <1>1, <3>2, InstallAssumption DEF Hear
  <2>2. PICK editing \in BOOLEAN : paintSettings(editing)
    BY <1>1 DEF Hear
  <2>3. Available(update') => update'.latest \in Version
    BY <1>t, <2>1 DEF Offered
  <2>4. update' \in Status \cup {None}
    BY <1>t, <2>1 DEF PageTypes
  <2>5. /\ row' \in Status \cup {None, Checking} /\ installBox' \in Version \cup {None}
        /\ Available(row') => row'.latest \in Version /\ installBox' # None
    BY <1>t, <2>1, <2>2, <2>3, <2>4, Painted
  <2> QED
    BY <1>t, <2>1, <2>3, <2>4, <2>5 DEF PageTypes, Offered, UpdateJudged
<1>2. ASSUME DeviceAnswered PROVE PageInv'
  <2>1. Judge /\ info' = "known" /\ UNCHANGED <<seen, update, booting, late, screen>>
    BY <1>2 DEF DeviceAnswered
  <2>2. PICK editing \in BOOLEAN : paintSettings(editing)
    BY <1>2 DEF DeviceAnswered
  <2>3. update' \in Status \cup {None} /\ (Available(update') => update'.latest \in Version)
    BY <1>t, <2>1 DEF PageTypes, Offered
  <2>4. /\ row' \in Status \cup {None, Checking} /\ installBox' \in Version \cup {None}
        /\ Available(row') => row'.latest \in Version /\ installBox' # None
        /\ row' # None => seen' # None
    BY <1>t, <2>1, <2>2, <2>3, Painted
  <2>5. /\ checks' \subseteq Version
        /\ info' = "known" /\ seen # None /\ update' = None => checks' # {}
    BY <1>t, <2>1, Judged_
  <2> QED
    BY <1>t, <2>1, <2>3, <2>4, <2>5 DEF PageTypes, Offered, UpdateJudged
<1>3. ASSUME DeviceFailed \/ RetryDevice PROVE PageInv'
  <2>1. info' \in {"out", "retry"} /\ UNCHANGED <<seen, update, checks, booting, late, row_vars>>
    BY <1>3 DEF DeviceFailed, RetryDevice
  <2> QED
    BY <1>t, <2>1 DEF PageTypes, Offered, UpdateJudged, row_vars, Available
<1>4. ASSUME BootEnds PROVE PageInv'
  <2>1. Judge /\ booting' = FALSE /\ info' = info /\ UNCHANGED <<seen, update, late, row_vars>>
    BY <1>4 DEF BootEnds
  <2>2. /\ checks' \subseteq Version
        /\ info' = "known" /\ seen # None /\ update' = None => checks' # {}
    BY <1>t, <2>1, Judged_
  <2> QED
    BY <1>t, <2>1, <2>2 DEF PageTypes, Offered, UpdateJudged, row_vars, Available
<1>5. ASSUME Recheck PROVE PageInv'
  <2>1. runUpdateCheck(TRUE) /\ info' = info /\ UNCHANGED <<seen, update, booting, late, row_vars>>
    BY <1>5 DEF Recheck
  <2>2. checks' \subseteq Version /\ checks \subseteq checks' /\ checks' # {}
    BY <1>t, <1>5, <2>1, CheckStarts DEF Recheck
  <2> QED
    BY <1>t, <2>1, <2>2 DEF PageTypes, Offered, UpdateJudged, row_vars, Available
<1>6. ASSUME NEW v \in checks, CheckDone(v) PROVE PageInv'
  <2>1. checks' = checks \ {v} /\ UNCHANGED <<seen, info, booting, late, screen>>
    BY <1>6 DEF CheckDone
  <2>2. /\ v \in Version /\ feed \in Seq(Release)
    BY <1>t, <1>6, InstallAssumption DEF PageTypes
  <2>3. \/ update' = evaluate(v, feed)
        \/ update' = [kind |-> "unknown", latest |-> Unparsed]
    BY <1>6 DEF CheckDone
  <2>4. update' \in Status /\ (Available(update') => update'.latest \in Version)
    BY <2>2, <2>3, EvaluateIs DEF Status, Tag, Available
  <2>5. update' # None
    BY <2>4, InstallAssumption
  <2>6. PICK editing \in BOOLEAN : paintSettings(editing)
    BY <1>6 DEF CheckDone
  <2>7. /\ row' \in Status \cup {None, Checking} /\ installBox' \in Version \cup {None}
        /\ Available(row') => row'.latest \in Version /\ installBox' # None
        /\ row' # None => seen' # None
    BY <1>t, <2>1, <2>4, <2>6, Painted
  <2> QED
    BY <1>t, <2>1, <2>4, <2>5, <2>7 DEF PageTypes, Offered, UpdateJudged
<1>7. ASSUME setScreen PROVE PageInv'
  <2>1. /\ screen' \in {"console", "settings"} /\ UNCHANGED page_vars /\ paintSettings(FALSE)
    BY <1>7 DEF setScreen
  <2>2. UNCHANGED <<seen, info, update, checks, booting, late>>
    BY <2>1 DEF page_vars
  <2>3. update' \in Status \cup {None} /\ (Available(update') => update'.latest \in Version)
    BY <1>t, <2>2 DEF PageTypes, Offered
  <2>4. /\ row' \in Status \cup {None, Checking} /\ installBox' \in Version \cup {None}
        /\ Available(row') => row'.latest \in Version /\ installBox' # None
        /\ row' # None => seen' # None
    BY <1>t, <2>1, <2>2, <2>3, Painted
  <2> QED
    BY <1>t, <2>1, <2>2, <2>3, <2>4 DEF PageTypes, Offered, UpdateJudged
<1> QED
  BY <1>1, <1>2, <1>3, <1>4, <1>5, <1>6, <1>7 DEF Page

-----------------------------------------------------------------------------
(* The install, the board and the upload by hand.                           *)

LEMMA SeenStays == ASSUME JobTypes, [InstallNext]_install_vars, seen # None PROVE seen' # None
<1>1. CASE Hear
  <2>1. seen' = [fw |-> board.runs.fw, boots |-> board.boots] /\ board.runs.fw \in Version /\ board.boots \in Nat
    BY <1>1, Fields DEF Hear
  <2>2. seen' \in [fw : Version, boots : Nat]
    BY <2>1
  <2> QED
    BY <2>2, InstallAssumption
<1>2. CASE Page /\ ~Hear
  BY <1>2 DEF Page, DeviceAnswered, DeviceFailed, RetryDevice, BootEnds, Recheck, CheckDone,
              setScreen, page_vars
<1>3. CASE World \/ OneClick \/ ByHand
  BY <1>3, OthersLeave DEF page_vars
<1>4. CASE UNCHANGED install_vars
  BY <1>4 DEF install_vars, page_vars
<1> QED
  BY <1>1, <1>2, <1>3, <1>4 DEF InstallNext

(* Nothing that happens elsewhere disturbs it.                              *)
LEMMA Elsewhere ==
  ASSUME JobInv, Counted, seen # None => seen' # None,
         UNCHANGED <<board_vars, job_vars, hand_vars>>
  PROVE  JobInv'
<1>1. UNCHANGED <<board, picked, job, said, manual, warned>>
  BY DEF board_vars, job_vars, hand_vars
<1>2. JobTypes'
  BY <1>1, CountsStay DEF JobInv, JobTypes
<1> QED
  BY <1>1, <1>2
     DEF JobInv, UnderWay, Waiting, Kept, RolledBackHonest, Vouched, VerifiedOrWarned, Confirmed

(* A board that keeps its images, or stages one that is vouched for.         *)
LEMMA StillVouched ==
  ASSUME Vouched, UNCHANGED hand_vars,
         \A img \in {board'.runs, board'.spare, board'.staged} :
           img \in {board.runs, board.spare, board.staged, None} \/ img.genuine
  PROVE  Vouched'
<1>1. manual' = manual /\ warned' = warned
  BY DEF hand_vars
<1>2. VerifiedOrWarned'
  BY <1>1 DEF Vouched, VerifiedOrWarned
<1> QED
  BY <1>1, <1>2 DEF Vouched

(* An install that ends without a verdict knows nothing of the board.        *)
LEMMA GivenUp ==
  ASSUME JobInv, Counted, NEW words \in {"working", "unconfirmed", "no verdict"},
         Ends(words), UNCHANGED hand_vars, board' \in Board, Vouched'
  PROVE  JobInv'
<1>1. job' = Idle /\ said' = words
  BY DEF Ends
<1>2. JobTypes'
  <2>1. job' \in Job /\ said' \in Said /\ manual' \in Hand
    BY <1>1 DEF Idle, Job, Said, hand_vars, JobInv, JobTypes
  <2> QED
    BY <2>1, TypesStay DEF JobInv, JobTypes
<1> QED
  BY <1>1, <1>2 DEF JobInv, UnderWay, Waiting, Kept, RolledBackHonest, Idle

LEMMA WorldStep ==
  ASSUME JobInv, Counted, World, seen # None => seen' # None PROVE JobInv'
<1> USE DEF JobInv
<1>1. CASE Publish
  BY <1>1, Elsewhere DEF Publish
<1>2. CASE BoardReboots
  <2>1. /\ UNCHANGED <<said, manual, hand_vars>>
        /\ job' = [job EXCEPT !.tried = @ \/ (job.pc = "watch" /\ board.staged = job.image)]
    BY <1>2 DEF BoardReboots, hand_vars
  <2>2. /\ job'.pc = job.pc /\ job'.release = job.release /\ job'.boots = job.boots
        /\ job'.image = job.image /\ job'.ours = job.ours
        /\ job'.tried = (job.tried \/ (job.pc = "watch" /\ board.staged = job.image))
    BY <2>1 DEF JobTypes, Job
  <2>3. /\ board'.boots = board.boots + 1 /\ board'.staged = None /\ board'.conf = board.conf
        /\ board.staged = None => board'.runs = board.runs /\ board'.spare = board.spare
        /\ board.staged # None => board'.runs = board.staged /\ board'.spare = board.runs
    BY <1>2 DEF BoardReboots, JobTypes, Board
  <2>4. JobTypes'
    <3>1. board' \in Board
      <4>1. CASE board.staged = None
        BY <1>2, <4>1 DEF BoardReboots, JobTypes, Board
      <4>2. CASE board.staged # None
        <5>1. board' = [runs |-> board.staged, boots |-> board.boots + 1, conf |-> board.conf,
                        spare |-> board.runs, staged |-> None]
          BY <1>2, <4>2 DEF BoardReboots
        <5>2. /\ board.staged \in Image /\ board.boots + 1 \in Nat /\ board.runs \in Image
              /\ board.conf \in Image \cup {None}
          BY <4>2, Fields
        <5> QED
          BY <5>1, <5>2 DEF Board
      <4> QED
        BY <4>1, <4>2
    <3>2. job' \in Job
      BY <2>1 DEF JobTypes, Job
    <3> QED
      BY <2>1, <3>1, <3>2, TypesStay DEF JobTypes
  <2>5. UnderWay'
    BY <2>1, <2>2 DEF UnderWay
  <2>6. Waiting'
    <3>1. CASE job.pc = "watch" /\ job.ours
      <4>1. board.boots \in Nat /\ job.boots \in Nat
        BY Fields
      <4>2. job'.tried /\ job.boots < board.boots + 1
        <5>1. CASE board.boots = job.boots
          <6>1. board.staged = job.image
            BY <3>1, <5>1 DEF Waiting
          <6>2. job'.tried
            BY <2>2, <3>1, <6>1
          <6> QED
            BY <4>1, <5>1, <6>2
        <5>2. CASE board.boots # job.boots
          <6>1. job.tried /\ job.boots < board.boots
            BY <3>1, <5>2 DEF Waiting
          <6>2. job'.tried
            BY <2>2, <6>1
          <6> QED
            BY <4>1, <6>1, <6>2
        <5> QED
          BY <5>1, <5>2
      <4> QED
        BY <2>1, <2>2, <2>3, <3>1, <4>1, <4>2 DEF Waiting
    <3> QED
      BY <2>2, <3>1 DEF Waiting
  <2>7. Vouched'
    BY <2>1, <2>3, StillVouched
  <2>8. Kept'
    BY <2>1, <2>2, <2>3 DEF Kept, Confirmed
  <2> QED
    BY <2>1, <2>2, <2>4, <2>5, <2>6, <2>7, <2>8 DEF RolledBackHonest
<1>3. CASE BoardConfirms
  <2>1. /\ board' = [board EXCEPT !.conf = board.runs] /\ ~Confirmed(board)
        /\ UNCHANGED <<picked, job, said, hand_vars>>
    BY <1>3 DEF BoardConfirms, job_vars
  <2>2. /\ board'.runs = board.runs /\ board'.spare = board.spare /\ board'.boots = board.boots
        /\ board'.staged = board.staged
    BY <2>1 DEF JobTypes, Board
  <2>3. JobTypes'
    <3>1. board' \in Board
      BY <2>1 DEF JobTypes, Board
    <3> QED
      BY <2>1, <3>1, TypesStay DEF JobTypes, hand_vars
  <2>4. Vouched'
    BY <2>1, <2>2, StillVouched
  <2> QED
    BY <2>1, <2>2, <2>3, <2>4 DEF UnderWay, Waiting, Kept, RolledBackHonest
<1>4. CASE BoardRollsBack
  <2>1. /\ board.staged = None /\ ~Confirmed(board) /\ UNCHANGED <<picked, job, said, hand_vars>>
        /\ board' = [board EXCEPT !.runs = board.spare, !.spare = board.runs, !.boots = @ + 1]
    BY <1>4 DEF BoardRollsBack, job_vars
  <2>2. /\ board'.staged = None /\ board'.boots = board.boots + 1
        /\ board'.runs = board.spare /\ board'.spare = board.runs
    BY <2>1 DEF JobTypes, Board
  <2>3. JobTypes'
    <3>1. board' \in Board
      <4>1. /\ board.spare \in Image /\ board.runs \in Image /\ board.boots + 1 \in Nat
            /\ board \in Board
        BY Fields DEF JobTypes
      <4> QED
        BY <2>1, <4>1 DEF Board
    <3> QED
      BY <2>1, <3>1, TypesStay DEF JobTypes, hand_vars
  <2>4. Waiting'
    <3>1. CASE job.pc = "watch" /\ job.ours
      <4>1. board.boots # job.boots
        BY <2>1, <3>1, Fields DEF Waiting, UnderWay
      <4>2. job.boots < board.boots + 1 /\ job.boots # board.boots + 1 /\ job.tried
        BY <3>1, <4>1, Fields DEF Waiting
      <4> QED
        BY <2>1, <2>2, <3>1, <4>2 DEF Waiting
    <3> QED
      BY <2>1, <3>1 DEF Waiting
  <2>5. Vouched'
    BY <2>1, <2>2, StillVouched
  <2> QED
    BY <2>1, <2>3, <2>4, <2>5 DEF UnderWay, Kept, RolledBackHonest
<1> QED
  BY <1>1, <1>2, <1>3, <1>4 DEF World

(* The install goes on, the board as it was: to a step before the upload.    *)
LEMMA StepsOn ==
  ASSUME PageInv, JobInv, Counted, UNCHANGED <<board, said, seen, hand_vars>>,
         job' \in Job, job.pc # "idle", ~job.ours, ~job.tried,
         job'.pc \in {"verify", "send"}, job'.release = job.release,
         job'.ours = job.ours, job'.tried = job.tried,
         job'.image \in Image, job'.image.fw = job.release,
         job'.pc = "send" => job'.image.genuine
  PROVE  JobInv'
<1> USE DEF JobInv
<1>1. JobTypes'
  BY TypesStay DEF JobTypes, hand_vars
<1>2. Vouched'
  BY StillVouched
<1> QED
  BY <1>1, <1>2 DEF UnderWay, Waiting, Kept, RolledBackHonest

LEMMA OneClickStep ==
  ASSUME PageInv, JobInv, Counted, OneClick PROVE JobInv'
<1> USE DEF JobInv
<1>t. JobTypes
  OBVIOUS
<1>u. UNCHANGED <<picked, seen, hand_vars>>
  BY DEF OneClick, GoesOn, Click, Download, Verify, Upload, Watch, Deadline, Undisturbed, page_vars
<1>v. board' = board => Vouched'
  BY <1>u, StillVouched
<1>1. CASE Click
  <2>1. said' = "working" /\ board' = board /\ Available(row)
    BY <1>1 DEF Click
  <2>2. installBox \in Version /\ installBox # None /\ seen # None
    BY <2>1, InstallAssumption DEF PageInv, PageTypes, Offered, Available
  <2>3. job' = [pc |-> "image", release |-> installBox, image |-> None, boots |-> 0,
                ours |-> FALSE, tried |-> FALSE]
    BY <1>1 DEF Click, Idle
  <2>4. JobTypes'
    <3>1. job' \in Job /\ said' \in Said
      BY <2>1, <2>2, <2>3 DEF Job, Said
    <3> QED
      BY <1>u, <2>1, <3>1, TypesStay DEF JobTypes, hand_vars
  <2> QED
    BY <1>u, <1>v, <2>1, <2>2, <2>3, <2>4 DEF UnderWay, Waiting, Kept, RolledBackHonest
<1>3. CASE Download
  <2>1. job.pc = "image" /\ board' = board /\ job.release \in Version
        /\ ~job.ours /\ ~job.tried /\ said \in {"working", "unconfirmed"}
    BY <1>3, Fields DEF Download, UnderWay
  <2>2. \/ Ends("no verdict") \/ Ends(said)
        \/ \E genuine \in BOOLEAN :
             /\ job' = [job EXCEPT !.pc = "verify",
                                   !.image = [fw |-> job.release, genuine |-> genuine]]
             /\ said' = said
    BY <1>3 DEF Download, Rejects
  <2>3. CASE Ends("no verdict") \/ Ends(said)
    BY <1>u, <1>v, <2>1, <2>3, GivenUp DEF JobTypes
  <2>4. ASSUME NEW genuine \in BOOLEAN, said' = said,
               job' = [job EXCEPT !.pc = "verify",
                                  !.image = [fw |-> job.release, genuine |-> genuine]]
        PROVE  JobInv'
    <3>1. [fw |-> job.release, genuine |-> genuine] \in Image
      BY <2>1 DEF Image
    <3>2. /\ job' \in Job /\ job'.pc = "verify" /\ job'.release = job.release
          /\ job'.image = [fw |-> job.release, genuine |-> genuine]
          /\ job'.ours = job.ours /\ job'.tried = job.tried
      BY <2>4, <3>1 DEF JobTypes, Job
    <3> QED
      BY <1>u, <2>1, <2>4, <3>1, <3>2, StepsOn
  <2> QED
    BY <2>2, <2>3, <2>4
<1>4. CASE Verify
  <2>1. board' = board /\ job.pc = "verify" /\ ~job.ours /\ ~job.tried
        /\ said \in {"working", "unconfirmed"} /\ job.image \in Image /\ job.image.fw = job.release
        /\ seen # None
    BY <1>4 DEF Verify, UnderWay
  <2>2. \/ Ends("no verdict") \/ Ends(said)
        \/ /\ job.image.genuine /\ said' = said
           /\ job' = [job EXCEPT !.pc = "send", !.boots = seen.boots]
    BY <1>4 DEF Verify, Verified, Rejects
  <2>3. CASE Ends("no verdict") \/ Ends(said)
    BY <1>u, <1>v, <2>1, <2>3, GivenUp DEF JobTypes
  <2>4. CASE /\ job.image.genuine /\ said' = said
             /\ job' = [job EXCEPT !.pc = "send", !.boots = seen.boots]
    <3>1. seen.boots \in Nat
      BY <2>1 DEF PageInv, PageTypes
    <3>2. /\ job' \in Job /\ job'.pc = "send" /\ job'.release = job.release
          /\ job'.image = job.image /\ job'.ours = job.ours /\ job'.tried = job.tried
      BY <2>4, <3>1 DEF JobTypes, Job
    <3> QED
      BY <1>u, <2>1, <2>4, <3>2, StepsOn
  <2> QED
    BY <2>2, <2>3, <2>4
<1>5. CASE Upload
  <2>1. job.pc = "send" /\ job.image \in Image /\ job.image.fw = job.release /\ job.image.genuine
        /\ said \in {"working", "unconfirmed"}
    BY <1>5 DEF Upload, UnderWay
  <2>s. ASSUME board' = [board EXCEPT !.staged = job.image]
        PROVE  /\ board' \in Board /\ board'.staged = job.image /\ board'.boots = board.boots
               /\ Vouched'
    <3>1. /\ board' \in Board /\ board'.staged = job.image /\ board'.boots = board.boots
          /\ board'.runs = board.runs /\ board'.spare = board.spare
      BY <2>1, <2>s DEF JobTypes, Board
    <3>2. Vouched'
      BY <1>u, <2>1, <3>1, StillVouched
    <3> QED
      BY <3>1, <3>2
  <2>2. CASE /\ board' = [board EXCEPT !.staged = job.image]
             /\ job' = [job EXCEPT !.pc = "watch", !.ours = job.boots = board.boots]
             /\ said' = said
    <3>1. /\ job'.pc = "watch" /\ job'.release = job.release /\ job'.boots = job.boots
          /\ job'.image = job.image /\ job'.tried = job.tried
          /\ job'.ours = (job.boots = board.boots)
      BY <2>2 DEF JobTypes, Job
    <3>2. job' \in Job
      BY <2>2 DEF JobTypes, Job
    <3>3. JobTypes'
      BY <1>u, <2>s, <2>2, <3>2, TypesStay DEF JobTypes, hand_vars
    <3> QED
      BY <1>u, <2>1, <2>s, <2>2, <3>1, <3>3 DEF UnderWay, Waiting, Kept, RolledBackHonest
  <2>3. CASE /\ Ends("no verdict") \/ Ends(said)
             /\ board' = board \/ board' = [board EXCEPT !.staged = job.image]
    <3>1. board' \in Board /\ Vouched'
      BY <1>v, <2>s, <2>3 DEF JobTypes
    <3> QED
      BY <1>u, <2>1, <2>3, <3>1, GivenUp
  <2> QED
    BY <1>5, <2>2, <2>3 DEF Upload, Rejects
<1>6. CASE Watch
  <2> DEFINE v == judgeReboot(job.boots, job.release, Polled)
  <2>1. job.pc = "watch" /\ board' = board /\ job.boots \in Nat /\ board.boots \in Nat
    BY <1>6, Fields DEF Watch
  <2>2. \/ v \in {"confirmed", "rolled back"} /\ said' = v /\ job' = [job EXCEPT !.pc = "idle"]
        \/ v = "unconfirmed" /\ said' = v /\ job' = job
    BY <1>6 DEF Watch
  <2>3. /\ v \in {"confirmed", "rolled back"} => board.boots > job.boots
        /\ v = "confirmed" => board.runs.fw = job.release /\ Confirmed(board)
    BY <2>1 DEF judgeReboot, Polled
  <2> HIDE DEF v
  <2>4. CASE v = "unconfirmed" /\ said' = v /\ job' = job
    <3>1. JobTypes'
      BY <1>u, <2>1, <2>4, TypesStay DEF JobTypes, Said, hand_vars
    <3> QED
      BY <1>u, <1>v, <2>1, <2>4, <3>1 DEF UnderWay, Waiting, Kept, RolledBackHonest
  <2>5. CASE v \in {"confirmed", "rolled back"} /\ said' = v /\ job' = [job EXCEPT !.pc = "idle"]
    <3>1. /\ job'.pc = "idle" /\ job'.release = job.release /\ job'.ours = job.ours
          /\ job'.tried = job.tried
      BY <2>5 DEF JobTypes, Job
    <3>2. JobTypes'
      <4>1. job' \in Job /\ said' \in Said
        BY <2>5 DEF JobTypes, Job, Said
      <4> QED
        BY <1>u, <2>1, <4>1, TypesStay DEF JobTypes, hand_vars
    <3>3. job.ours => board.staged = None /\ job.tried
      <4>1. board.boots # job.boots
        <5>1. board.boots > job.boots
          BY <2>3, <2>5
        <5> QED
          BY <2>1, <5>1
      <4> QED
        BY <2>1, <4>1 DEF Waiting
    <3> QED
      BY <1>u, <1>v, <2>1, <2>3, <2>5, <3>1, <3>2, <3>3
         DEF UnderWay, Waiting, Kept, RolledBackHonest
  <2> QED
    BY <2>2, <2>4, <2>5
<1>7. CASE Deadline
  BY <1>u, <1>v, <1>7, GivenUp DEF Deadline, JobTypes
<1> QED
  BY <1>1, <1>3, <1>4, <1>5, <1>6, <1>7 DEF OneClick, GoesOn

(* Nothing sent, nothing staged: the install is where it was.                *)
LEMMA Preparing ==
  ASSUME JobInv, Counted, UNCHANGED <<seen, board, job, said>>, manual' \in Hand,
         warned \subseteq warned',
         manual'.pc = "send" => manual'.file.genuine \/ manual'.file \in warned'
  PROVE  JobInv'
<1> USE DEF JobInv
<1>1. JobTypes'
  BY TypesStay DEF JobTypes
<1>2. Vouched'
  BY DEF Vouched, VerifiedOrWarned
<1> QED
  BY <1>1, <1>2 DEF UnderWay, Waiting, Kept, RolledBackHonest, Confirmed

LEMMA ByHandStep == ASSUME PageInv, JobInv, Counted, ByHand PROVE JobInv'
<1> USE DEF JobInv
<1>u. UNCHANGED <<seen, said>>
  BY DEF ByHand, Pick, verifyImage, uploadFirmware, page_vars, job_vars
<1>1. CASE Pick
  <2>1. /\ UNCHANGED <<board, job, warned>>
        /\ \E file \in Files \cup Downloads : manual' = [pc |-> "verify", file |-> file]
    BY <1>1 DEF Pick, job_vars
  <2>2. \A file \in Files \cup Downloads : file \in Image /\ file # None
    <3>1. Files \subseteq Image /\ None \notin Image
      BY InstallAssumption
    <3>2. Downloads \subseteq Image
      <4>1. ASSUME Available(row) PROVE AsPublished(row.latest) \in Image
        <5>1. row.latest \in Version
          BY <4>1 DEF PageInv, Offered
        <5> QED
          BY <5>1 DEF AsPublished, Image
      <4> QED
        BY <4>1 DEF Downloads
    <3> QED
      BY <3>1, <3>2
  <2>3. manual' \in Hand /\ manual'.pc # "send"
    BY <2>1, <2>2 DEF Hand
  <2> QED
    BY <1>u, <2>1, <2>3, Preparing
<1>2. CASE verifyImage
  <2>1. /\ manual.pc = "verify" /\ UNCHANGED <<board, job>>
        /\ \/ manual' = Rest /\ warned' = warned
           \/ /\ manual' = [manual EXCEPT !.pc = "send"] /\ warned' = warned
              /\ Matches(manual.file)
           \/ manual' = [manual EXCEPT !.pc = "send"] /\ warned' = warned \cup {manual.file}
    BY <1>2 DEF verifyImage, board_vars, job_vars
  <2>2. Rest \in Hand /\ Rest.pc # "send"
    BY DEF Hand, Rest
  <2>3. /\ [manual EXCEPT !.pc = "send"] \in Hand
        /\ [manual EXCEPT !.pc = "send"].file = manual.file
    BY <2>1 DEF JobTypes, Hand
  <2>4. Matches(manual.file) => manual.file.genuine
    BY DEF Matches, AsPublished
  <2> QED
    BY <1>u, <2>1, <2>2, <2>3, <2>4, Preparing
<1>3. CASE uploadFirmware
  <2>1. /\ manual.pc = "send" /\ manual' = Rest /\ warned' = warned
        /\ \/ /\ board' = [board EXCEPT !.staged = manual.file]
              /\ job' = [job EXCEPT !.ours = FALSE]
           \/ board' = board /\ job' = job
    BY <1>3 DEF uploadFirmware
  <2>2. Rest \in Hand /\ Rest.pc # "send"
    BY DEF Hand, Rest
  <2>3. CASE board' = board /\ job' = job
    BY <1>u, <2>1, <2>2, <2>3, Preparing
  <2>4. CASE /\ board' = [board EXCEPT !.staged = manual.file]
             /\ job' = [job EXCEPT !.ours = FALSE]
    <3>1. /\ board' \in Board /\ board'.staged = manual.file
          /\ board'.runs = board.runs /\ board'.spare = board.spare
      BY <2>1, <2>4 DEF JobTypes, Board, Hand
    <3>2. /\ job' \in Job /\ job'.pc = job.pc /\ job'.release = job.release
          /\ job'.image = job.image /\ ~job'.ours /\ job'.tried = job.tried
      BY <2>4 DEF JobTypes, Job
    <3>3. JobTypes'
      BY <1>u, <2>1, <2>2, <3>1, <3>2, TypesStay DEF JobTypes
    <3>4. Vouched'
      BY <2>1, <2>2, <3>1 DEF Vouched, VerifiedOrWarned
    <3> QED
      BY <1>u, <3>2, <3>3, <3>4 DEF UnderWay, Waiting, Kept, RolledBackHonest
  <2> QED
    BY <2>1, <2>3, <2>4
<1> QED
  BY <1>1, <1>2, <1>3 DEF ByHand

LEMMA InstallStep == InstallInv /\ [InstallNext]_install_vars => InstallInv'
<1> SUFFICES ASSUME InstallInv, [InstallNext]_install_vars PROVE InstallInv'
  OBVIOUS
<1> USE DEF InstallInv
<1>1. seen # None => seen' # None
  BY SeenStays DEF JobInv
<1>2. CASE Page
  <2>1. PageInv'
    BY <1>2, PageStep DEF JobInv
  <2>2. Counted
    BY <1>2, BoundsCount DEF InstallNext
  <2> QED
    BY <1>1, <1>2, <2>1, <2>2, PageLeaves, Elsewhere
<1>3. CASE World \/ OneClick \/ ByHand
  <2>1. PageInv'
    <3>1. UNCHANGED <<page_vars, row_vars>> /\ feed' \in Feeds
      BY <1>3, OthersLeave, InstallAssumption
         DEF PageInv, PageTypes, World, OneClick, GoesOn, ByHand, Publish, BoardReboots, BoardConfirms,
             BoardRollsBack, Click, Download, Verify, Upload, Watch, Deadline, Pick, verifyImage,
             uploadFirmware, Undisturbed
    <3> QED
      BY <3>1 DEF page_vars, row_vars, PageInv, PageTypes, Offered, UpdateJudged, Available
  <2>2. Counted
    BY <1>3, BoundsCount DEF InstallNext
  <2> QED
    BY <1>1, <1>3, <2>1, <2>2, WorldStep, OneClickStep, ByHandStep
<1>4. CASE UNCHANGED install_vars
  <2>1. UNCHANGED <<page_vars, row_vars, board_vars, job_vars, hand_vars, feed, feeds, faults>>
    BY <1>4 DEF install_vars
  <2>2. PageInv'
    BY <2>1 DEF page_vars, row_vars, PageInv, PageTypes, Offered, UpdateJudged, Available
  <2>3. Counted
    BY <2>1 DEF Counted, board_vars
  <2> QED
    BY <1>1, <2>1, <2>2, <2>3, Elsewhere
<1> QED
  BY <1>2, <1>3, <1>4 DEF InstallNext

-----------------------------------------------------------------------------
(* For all feeds, images and files, any number of boots, publications and      *)
(* faults: what the board runs, keeps or is about to boot was there before, is  *)
(* a published release byte for byte, or went by hand as "NOT VERIFIED".       *)
THEOREM AlwaysVerifiedOrWarned == InstallSpec => []VerifiedOrWarned
<1>1. InstallInv => VerifiedOrWarned
  BY DEF InstallInv, JobInv, Vouched
<1> QED
  BY InstallInit_Inv, InstallStep, <1>1, PTL DEF InstallSpec

(* However facts, state and boot() follow each other, and however often the    *)
(* facts are asked for: a page that has all three is without verdict and check  *)
(* only where the board was first heard after the other two.                  *)
THEOREM AlwaysJudged == InstallSpec => []UpdateJudged
<1>1. InstallInv => UpdateJudged
  BY DEF InstallInv, PageInv
<1> QED
  BY InstallInit_Inv, InstallStep, <1>1, PTL DEF InstallSpec

(* Where the boot count at the upload was the board's own and nothing has been  *)
(* staged by hand since: a release said to be confirmed is what the board runs, *)
(* confirmed, from then on, and one said to be rolled back was booted.         *)
THEOREM VerdictAlwaysHonest == InstallSpec => []VerdictHonest
<1>1. InstallInv => VerdictHonest
  BY DEF InstallInv, JobInv, Kept, VerdictHonest, ConfirmedStays
<1> QED
  BY InstallInit_Inv, InstallStep, <1>1, PTL DEF InstallSpec

(* No check of any feed offers what is not published, stable, installable, the *)
(* highest of its kind and above what the board ran when the check began.     *)
THEOREM OffersAreSound == InstallSpec => OfferSound
<1> DEFINE Sound ==
      update' # update /\ Available(update') =>
        LET stable == {r \in ToSet(feed) : r.stable /\ versionCode(r.tag) # Null}
        IN  /\ \E r \in stable : r.tag = update'.latest /\ "ota" \in ToSet(r.assets)
            /\ \A r \in stable : ~Above(r.tag, update'.latest)
            /\ \E v \in checks : v # Unparsed /\ Above(update'.latest, v)
<1>1. ASSUME InstallInv, [InstallNext]_install_vars PROVE [Sound]_install_vars
  <2>1. CASE \E v \in checks : CheckDone(v)
    <3>1. PICK v \in checks : CheckDone(v)
      BY <2>1
    <3>2. v \in Version /\ v # Unparsed /\ feed \in Seq(Release)
      BY <1>1, <3>1, InstallAssumption DEF InstallInv, PageInv, PageTypes
    <3>3. CASE update' = evaluate(v, feed)
      BY <3>2, <3>3, EvaluateIs DEF Available
    <3>4. CASE update' = [kind |-> "unknown", latest |-> Unparsed]
      BY <3>4 DEF Available
    <3> QED
      BY <3>1, <3>3, <3>4 DEF CheckDone
  <2>2. CASE ~(\E v \in checks : CheckDone(v))
    <3>1. update' = update
      BY <1>1, <2>2, OthersLeave
         DEF InstallNext, Page, Hear, DeviceAnswered, DeviceFailed, RetryDevice, BootEnds, Recheck,
             setScreen, page_vars, install_vars
    <3> QED
      BY <3>1
  <2> QED
    BY <2>1, <2>2
<1> QED
  BY InstallInit_Inv, InstallStep, <1>1, PTL DEF InstallSpec, OfferSound
=============================================================================
