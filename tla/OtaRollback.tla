----------------------------- MODULE OtaRollback -----------------------------
(****************************************************************************)
(* The app-level rollback (system/ota_rollback.cpp, system/boot_health.h)   *)
(* over the two OTA slots: an image that keeps booting without ever reaching *)
(* the broker gives the other slot its turn.  The streak of such boots lives *)
(* in RTC memory, which a restart keeps and a power cut turns to noise; the  *)
(* last image that reached the broker is named in NVS.  Uploads are WebOta,  *)
(* whose handlers run inside the loop and so exclude every other step of it. *)
(****************************************************************************)
EXTENDS WebOta

CONSTANTS
  Images,          \* ELF SHAs
  Reaching,        \* the images able to reach the broker at all
  kMaxUnhealthy,   \* BOOT_HEALTH_MAX_UNHEALTHY (3)
  kInputs,         \* bound: power cuts, crashes and requests in one behaviour
  NvsMayFail       \* may the write of conf_sha fail?

Nobody == "nobody"   \* no image: an empty conf_sha
Noise  == "noise"    \* RTC garbage after a power cut
Torn   == "torn"     \* a slot without a valid image

ASSUME ImagesAssumption == /\ Reaching \subseteq Images
                           /\ Images \cap {Nobody, Noise, Torn} = {}
ASSUME BoundsAssumption == /\ kMaxUnhealthy \in Nat \ {0} /\ kInputs \in Nat
                           /\ NvsMayFail \in BOOLEAN

Slots == {0, 1}
Other(s) == 1 - s

VARIABLES
  slot,            \* what each partition holds
  boot_slot,       \* otadata: the partition selected for the next boot
  running,         \* the partition this boot runs from
  phase,           \* "booting" until the boot check has been made, then "up"
  rtc_unhealthy_boots, rtc_streak_sha,   \* RTC_NOINIT
  conf_sha,        \* NVS "conf_sha"
  running_confirmed, confirmed_this_boot, ever_connected,   \* RAM
  own_boots,       \* history: boots of this image in a row without the broker
  proven,          \* history: slots whose image reached the broker since flashed
  inputs           \* outside events left

ram == <<running_confirmed, confirmed_this_boot, ever_connected>>

ota_vars == <<slot, boot_slot, running, phase, rtc_unhealthy_boots, rtc_streak_sha,
              conf_sha, ram, own_boots, proven, inputs, web_vars>>

OtaTypeOK ==
  /\ OtaHandlerTypeOK
  /\ slot \in [Slots -> Images \cup {Torn}]
  /\ boot_slot \in Slots /\ running \in Slots /\ proven \subseteq Slots
  /\ phase \in {"booting", "up"}
  /\ rtc_unhealthy_boots \in 0 .. kMaxUnhealthy
  /\ own_boots \in 0 .. kMaxUnhealthy
  /\ rtc_streak_sha \in Images \cup {Noise}
  /\ conf_sha \in Images \cup {Nobody}
  /\ running_confirmed \in BOOLEAN /\ confirmed_this_boot \in BOOLEAN
  /\ ever_connected \in BOOLEAN
  /\ inputs \in 0 .. kInputs

Running == slot[running]

(* A unit flashed over the cable, at its first power-on.                    *)
OtaInit ==
  /\ \E img \in Images : slot = [s \in Slots |-> IF s = 0 THEN img ELSE Torn]
  /\ boot_slot = 0 /\ running = 0 /\ phase = "booting"
  /\ rtc_unhealthy_boots = 0 /\ rtc_streak_sha = Noise
  /\ conf_sha = Nobody
  /\ running_confirmed = FALSE /\ confirmed_this_boot = FALSE
  /\ ever_connected = FALSE
  /\ own_boots = 0 /\ proven = {}
  /\ inputs = kInputs
  /\ WebInit

Outside == inputs > 0 /\ inputs' = inputs - 1

-----------------------------------------------------------------------------
(* The bootloader takes the selected slot, or the other one when the        *)
(* selected image does not validate; RAM starts over.                       *)
Boot(selected) ==
  /\ boot_slot' = selected
  /\ running' = IF slot[selected] # Torn THEN selected ELSE Other(selected)
  /\ phase' = "booting"
  /\ running_confirmed' = FALSE /\ confirmed_this_boot' = FALSE
  /\ ever_connected' = FALSE
  /\ WebStartsOver

(* history: the row of fruitless boots belongs to one image                 *)
KeepRow == own_boots' = IF slot[running'] = Running THEN own_boots ELSE 0

Capped(n) == IF n < kMaxUnhealthy THEN n ELSE kMaxUnhealthy

\* Wrong variant: the streak is kept whatever image owned it.
StreakAtBoot_inherited == Capped(rtc_unhealthy_boots + 1)

(* The streak including the boot being decided.  A streak that belongs to   *)
(* another image, or is noise, starts over.  (Capped where the decision no   *)
(* longer tells the values apart.)                                          *)
StreakAtBoot ==
  Capped((IF rtc_streak_sha = Running THEN rtc_unhealthy_boots ELSE 0) + 1)

\* Wrong variant: the threshold is one boot further than the streak is reset at.
boot_health_should_rollback_never(unhealthy_boots, confirmed) ==
  ~confirmed /\ unhealthy_boots > kMaxUnhealthy

boot_health_should_rollback(unhealthy_boots, confirmed) ==
  ~confirmed /\ unhealthy_boots >= kMaxUnhealthy

(* ota_rollback_check_at_boot: count this boot, then either run on or flip  *)
(* to the other slot and restart.                                           *)
Judged == boot_health_should_rollback(StreakAtBoot, conf_sha = Running)

RunOn ==
  /\ phase = "booting"
  /\ ~Judged \/ slot[Other(running)] = Torn
  /\ phase' = "up"
  /\ running_confirmed' = (conf_sha = Running)
  /\ rtc_unhealthy_boots' = StreakAtBoot
  /\ rtc_streak_sha' = Running
  /\ own_boots' = Capped(own_boots + 1)
  /\ UNCHANGED <<slot, boot_slot, running, conf_sha, confirmed_this_boot,
                 ever_connected, proven, inputs, web_vars>>

RollBack ==
  /\ phase = "booting"
  /\ Judged /\ slot[Other(running)] # Torn
  /\ Boot(Other(running))
  /\ rtc_unhealthy_boots' = 0
  /\ rtc_streak_sha' = Running
  /\ own_boots' = 0
  /\ UNCHANGED <<slot, conf_sha, proven, inputs>>

-----------------------------------------------------------------------------
(* ota_rollback_mark_healthy, called at every broker connect.  Only the     *)
(* first call of a boot may write; the write's result is not looked at.     *)
StoreSha == \/ /\ conf_sha' = Running
               /\ running_confirmed' = TRUE
            \/ /\ NvsMayFail                      \* putString failed
               /\ conf_sha' = conf_sha
               /\ running_confirmed' = TRUE
            \/ /\ NvsMayFail                      \* prefs.begin failed
               /\ UNCHANGED <<conf_sha, running_confirmed>>

mark_healthy ==
  /\ phase = "up" /\ request = "none" /\ Running \in Reaching
  /\ ever_connected' = TRUE
  /\ rtc_unhealthy_boots' = 0
  /\ confirmed_this_boot' = TRUE
  /\ IF confirmed_this_boot \/ running_confirmed
     THEN UNCHANGED <<conf_sha, running_confirmed>>
     ELSE StoreSha
  /\ own_boots' = 0
  /\ proven' = proven \cup {running}
  /\ UNCHANGED <<slot, boot_slot, running, phase, rtc_streak_sha, inputs, web_vars>>

(* The loop: an unconfirmed image that has not met the broker restarts after *)
(* kUnconfirmedDeadlineMs.                                                   *)
UnconfirmedDeadline ==
  /\ phase = "up" /\ request = "none" /\ ~ever_connected /\ ~running_confirmed
  /\ Boot(boot_slot) /\ KeepRow
  /\ UNCHANGED <<slot, rtc_unhealthy_boots, rtc_streak_sha, conf_sha, proven, inputs>>

(* Any other restart: a panic, the watchdog, 15 min without WiFi, the       *)
(* console's restart button.                                                *)
WarmRestart ==
  /\ Outside
  /\ Boot(boot_slot) /\ KeepRow
  /\ UNCHANGED <<slot, rtc_unhealthy_boots, rtc_streak_sha, conf_sha, proven>>

(* A power cut: RTC memory is noise afterwards, unless the cut was short.   *)
PowerCut ==
  /\ Outside
  /\ Boot(boot_slot) /\ KeepRow
  /\ \/ UNCHANGED <<rtc_unhealthy_boots, rtc_streak_sha>>
     \/ rtc_streak_sha' = Noise /\ rtc_unhealthy_boots' \in {0, kMaxUnhealthy}
  /\ UNCHANGED <<slot, conf_sha, proven>>

\* Wrong variant: the upload is written to the selected slot.
flash_target_selected == boot_slot

(* An upload goes to the partition that is not running.                     *)
flash_target == Other(running)

NoReboot == UNCHANGED <<running, phase, rtc_unhealthy_boots, rtc_streak_sha, conf_sha, ram,
                        own_boots>>

Harmless(A) == A /\ NoReboot /\ UNCHANGED <<slot, boot_slot, proven, inputs>>

UploadRequest ==
  /\ Outside
  /\ phase = "up" /\ Request
  /\ NoReboot /\ UNCHANGED <<slot, boot_slot, proven>>

(* The first bytes written destroy what the slot held.                      *)
UploadWrite ==
  /\ Write
  /\ slot' = [slot EXCEPT ![flash_target] = Torn]
  /\ proven' = proven \ {flash_target}
  /\ NoReboot /\ UNCHANGED <<boot_slot, inputs>>

UploadEnd(img) ==
  /\ End
  /\ IF ImageAccepted
     THEN /\ slot' = [slot EXCEPT ![flash_target] = img]
          /\ boot_slot' = flash_target
          /\ proven' = proven \ {flash_target}
     ELSE UNCHANGED <<slot, boot_slot, proven>>
  /\ NoReboot /\ UNCHANGED inputs

(* The restart that ends an accepted request.                               *)
UploadRestarts ==
  /\ request = "rebooting"
  /\ Boot(boot_slot) /\ KeepRow
  /\ UNCHANGED <<slot, rtc_unhealthy_boots, rtc_streak_sha, conf_sha, proven, inputs>>

(* What the rest of a request consists of.  A connection that stalls is     *)
(* dropped by the server's timeout, so a request always ends.               *)
UploadGoesOn ==
  \/ Harmless(Start) \/ Harmless(Aborted) \/ Harmless(handle_done)
  \/ \E img \in Images : UploadEnd(img)
  \/ UploadRestarts

OtaNext ==
  \/ RunOn \/ RollBack
  \/ mark_healthy
  \/ UnconfirmedDeadline \/ WarmRestart \/ PowerCut
  \/ UploadRequest \/ UploadWrite \/ UploadGoesOn

OtaSpec == OtaInit /\ [][OtaNext]_ota_vars

(* setup() runs to its end, the deadline in loop() fires, and a request     *)
(* comes to its end.                                                        *)
OtaFairSpec == /\ OtaSpec
               /\ WF_ota_vars(RunOn \/ RollBack) /\ WF_ota_vars(UnconfirmedDeadline)
               /\ WF_ota_vars(UploadGoesOn)

-----------------------------------------------------------------------------
(* Properties.                                                              *)

(* There is always an image to boot: no upload, however it ends and         *)
(* whatever cut it short, touches the one that is running.                  *)
AlwaysBootable == Running # Torn

(* An image is given up only at the kMaxUnhealthy-th boot of its own in a   *)
(* row, none before it having reached the broker: it does not inherit the   *)
(* streak of the image before it, and RTC noise is not a streak.            *)
FairChance == [][RollBack => own_boots >= kMaxUnhealthy - 1]_ota_vars

(* "rebooting into new slot" is only ever said when the other slot holds a  *)
(* complete image and is the one that will boot.                            *)
OkMeansFlashed ==
  request = "rebooting" => boot_slot = Other(running) /\ slot[boot_slot] # Torn

(* "A confirmed image never rolls back": an image that reached the broker   *)
(* since it was flashed is not abandoned because the broker went away.      *)
ProvenStays == [][RollBack => running \notin proven]_ota_vars

(* "An unconfirmed image rolls back automatically": once uploads, crashes   *)
(* and power cuts are over, the board ends on the confirmed image whenever  *)
(* one is installed, and stays there.                                       *)
EndsConfirmed ==
  <>[](\E s \in Slots : slot[s] = conf_sha) =>
    <>[](phase = "up" /\ Running = conf_sha)

(* The update's safety: an image to boot, no reboot without a token, and no    *)
(* success without a complete image in the slot that boots next.             *)
OtaSafe == OtaTypeOK /\ AlwaysBootable /\ OkMeansFlashed /\ RebootNeedsToken

(* A rollback takes an image with a fair chance behind it that never reached   *)
(* the broker.                                                               *)
RollBackEarned == FairChance /\ ProvenStays
=============================================================================
