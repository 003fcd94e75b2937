-------------------------------- MODULE SdCard --------------------------------
(****************************************************************************)
(* The microSD card (storage/sdcard.cpp) with the evidence a death leaves in *)
(* RTC memory (system/crashlog.cpp): the mount and its retry ladder, the     *)
(* operations that touch the card, and the quarantine of a card that took    *)
(* the board down.  The loop runs one operation at a time; a death may come  *)
(* in the middle of it.                                                      *)
(****************************************************************************)
EXTENDS Integers

CONSTANTS
  kFailCap,   \* failed mounts after which retry_tick gives up (10)
  kBackoff    \* ticks between two attempts (10)

ASSUME LadderAssumption == kFailCap \in Nat \ {0} /\ kBackoff \in Nat \ {0}

VARIABLES
  g_ok, g_fails, g_quarantined, g_net_up,   \* sdcard.cpp
  tried, backoff,                           \* retry_tick's statics
  late,             \* millis() > 60000
  rtc_sd_sentinel,  \* RTC: equals the magic
  rtc_crumb,        \* RTC: the crumb names an SD operation
  op,               \* the SD operation in flight
  card,             \* environment: "answers" or "dead"
  died,             \* history: how the previous boot died: outside of the SD
                    \* operations ("no"), in a marked one or in an unmarked one
  by_hand,          \* history: a person asked for the card in this boot
  refusals          \* history: mounts the card itself refused since g_fails was 0

mount_st == <<g_ok, g_fails, g_quarantined, g_net_up, tried, backoff, late>>
evidence == <<rtc_sd_sentinel, rtc_crumb>>
history  == <<died, by_hand, refusals>>
sd_vars  == <<mount_st, evidence, op, card, history>>

(* Those that rebuild the file system hold the sentinel as well as a crumb;  *)
(* boots (bootlog::tick), file (/events.log and bootlog::stream) and probe   *)
(* (the raw conversation of /api/sdtest) leave no mark at all.              *)
Guarded  == {"mount", "remount", "format", "purge"}
Marked   == Guarded \cup {"append", "sample", "read"}
Unmarked == {"boots", "file", "probe"}
Writers  == {"append", "sample", "boots"}

SdTypeOK ==
  /\ g_ok \in BOOLEAN /\ g_quarantined \in BOOLEAN /\ g_net_up \in BOOLEAN
  /\ tried \in BOOLEAN /\ late \in BOOLEAN /\ by_hand \in BOOLEAN
  /\ rtc_sd_sentinel \in BOOLEAN /\ rtc_crumb \in BOOLEAN
  /\ died \in {"no", "marked", "unmarked"}
  /\ g_fails \in 0 .. kFailCap /\ refusals \in 0 .. kFailCap
  /\ backoff \in 0 .. kBackoff - 1
  /\ op \in Marked \cup Unmarked \cup {"none"} /\ card \in {"answers", "dead"}

SdBoots(quarantined) ==
  /\ g_ok' = FALSE /\ g_fails' = 0 /\ g_quarantined' = quarantined
  /\ g_net_up' = FALSE /\ tried' = FALSE /\ backoff' = 0 /\ late' = FALSE
  /\ rtc_sd_sentinel' = FALSE /\ rtc_crumb' = FALSE
  /\ op' = "none"
  /\ by_hand' = FALSE /\ refusals' = 0

SdInit ==
  /\ g_ok = FALSE /\ g_fails = 0 /\ g_quarantined = FALSE
  /\ g_net_up = FALSE /\ tried = FALSE /\ backoff = 0 /\ late = FALSE
  /\ rtc_sd_sentinel = FALSE /\ rtc_crumb = FALSE
  /\ op = "none" /\ card \in {"answers", "dead"}
  /\ died = "no" /\ by_hand = FALSE /\ refusals = 0

-----------------------------------------------------------------------------
(* Entering and leaving an operation, with the marks it sets and clears.    *)
Enter(o) == /\ op = "none"
            /\ op' = o
            /\ rtc_crumb' = (o \in Marked)
            /\ rtc_sd_sentinel' = (o \in Guarded)

Leave(o) == /\ op = o
            /\ op' = "none"
            /\ rtc_crumb' = FALSE
            /\ rtc_sd_sentinel' = FALSE

(* retry_tick: the first attempt when the radio is up or a minute has       *)
(* passed, then every kBackoff-th call.                                     *)
Due(net) == IF tried THEN backoff + 1 >= kBackoff ELSE net \/ late

MayRetry == ~g_ok /\ ~g_quarantined /\ g_fails < kFailCap

\* Wrong variant: one attempt a boot.
RetryMounts_once(net) ==
  /\ MayRetry /\ Due(net)
  /\ IF tried THEN UNCHANGED <<evidence, op>> ELSE Enter("mount")
  /\ tried' = TRUE /\ backoff' = 0

RetryMounts(net) ==
  /\ MayRetry /\ Due(net)
  /\ Enter("mount")
  /\ tried' = TRUE /\ backoff' = 0

RetryWaits(net) ==
  /\ MayRetry /\ ~Due(net)
  /\ backoff' = IF tried THEN backoff + 1 ELSE backoff
  /\ UNCHANGED <<tried, evidence, op>>

retry_tick(net) ==
  /\ op = "none"
  /\ \/ RetryMounts(net) \/ RetryWaits(net)
     \/ ~MayRetry /\ UNCHANGED <<tried, backoff, evidence, op>>
  /\ g_net_up' = net
  /\ UNCHANGED <<g_ok, g_fails, g_quarantined, late, card, history>>

(* on_network_up, once a boot, tries at once.                               *)
on_network_up == ~g_net_up /\ retry_tick(TRUE)

MinutePasses ==
  /\ ~late /\ late' = TRUE
  /\ UNCHANGED <<g_ok, g_fails, g_quarantined, g_net_up, tried, backoff, evidence, op, card,
                 history>>

-----------------------------------------------------------------------------
(* How a mount attempt of retry_tick ends.  `heap` is what the allocator    *)
(* says: "roomy"; "tight", the mount fits but leaves too little and is       *)
(* undone; "full", the file system itself gets no memory (NO_MEM).           *)
MountEnds(heap) ==
  /\ Leave("mount")
  /\ \/ /\ card = "answers" /\ heap = "roomy"
        /\ g_ok' = TRUE /\ g_fails' = 0 /\ refusals' = 0
     \/ /\ card = "answers" /\ heap = "tight"
        /\ UNCHANGED <<g_ok, g_fails, refusals>>
     \/ /\ card = "dead" \/ heap = "full"
        /\ g_fails' = g_fails + 1
        /\ refusals' = refusals + (IF card = "dead" THEN 1 ELSE 0)
        /\ UNCHANGED g_ok
  /\ UNCHANGED <<g_quarantined, g_net_up, tried, backoff, late, card, died, by_hand>>

(* /api/sdtest talks to the bus raw and then mounts again, whatever the      *)
(* state; the outcome is not charged to anything.                           *)
TestBegins ==
  /\ Enter("probe")
  /\ by_hand' = TRUE
  /\ UNCHANGED <<mount_st, card, died, refusals>>

TestMounts ==
  /\ op = "probe" /\ op' = "remount"
  /\ rtc_crumb' = TRUE /\ rtc_sd_sentinel' = TRUE
  /\ g_ok' = FALSE
  /\ UNCHANGED <<g_fails, g_quarantined, g_net_up, tried, backoff, late, card, history>>

TestEnds(heap) ==
  /\ Leave("remount")
  /\ g_ok' = (card = "answers" /\ heap = "roomy")
  /\ UNCHANGED <<g_fails, g_quarantined, g_net_up, tried, backoff, late, card, history>>

(* format: also the manual override of the quarantine and of the cap.       *)
FormatBegins ==
  /\ Enter("format")
  /\ g_quarantined' = FALSE
  /\ died' = "no" /\ by_hand' = TRUE
  /\ UNCHANGED <<g_ok, g_fails, g_net_up, tried, backoff, late, card, refusals>>

FormatEnds(heap) ==
  /\ Leave("format")
  /\ g_ok' = (card = "answers" /\ heap = "roomy")
  /\ g_fails' = 0 /\ refusals' = 0
  /\ UNCHANGED <<g_quarantined, g_net_up, tried, backoff, late, card, died, by_hand>>

(* Everything else runs only on a mounted card.  A write that fails drops   *)
(* the mount, for the retry ladder to find.                                 *)
Touches(o) ==
  /\ g_ok
  /\ Enter(o)
  /\ UNCHANGED <<mount_st, card, history>>

TouchEnds(o, well) ==
  /\ Leave(o)
  /\ well => card = "answers"
  /\ g_ok' = (o \in Writers => well)
  /\ UNCHANGED <<g_fails, g_quarantined, g_net_up, tried, backoff, late, card, history>>

-----------------------------------------------------------------------------
(* A death: "abnormal" is a panic, a watchdog or a brownout, "other" any     *)
(* reset that keeps RTC memory, "power" one that does not.                   *)
Manners == {"abnormal", "other", "power"}

\* Wrong variant: the sentinel is only believed after an abnormal death.
sd_suspect_abnormal_only(how) == how = "abnormal" /\ (rtc_sd_sentinel \/ rtc_crumb)

sd_suspect(how) == \/ how # "power" /\ rtc_sd_sentinel
                   \/ how = "abnormal" /\ rtc_crumb

(* examine_boot and the quarantine main draws from it.                      *)
Dies(how) ==
  /\ SdBoots(sd_suspect(how))
  /\ died' = CASE op \in Guarded /\ how # "power"          -> "marked"
               [] op \in Marked \ Guarded /\ how = "abnormal" -> "marked"
               [] op \in Unmarked /\ how = "abnormal"         -> "unmarked"
               [] OTHER                                       -> "no"
  /\ UNCHANGED card

CardChanges ==
  /\ card' \in {"answers", "dead"} \ {card}
  /\ UNCHANGED <<mount_st, evidence, op, history>>

-----------------------------------------------------------------------------
(* Properties.                                                              *)

(* The card is quarantined exactly when the boot before died with a marked  *)
(* operation on it in flight: the evidence survives every reset it should    *)
(* survive, and no error path leaves any behind that condemns a healthy card. *)
QuarantineExact == g_quarantined <=> died = "marked"

(* A card that took a boot down in a marked operation is not touched by the *)
(* next one on its own.                                                     *)
TouchedOnlyByHand == op # "none" /\ died = "marked" => by_hand

(* A boot that died inside an SD operation, any of them, is followed by a   *)
(* quarantine of the card.                                                  *)
(* The code does not keep to it and no run checks it; README.md says how.   *)
DeathNoticed == died # "no" => g_quarantined

(* The retries end because of the card: memory pressure, which passes, is   *)
(* not held against it.                                                     *)
(* The code does not keep to it and no run checks it; README.md says how.   *)
GivenUpOnlyOnCard == g_fails = kFailCap => refusals = kFailCap

(* The quarantine is neither missed nor unearned, and it keeps the card from   *)
(* everything but a person's request.                                        *)
QuarantineHolds == QuarantineExact /\ TouchedOnlyByHand
=============================================================================
