--------------------------- MODULE PeripheralProofs ---------------------------
(* Proofs about what hangs on the device, for every value of the constants.    *)
(* The SD card and the flight recorder on it: a boot quarantines the card       *)
(* exactly when the one before died on it with a mark, and does not touch it    *)
(* again by itself; and the recorder's ledger never drifts from the ring, no    *)
(* line vanishes uncounted, and the file is in order, for every size of the     *)
(* ring and of the batch.  Then the watt meter's alarm, for every table of      *)
(* baselines, every window of the cycling profile and every pace of settling    *)
(* and staleness.                                                            *)
EXTENDS EventLog, Plug, FiniteSetTheorems, TLAPS

-----------------------------------------------------------------------------
(* The card.                                                                *)

(* The marks in RTC memory name the operation in flight; a card that took a    *)
(* boot down is mounted or in use only at a person's request; and the ladder's  *)
(* count stops at its cap.                                                   *)
SdInv ==
  /\ SdTypeOK
  /\ rtc_crumb <=> op \in Marked
  /\ rtc_sd_sentinel <=> op \in Guarded
  /\ g_quarantined <=> died = "marked"
  /\ died = "marked" /\ (op # "none" \/ g_ok) => by_hand
  /\ op = "mount" => g_fails < kFailCap
  /\ refusals <= g_fails

Ops   == Marked \cup Unmarked
Heaps == {"roomy", "tight", "full"}

(* What a step of the recorder may do to the card.                           *)
SdBegins == \/ \E net \in BOOLEAN : retry_tick(net)
            \/ MinutePasses \/ TestBegins \/ TestMounts \/ FormatBegins
            \/ \E o \in Ops \ {"mount"} : Touches(o)

SdEnds == \/ \E heap \in Heaps : MountEnds(heap) \/ TestEnds(heap) \/ FormatEnds(heap)
          \/ \E o \in Ops, well \in BOOLEAN : TouchEnds(o, well)

SdStep == SdBegins \/ SdEnds \/ CardChanges \/ \E how \in Manners : Dies(how)

LEMMA OpsAre ==
  /\ Guarded \subseteq Marked /\ Marked \cap Unmarked = {} /\ "none" \notin Ops
  /\ {"mount", "remount", "format"} \subseteq Guarded /\ "probe" \in Unmarked
  BY DEF Guarded, Marked, Unmarked, Ops

LEMMA SdInit_Inv == SdInit => SdInv
  <1> SUFFICES ASSUME SdInit PROVE SdInv
    OBVIOUS
  <1>1. SdTypeOK
    <2>1. /\ g_ok \in BOOLEAN /\ g_quarantined \in BOOLEAN /\ g_net_up \in BOOLEAN
          /\ tried \in BOOLEAN /\ late \in BOOLEAN /\ by_hand \in BOOLEAN
          /\ rtc_sd_sentinel \in BOOLEAN /\ rtc_crumb \in BOOLEAN
      BY Zenon DEF SdInit
    <2>2. 0 \in 0 .. kFailCap /\ 0 \in 0 .. kBackoff - 1
      BY LadderAssumption
    <2>3. g_fails = 0 /\ refusals = 0 /\ backoff = 0 /\ op = "none" /\ died = "no"
          /\ card \in {"answers", "dead"}
      BY DEF SdInit
    <2> QED BY <2>1, <2>2, <2>3 DEF SdTypeOK
  <1>2. ~rtc_crumb /\ ~rtc_sd_sentinel /\ ~g_quarantined /\ op = "none" /\ died = "no"
        /\ refusals = 0 /\ g_fails = 0
    BY DEF SdInit
  <1> QED BY <1>1, <1>2, OpsAre DEF SdInv, Ops

LEMMA EnterMarks ==
  ASSUME NEW o \in Ops, Enter(o)
  PROVE  /\ op' = o /\ op' # "none" /\ op' \in Marked \cup Unmarked \cup {"none"}
         /\ rtc_crumb' \in BOOLEAN /\ (rtc_crumb' <=> op' \in Marked)
         /\ rtc_sd_sentinel' \in BOOLEAN /\ (rtc_sd_sentinel' <=> op' \in Guarded)
  <1>1. op' = o /\ op' # "none" /\ op' \in Marked \cup Unmarked \cup {"none"}
    BY OpsAre DEF Enter, Ops
  <1>2. rtc_crumb' = (o \in Marked) /\ rtc_sd_sentinel' = (o \in Guarded)
    BY DEF Enter
  <1>3. rtc_crumb' \in BOOLEAN /\ rtc_sd_sentinel' \in BOOLEAN
    <2>1. (o \in Marked) \in BOOLEAN /\ (o \in Guarded) \in BOOLEAN
      OBVIOUS
    <2> QED BY <1>2, <2>1, Zenon
  <1>4. rtc_crumb' <=> op' \in Marked
    BY <1>1, <1>2
  <1>5. rtc_sd_sentinel' <=> op' \in Guarded
    BY <1>1, <1>2
  <1> QED BY <1>1, <1>3, <1>4, <1>5

-----------------------------------------------------------------------------
LEMMA BeginsInv == ASSUME SdInv, SdBegins PROVE SdInv'
  <1> USE DEF SdInv, SdTypeOK
  <1>1. ASSUME NEW net \in BOOLEAN, retry_tick(net) PROVE SdInv'
    <2> USE <1>1 DEF retry_tick, evidence, history
    <2>1. CASE RetryMounts(net)
      <3>1. Enter("mount") /\ "mount" \in Ops
        BY <2>1, OpsAre DEF RetryMounts, Ops
      <3>2. tried' = TRUE /\ backoff' = 0 /\ MayRetry
        BY <2>1 DEF RetryMounts
      <3> QED BY <3>1, <3>2, EnterMarks, LadderAssumption DEF MayRetry
    <2>2. CASE RetryWaits(net)
      <3>1. backoff' \in 0 .. kBackoff - 1
        BY <2>2, LadderAssumption DEF RetryWaits, Due
      <3> QED BY <2>2, <3>1 DEF RetryWaits
    <2>3. CASE ~MayRetry /\ UNCHANGED <<tried, backoff, evidence, op>>
      BY <2>3
    <2> QED BY <2>1, <2>2, <2>3
  <1>2. CASE MinutePasses
    BY <1>2 DEF MinutePasses, evidence, history
  <1>3. CASE TestBegins
    <2>1. Enter("probe") /\ "probe" \in Ops
      BY <1>3, OpsAre DEF TestBegins, Ops
    <2> QED BY <1>3, <2>1, EnterMarks DEF TestBegins, mount_st
  <1>4. CASE TestMounts
    BY <1>4, OpsAre DEF TestMounts, history
  <1>5. CASE FormatBegins
    <2>1. Enter("format") /\ "format" \in Ops
      BY <1>5, OpsAre DEF FormatBegins, Ops
    <2> QED BY <1>5, <2>1, EnterMarks DEF FormatBegins
  <1>6. ASSUME NEW o \in Ops \ {"mount"}, Touches(o) PROVE SdInv'
    <2>1. Enter(o) /\ o \in Ops /\ o # "mount" /\ g_ok
      BY <1>6 DEF Touches
    <2> QED BY <1>6, <2>1, EnterMarks DEF Touches, mount_st, history
  <1> QED BY <1>1, <1>2, <1>3, <1>4, <1>5, <1>6 DEF SdBegins

LEMMA EndsInv == ASSUME SdInv, SdEnds PROVE SdInv'
  <1> USE DEF SdInv, SdTypeOK
  <1>1. ASSUME NEW heap \in Heaps, MountEnds(heap) PROVE SdInv'
    <2>1. op = "mount" /\ op' = "none" /\ rtc_crumb' = FALSE /\ rtc_sd_sentinel' = FALSE
      BY <1>1 DEF MountEnds, Leave
    <2>2. /\ g_quarantined' = g_quarantined /\ died' = died /\ by_hand' = by_hand
          /\ tried' = tried /\ backoff' = backoff /\ late' = late /\ card' = card /\ g_net_up' = g_net_up
      BY <1>1 DEF MountEnds
    <2>3. g_fails' \in 0 .. kFailCap /\ refusals' \in 0 .. kFailCap /\ refusals' <= g_fails'
          /\ g_ok' \in BOOLEAN
      <3>1. \/ g_fails' = 0 /\ refusals' = 0 /\ g_ok' = TRUE
            \/ g_fails' = g_fails /\ refusals' = refusals /\ g_ok' = g_ok
            \/ g_fails' = g_fails + 1 /\ refusals' \in {refusals, refusals + 1} /\ g_ok' = g_ok
        BY <1>1 DEF MountEnds
      <3>2. g_fails \in 0 .. kFailCap /\ g_fails < kFailCap /\ refusals \in 0 .. kFailCap
            /\ refusals <= g_fails /\ g_ok \in BOOLEAN /\ kFailCap \in Nat
        BY <2>1, LadderAssumption
      <3>3. g_ok' \in BOOLEAN
        BY <3>1, <3>2, Zenon
      <3>4. g_fails' \in 0 .. kFailCap /\ refusals' \in 0 .. kFailCap /\ refusals' <= g_fails'
        <4> HIDE DEF SdInv, SdTypeOK
        <4>1. CASE g_fails' = 0 /\ refusals' = 0
          BY <3>2, <4>1
        <4>2. CASE g_fails' = g_fails /\ refusals' = refusals
          BY <3>2, <4>2
        <4>3. CASE g_fails' = g_fails + 1 /\ refusals' \in {refusals, refusals + 1}
          BY <3>2, <4>3
        <4> QED BY <3>1, <4>1, <4>2, <4>3
      <3> QED BY <3>3, <3>4
    <2> QED BY <2>1, <2>2, <2>3, OpsAre DEF Ops
  <1>2. ASSUME NEW heap \in Heaps, TestEnds(heap) PROVE SdInv'
    BY <1>2, OpsAre DEF TestEnds, Leave, history, Ops
  <1>3. ASSUME NEW heap \in Heaps, FormatEnds(heap) PROVE SdInv'
    <2>1. op = "format" /\ op' = "none" /\ rtc_crumb' = FALSE /\ rtc_sd_sentinel' = FALSE
      BY <1>3 DEF FormatEnds, Leave
    <2>2. g_ok' \in BOOLEAN /\ g_fails' = 0 /\ refusals' = 0
      BY <1>3 DEF FormatEnds
    <2>3. /\ g_quarantined' = g_quarantined /\ died' = died /\ by_hand' = by_hand
          /\ tried' = tried /\ backoff' = backoff /\ late' = late /\ card' = card /\ g_net_up' = g_net_up
      BY <1>3 DEF FormatEnds
    <2>4. 0 \in 0 .. kFailCap /\ "none" \notin Marked /\ "none" \notin Guarded
      BY OpsAre, LadderAssumption DEF Ops
    <2>5. SdTypeOK'
      BY <2>1, <2>2, <2>3, <2>4
    <2> QED BY <2>1, <2>2, <2>3, <2>4, <2>5
  <1>4. ASSUME NEW o \in Ops, NEW well \in BOOLEAN, TouchEnds(o, well) PROVE SdInv'
    <2>1. op = o /\ o # "none" /\ op' = "none" /\ rtc_crumb' = FALSE /\ rtc_sd_sentinel' = FALSE
      BY <1>4, OpsAre DEF TouchEnds, Leave
    <2>2. g_ok' \in BOOLEAN
      BY <1>4 DEF TouchEnds
    <2> QED BY <1>4, <2>1, <2>2, OpsAre DEF TouchEnds, history, Ops
  <1> QED BY <1>1, <1>2, <1>3, <1>4 DEF SdEnds

(* The evidence survives exactly the deaths it should.                       *)
LEMMA DeathInv == ASSUME SdInv, NEW how \in Manners, Dies(how) PROVE SdInv'
  <1> USE DEF SdInv, SdTypeOK
  <1>1. SdBoots(sd_suspect(how)) /\ card' = card
    BY DEF Dies
  <1>2. died' \in {"no", "marked", "unmarked"}
        /\ (died' = "marked" <=> \/ op \in Guarded /\ how # "power"
                                 \/ op \in Marked \ Guarded /\ how = "abnormal")
    BY OpsAre DEF Dies
  <1>3. sd_suspect(how) <=> died' = "marked"
    BY <1>2, OpsAre DEF sd_suspect, Manners
  <1>4. sd_suspect(how) \in BOOLEAN
    BY DEF sd_suspect
  <1>5. /\ op' = "none" /\ g_ok' = FALSE /\ g_fails' = 0 /\ refusals' = 0 /\ backoff' = 0
        /\ g_net_up' = FALSE /\ tried' = FALSE /\ late' = FALSE /\ by_hand' = FALSE
        /\ rtc_sd_sentinel' = FALSE /\ rtc_crumb' = FALSE
    BY <1>1 DEF SdBoots
  <1>6. g_quarantined' \in BOOLEAN /\ (g_quarantined' <=> died' = "marked")
    <2>1. g_quarantined' = sd_suspect(how)
      BY <1>1 DEF SdBoots
    <2> QED BY <2>1, <1>3, <1>4, Zenon
  <1>7. op' \notin Marked /\ op' \notin Guarded /\ op' \in Marked \cup Unmarked \cup {"none"}
    BY <1>5, OpsAre DEF Ops
  <1>8. SdTypeOK'
    <2>1. 0 \in 0 .. kFailCap /\ 0 \in 0 .. kBackoff - 1
      BY LadderAssumption
    <2>2. card' \in {"answers", "dead"}
      BY <1>1
    <2>3. /\ g_ok' \in BOOLEAN /\ g_net_up' \in BOOLEAN /\ tried' \in BOOLEAN /\ late' \in BOOLEAN
          /\ by_hand' \in BOOLEAN /\ rtc_sd_sentinel' \in BOOLEAN /\ rtc_crumb' \in BOOLEAN
      BY <1>5, Zenon
    <2> HIDE DEF SdInv, SdTypeOK
    <2> QED BY <1>2, <1>5, <1>6, <1>7, <2>1, <2>2, <2>3 DEF SdTypeOK
  <1> QED BY <1>5, <1>6, <1>7, <1>8

LEMMA SdStepInv == SdInv /\ (SdStep \/ UNCHANGED sd_vars) => SdInv'
  <1> SUFFICES ASSUME SdInv, SdStep \/ UNCHANGED sd_vars PROVE SdInv'
    OBVIOUS
  <1>1. CASE CardChanges
    BY <1>1 DEF CardChanges, mount_st, evidence, history, SdInv, SdTypeOK
  <1>2. CASE UNCHANGED sd_vars
    BY <1>2 DEF sd_vars, mount_st, evidence, history, SdInv, SdTypeOK
  <1> QED BY <1>1, <1>2, BeginsInv, EndsInv, DeathInv DEF SdStep

(* Every step of the flight recorder is a step of the card or leaves it be.   *)
LEMMA LogStepsCard == ASSUME SdTypeOK, [LogNext]_vars PROVE SdStep \/ UNCHANGED sd_vars
  <1> USE DEF OfTheLoop, Says, Ops, Heaps, Marked, Unmarked, Guarded
  <1>1. CASE LoopTick
    BY <1>1 DEF LoopTick, on_network_up, SdStep, SdBegins, SdTypeOK
  <1>2. CASE RowsBegin
    BY <1>2 DEF RowsBegin, Rows, SdStep, SdBegins
  <1>3. CASE RowsEnd
    BY <1>3 DEF RowsEnd, Rows, SdStep, SdEnds
  <1>4. CASE Mounts
    BY <1>4 DEF Mounts, SdStep, SdEnds
  <1>5. CASE ByHand
    BY <1>5 DEF ByHand, SdStep, SdBegins
  <1>6. CASE TestOrFormatEnds
    BY <1>6 DEF TestOrFormatEnds, SdStep, SdBegins, SdEnds
  <1>7. CASE PurgeEnds
    BY <1>7 DEF PurgeEnds, SdStep, SdEnds
  <1>8. CASE RestartsAfterPurge
    BY <1>8 DEF RestartsAfterPurge, Death, Manners, SdStep
  <1>9. CASE FlushBegins
    BY <1>9 DEF FlushBegins
  <1>10. CASE Take
    BY <1>10 DEF Take, SdStep, SdBegins
  <1>11. CASE Acknowledge
    BY <1>11 DEF Acknowledge
  <1>12. CASE Written
    BY <1>12 DEF Written, SdStep, SdEnds
  <1>13. CASE log
    BY <1>13 DEF log
  <1>14. CASE \E how \in Manners : Death(how) /\ Outside
    BY <1>14 DEF Death, SdStep
  <1>15. CASE CardChanges /\ Outside /\ UNCHANGED log_vars
    BY <1>15 DEF SdStep
  <1>16. CASE UNCHANGED vars
    BY <1>16 DEF vars
  <1> QED BY <1>1, <1>2, <1>3, <1>4, <1>5, <1>6, <1>7, <1>8, <1>9, <1>10, <1>11, <1>12, <1>13,
             <1>14, <1>15, <1>16 DEF LogNext

-----------------------------------------------------------------------------
(* The quarantine is neither missed nor unearned after any death in any         *)
(* operation, and keeps the card from everything but a person's request, for    *)
(* every cap, backoff, ring and batch (crashlog::examine_boot, sdcard.cpp).      *)
THEOREM QuarantineAlwaysHolds == LogSpec => []QuarantineHolds
  <1>1. LogInit => SdInv
    BY SdInit_Inv DEF LogInit
  <1>2. SdInv /\ [LogNext]_vars => SdInv'
    BY LogStepsCard, SdStepInv DEF SdInv
  <1>3. SdInv => QuarantineHolds
    BY DEF SdInv, QuarantineHolds, QuarantineExact, TouchedOnlyByHand
  <1> QED BY <1>1, <1>2, <1>3, PTL DEF LogSpec

-----------------------------------------------------------------------------
(* The flight recorder.                                                     *)

Last == kMaxLines - 1

(* A ring: the n latest lines are retained, each where line() looks for it, and *)
(* no more are owed than are retained.                                        *)
RingOK(r) ==
  /\ r \in [buf : [0 .. Last -> Nat \cup {Unused}], head : 0 .. Last, n : 0 .. kMaxLines,
            total : Nat, flushed : Nat, lost : Nat]
  /\ r.flushed <= r.total /\ r.lost <= r.flushed
  /\ r.n <= r.total /\ (r.n < kMaxLines => r.n = r.total)
  /\ r.total - r.flushed <= r.n
  /\ \A i \in 0 .. r.n - 1 : line(r, i) = r.total - r.n + i

-----------------------------------------------------------------------------
LEMMA ModIs ==
  ASSUME NEW x \in Nat, NEW k \in Nat \ {0}, x < 2 * k
  PROVE  x % k = IF x < k THEN x ELSE x - k
OBVIOUS

Wrapped(x) == IF x < kMaxLines THEN x ELSE x - kMaxLines

HeadAfter(h)   == IF h = Last THEN 0 ELSE h + 1
LinesAfter(n)  == IF n < kMaxLines THEN n + 1 ELSE n
Before(n, i)   == IF n < kMaxLines THEN i ELSE i + 1
SlotOf(h, n, i) == Wrapped(h + kMaxLines - n + i)

LEMMA LineAt ==
  ASSUME NEW r, r.head \in 0 .. Last, r.n \in 0 .. kMaxLines, NEW i \in 0 .. r.n - 1
  PROVE  /\ line(r, i) = r.buf[SlotOf(r.head, r.n, i)]
         /\ SlotOf(r.head, r.n, i) \in 0 .. Last
<1> DEFINE x == r.head + kMaxLines - r.n + i
<1>1. kMaxLines \in Nat \ {0} /\ x \in Nat /\ x < 2 * kMaxLines
  BY RingAssumption DEF Last
<1>2. line(r, i) = r.buf[x % kMaxLines]
  BY DEF line
<1> HIDE DEF x
<1>3. x % kMaxLines = Wrapped(x)
  BY <1>1, ModIs, Zenon DEF Wrapped
<1>4. Wrapped(x) \in 0 .. Last
  BY <1>1 DEF Wrapped, Last
<1> QED
  BY <1>2, <1>3, <1>4 DEF x, SlotOf

(* The slots after an append: the head has moved on, and the ring grows or      *)
(* drops its oldest line.                                                     *)
LEMMA SlotsShift ==
  ASSUME NEW h \in 0 .. Last, NEW n \in 0 .. kMaxLines, NEW t \in Nat,
         NEW i \in 0 .. LinesAfter(n) - 1
  PROVE  \/ /\ SlotOf(HeadAfter(h), LinesAfter(n), i) = h
            /\ t + 1 - LinesAfter(n) + i = t
         \/ /\ Before(n, i) \in 0 .. n - 1
            /\ t - n + Before(n, i) = t + 1 - LinesAfter(n) + i
            /\ SlotOf(HeadAfter(h), LinesAfter(n), i) = SlotOf(h, n, Before(n, i))
            /\ SlotOf(h, n, Before(n, i)) # h
BY RingAssumption DEF Wrapped, Last, HeadAfter, LinesAfter, Before, SlotOf

(* append: one more line, the oldest one overwritten if the ring is full, and    *)
(* counted lost if it was still owed.                                         *)
LEMMA AppendKeeps ==
  ASSUME NEW r, RingOK(r)
  PROVE  /\ RingOK(append(r))
         /\ append(r).total = r.total + 1
         /\ \/ append(r).flushed = r.flushed /\ append(r).lost = r.lost
            \/ /\ append(r).flushed = r.flushed + 1 /\ append(r).lost = r.lost + 1
               /\ r.flushed < append(r).total - append(r).n
         /\ r.total - r.n <= append(r).total - append(r).n
<1> DEFINE over == r.n = kMaxLines /\ r.total - r.flushed >= kMaxLines
           a    == append(r)
<1>1. /\ kMaxLines \in Nat \ {0} /\ r.head \in 0 .. Last /\ r.n \in 0 .. kMaxLines
      /\ r.total \in Nat /\ r.flushed \in Nat /\ r.lost \in Nat
      /\ r.buf \in [0 .. Last -> Nat \cup {Unused}]
      /\ r.flushed <= r.total /\ r.lost <= r.flushed
      /\ r.n <= r.total /\ (r.n < kMaxLines => r.n = r.total) /\ r.total - r.flushed <= r.n
  BY RingAssumption DEF RingOK
<1>2. a = [buf |-> [r.buf EXCEPT ![r.head] = r.total], head |-> (r.head + 1) % kMaxLines,
           n |-> IF r.n < kMaxLines THEN r.n + 1 ELSE r.n, total |-> r.total + 1,
           flushed |-> IF over THEN r.flushed + 1 ELSE r.flushed,
           lost |-> IF over THEN r.lost + 1 ELSE r.lost]
  BY Zenon DEF append
<1> HIDE DEF a
<1>3. (r.head + 1) % kMaxLines = IF r.head = Last THEN 0 ELSE r.head + 1
  <2>1. r.head + 1 \in Nat /\ r.head + 1 < 2 * kMaxLines
    BY <1>1 DEF Last
  <2> DEFINE x == r.head + 1
  <2>2. x % kMaxLines = IF x < kMaxLines THEN x ELSE x - kMaxLines
    <3> HIDE DEF x
    <3>1. x \in Nat /\ x < 2 * kMaxLines
      BY <2>1 DEF x
    <3> QED
      BY <1>1, <3>1, ModIs, Zenon
  <2> QED
    BY <1>1, <2>2 DEF Last
<1>4. /\ a.head = IF r.head = Last THEN 0 ELSE r.head + 1
      /\ a.n = IF r.n < kMaxLines THEN r.n + 1 ELSE r.n
      /\ a.total = r.total + 1
      /\ a.flushed = IF over THEN r.flushed + 1 ELSE r.flushed
      /\ a.lost = IF over THEN r.lost + 1 ELSE r.lost
      /\ a.buf = [r.buf EXCEPT ![r.head] = r.total]
  BY <1>2, <1>3
<1>5. /\ a.head \in 0 .. Last /\ a.n \in 1 .. kMaxLines /\ a.total \in Nat
      /\ a.flushed \in Nat /\ a.lost \in Nat
      /\ a.buf \in [0 .. Last -> Nat \cup {Unused}]
  <2>1. a.buf \in [0 .. Last -> Nat \cup {Unused}]
    BY <1>1, <1>4
  <2>2. a.head \in 0 .. Last /\ a.n \in 1 .. kMaxLines /\ a.total \in Nat
    BY <1>1, <1>4, SMTT(30) DEF Last
  <2>3. a.flushed \in Nat /\ a.lost \in Nat
    BY <1>1, <1>4
  <2> QED
    BY <2>1, <2>2, <2>3
<1>6. a \in [buf : [0 .. Last -> Nat \cup {Unused}], head : 0 .. Last, n : 0 .. kMaxLines,
             total : Nat, flushed : Nat, lost : Nat]
  <2> DEFINE B == [r.buf EXCEPT ![r.head] = r.total]
             h == (r.head + 1) % kMaxLines
             m == IF r.n < kMaxLines THEN r.n + 1 ELSE r.n
             f == IF over THEN r.flushed + 1 ELSE r.flushed
             l == IF over THEN r.lost + 1 ELSE r.lost
  <2>1. /\ B \in [0 .. Last -> Nat \cup {Unused}] /\ h \in 0 .. Last /\ m \in 0 .. kMaxLines
        /\ r.total + 1 \in Nat /\ f \in Nat /\ l \in Nat
    BY <1>1, <1>3, <1>4, <1>5
  <2>2. a = [buf |-> B, head |-> h, n |-> m, total |-> r.total + 1, flushed |-> f, lost |-> l]
    BY <1>2
  <2> HIDE DEF B, h, m, f, l
  <2> QED
    BY <2>1, <2>2
<1>7. ASSUME NEW i \in 0 .. a.n - 1 PROVE line(a, i) = a.total - a.n + i
  <2> DEFINE x == SlotOf(a.head, a.n, i)
             j == Before(r.n, i)
             y == SlotOf(r.head, r.n, j)
  <2>0. a.total - a.n + i = r.total + 1 - a.n + i
    <3>1. /\ a.total = r.total + 1 /\ r.total \in Int /\ a.n \in Int /\ i \in Int
      BY <1>1, <1>4, <1>5
    <3> QED
      BY <3>1
  <2>1. line(a, i) = a.buf[x] /\ x \in 0 .. Last
    BY <1>5, LineAt
  <2>2. a.head = HeadAfter(r.head) /\ a.n = LinesAfter(r.n) /\ i \in 0 .. LinesAfter(r.n) - 1
    BY <1>4 DEF HeadAfter, LinesAfter
  <2>3. \/ x = r.head /\ r.total + 1 - a.n + i = r.total
        \/ /\ j \in 0 .. r.n - 1 /\ r.total - r.n + j = r.total + 1 - a.n + i
           /\ x = y /\ y # r.head
    <3>1. r.head \in 0 .. Last /\ r.n \in 0 .. kMaxLines /\ r.total \in Nat
      BY <1>1
    <3>2. \/ /\ SlotOf(HeadAfter(r.head), LinesAfter(r.n), i) = r.head
             /\ r.total + 1 - LinesAfter(r.n) + i = r.total
          \/ /\ Before(r.n, i) \in 0 .. r.n - 1
             /\ r.total - r.n + Before(r.n, i) = r.total + 1 - LinesAfter(r.n) + i
             /\ SlotOf(HeadAfter(r.head), LinesAfter(r.n), i) = SlotOf(r.head, r.n, Before(r.n, i))
             /\ SlotOf(r.head, r.n, Before(r.n, i)) # r.head
      BY <3>1, <2>2, SlotsShift
    <3> QED
      BY <3>2, <2>2
  <2>4. CASE x = r.head /\ r.total + 1 - a.n + i = r.total
    <3> HIDE DEF x, y, j
    <3>1. a.buf[x] = r.total
      BY <1>1, <1>4, <2>1, <2>4
    <3> QED
      BY <2>0, <2>1, <2>4, <3>1, Zenon
  <2>5. CASE /\ j \in 0 .. r.n - 1 /\ r.total - r.n + j = r.total + 1 - a.n + i
             /\ x = y /\ y # r.head
    <3>1. line(r, j) = r.buf[y]
      BY <1>1, <2>5, LineAt
    <3>2. line(r, j) = r.total - r.n + j
      BY <2>5 DEF RingOK
    <3> HIDE DEF x, y, j
    <3>3. a.buf[x] = r.buf[x]
      BY <1>1, <1>4, <2>1, <2>5
    <3> QED
      BY <2>0, <2>1, <2>5, <3>1, <3>2, <3>3, Zenon
  <2> QED
    BY <2>3, <2>4, <2>5
<1>8. /\ a.flushed <= a.total /\ a.lost <= a.flushed
      /\ a.n <= a.total /\ (a.n < kMaxLines => a.n = a.total) /\ a.total - a.flushed <= a.n
  <2>1. a.flushed <= a.total /\ a.lost <= a.flushed
    BY <1>1, <1>4
  <2>2. a.n <= a.total /\ (a.n < kMaxLines => a.n = a.total)
    BY <1>1, <1>4
  <2>3. a.total - a.flushed <= a.n
    <3>1. CASE over
      BY <1>1, <1>4, <3>1
    <3>2. CASE ~ over
      BY <1>1, <1>4, <3>2
    <3> QED
      BY <3>1, <3>2
  <2> QED
    BY <2>1, <2>2, <2>3
<1>9. RingOK(a)
  BY <1>6, <1>7, <1>8 DEF RingOK
<1>10. /\ \/ a.flushed = r.flushed /\ a.lost = r.lost
          \/ /\ a.flushed = r.flushed + 1 /\ a.lost = r.lost + 1
             /\ r.flushed < a.total - a.n
       /\ r.total - r.n <= a.total - a.n
  BY <1>1, <1>4
<1> QED
  BY <1>4, <1>9, <1>10 DEF a

LEMMA FirstRing ==
  LET r == append(EmptyRing)
  IN  RingOK(r) /\ r.flushed = 0 /\ r.lost = 0
<1>1. kMaxLines \in Nat \ {0}
  BY RingAssumption
<1>2. RingOK(EmptyRing)
  BY <1>1 DEF EmptyRing, RingOK, Last
<1>3. EmptyRing.n = 0 /\ EmptyRing.flushed = 0 /\ EmptyRing.lost = 0 /\ EmptyRing.total = 0
  BY DEF EmptyRing
<1>4. append(EmptyRing).flushed = 0 /\ append(EmptyRing).lost = 0
  BY <1>1, <1>3 DEF append
<1> QED
  BY <1>2, <1>4, AppendKeeps

(* The ledger, of any ring of this kind.                                      *)
LEMMA LedgerOf ==
  ASSUME RingOK(ring)
  PROVE  /\ LedgerInRing
         /\ unflushed(ring) > 0 => line(ring, first_unflushed(ring)) = ring.flushed
<1>1. /\ ring.n \in Nat /\ ring.total \in Nat /\ ring.flushed \in Nat
      /\ ring.flushed <= ring.total /\ ring.total - ring.flushed <= ring.n
  BY RingAssumption DEF RingOK
<1>2. ASSUME NEW k \in 0 .. unflushed(ring) - 1
      PROVE  /\ first_unflushed(ring) >= 0
             /\ line(ring, first_unflushed(ring) + k) = ring.flushed + k
  <2> DEFINE i == first_unflushed(ring) + k
  <2>1. /\ first_unflushed(ring) >= 0 /\ i \in 0 .. ring.n - 1
        /\ ring.total - ring.n + i = ring.flushed + k
    BY <1>1 DEF unflushed, first_unflushed
  <2> HIDE DEF i
  <2>2. line(ring, i) = ring.total - ring.n + i
    BY <2>1 DEF RingOK
  <2> QED
    BY <2>1, <2>2 DEF i
<1>3. ASSUME unflushed(ring) > 0 PROVE line(ring, first_unflushed(ring)) = ring.flushed
  <2>1. 0 \in 0 .. unflushed(ring) - 1 /\ first_unflushed(ring) + 0 = first_unflushed(ring)
        /\ ring.flushed + 0 = ring.flushed
    BY <1>1, <1>3 DEF unflushed, first_unflushed
  <2> QED
    BY <1>2, <2>1, Zenon
<1> QED
  BY <1>2, <1>3 DEF LedgerInRing

LEMMA MarkKeeps ==
  ASSUME NEW r, RingOK(r), r.flushed < r.total
  PROVE  /\ RingOK(mark_flushed(r))
         /\ mark_flushed(r).flushed = r.flushed + 1 /\ mark_flushed(r).lost = r.lost
         /\ mark_flushed(r).total = r.total /\ mark_flushed(r).n = r.n
<1> DEFINE m == mark_flushed(r)
<1>1. /\ r.total \in Nat /\ r.flushed \in Nat /\ r.lost \in Nat /\ r.lost <= r.flushed
      /\ r.total - r.flushed <= r.n /\ r.n \in 0 .. kMaxLines
  BY DEF RingOK
<1>2. m = [r EXCEPT !.flushed = r.flushed + 1] /\ r.flushed + 1 \in Nat
  BY <1>1 DEF mark_flushed
<1> HIDE DEF m
<1>3. m \in [buf : [0 .. Last -> Nat \cup {Unused}], head : 0 .. Last, n : 0 .. kMaxLines,
             total : Nat, flushed : Nat, lost : Nat]
  BY <1>2 DEF RingOK
<1>4. /\ m.buf = r.buf /\ m.head = r.head /\ m.n = r.n /\ m.total = r.total
      /\ m.flushed = r.flushed + 1 /\ m.lost = r.lost
  BY <1>2 DEF RingOK
<1>5. \A i \in 0 .. m.n - 1 : line(m, i) = m.total - m.n + i
  BY <1>4, Zenon DEF RingOK, line
<1>6. m.flushed <= m.total /\ m.lost <= m.flushed /\ m.n <= m.total
      /\ (m.n < kMaxLines => m.n = m.total) /\ m.total - m.flushed <= m.n
  BY <1>1, <1>4 DEF RingOK
<1> QED
  BY <1>3, <1>4, <1>5, <1>6 DEF RingOK, m

-----------------------------------------------------------------------------
(* The file.                                                                 *)
Entries == [line : Nat, whole : BOOLEAN]

OnFile(s) == \E i \in DOMAIN on_card : on_card[i].whole /\ on_card[i].line = s

Missing(r, written) == {s \in 0 .. r.flushed - 1 : s \notin written}

(* Every line the ledger has passed was written, or is overwritten and counted.  *)
Counted(r, written) ==
  /\ Cardinality(Missing(r, written)) <= r.lost
  /\ \A s \in Missing(r, written) : s < r.total - r.n

LEMMA EntriesAre ==
  ASSUME NEW file \in Seq(Entries)
  PROVE  \A i \in DOMAIN file : file[i].line \in Nat /\ file[i].whole \in BOOLEAN
<1>1. ASSUME NEW i \in DOMAIN file PROVE file[i] \in Entries
  BY <1>1
<1>2. \A e \in Entries : e.line \in Nat /\ e.whole \in BOOLEAN
  BY DEF Entries
<1> QED
  BY <1>1, <1>2

LEMMA OnCardIs == \A s : s \in OnCard <=> OnFile(s)
BY DEF OnCard, OnFile

(* No entry is of a line the ledger has not reached; while a line is in hand,   *)
(* it is the oldest owed when it was taken, the file's entries come before it,  *)
(* and once written it is there.                                             *)
FileBehind ==
  /\ taken = {} => \A i \in DOMAIN on_card :
                      /\ on_card[i].line <= ring.flushed
                      /\ on_card[i].whole => on_card[i].line < ring.flushed
  /\ \A t \in taken : \A i \in DOMAIN on_card :
        /\ on_card[i].line <= t.line
        /\ on_card[i].whole /\ op = "append" => on_card[i].line < t.line
  /\ \A t \in taken : op # "append" => OnFile(t.line)

InHand ==
  /\ taken = {} \/ \E s \in 0 .. ring.flushed :
                      s < ring.total /\ taken = {[seq |-> s, line |-> s]}
  /\ taken # {} => batch > 0 /\ op \in {"append", "none"}
  /\ op = "append" => taken # {}

LogInv ==
  /\ SdInv /\ RingOK(ring)
  /\ batch \in 0 .. kBatch /\ restarting \in BOOLEAN /\ g_written \in BOOLEAN
  /\ events \in 0 .. kEvents
  /\ on_card \in Seq(Entries)
  /\ InHand /\ FileBehind /\ FileInOrder /\ Counted(ring, OnCard)

LEMMA LogInvSafe == LogInv => LogSafe
<1> SUFFICES ASSUME LogInv PROVE LogSafe
  OBVIOUS
<1>1. RingOK(ring) /\ SdTypeOK /\ InHand
  BY DEF LogInv, SdInv
<1>2. taken = {} \/ \E s, l \in 0 .. ring.total - 1 : taken = {[seq |-> s, line |-> l]}
  <2>1. CASE taken = {}
    BY <2>1
  <2>2. ASSUME NEW s \in 0 .. ring.flushed, s < ring.total, taken = {[seq |-> s, line |-> s]}
        PROVE  \E u, l \in 0 .. ring.total - 1 : taken = {[seq |-> u, line |-> l]}
    <3>1. s \in 0 .. ring.total - 1
      BY <1>1, <2>2 DEF RingOK
    <3> QED
      BY <2>2, <3>1
  <2> QED
    BY <1>1, <2>1, <2>2 DEF InHand
<1>3. LogTypeOK
  <2>1. /\ ring.buf \in [0 .. kMaxLines - 1 -> Nat \cup {Unused}]
        /\ ring.head \in 0 .. kMaxLines - 1 /\ ring.n \in 0 .. kMaxLines
        /\ ring.total \in Nat /\ ring.flushed \in Nat /\ ring.lost \in Nat
        /\ ring.flushed <= ring.total /\ ring.lost <= ring.flushed
    BY <1>1 DEF RingOK, Last
  <2>2. /\ batch \in 0 .. kBatch /\ restarting \in BOOLEAN /\ g_written \in BOOLEAN
        /\ events \in 0 .. kEvents /\ on_card \in Seq(Entries)
    BY DEF LogInv
  <2>3. taken # {} => batch > 0
    BY <1>1 DEF InHand
  <2> QED
    BY <1>1, <1>2, <2>1, <2>2, <2>3, Zenon DEF LogTypeOK, Entries
<1>4. EveryLineAccounted
  <2>1. Counted(ring, OnCard)
    BY DEF LogInv
  <2>2. ASSUME NEW i \in 0 .. ring.n - 1 PROVE line(ring, i) \notin Missing(ring, OnCard)
    <3>1. line(ring, i) = ring.total - ring.n + i
      BY <1>1 DEF RingOK
    <3>2. ring.total - ring.n + i >= ring.total - ring.n
      BY <1>1 DEF RingOK
    <3>3. \A s \in Missing(ring, OnCard) : s \in Int /\ s < ring.total - ring.n
      BY <1>1, <2>1 DEF Counted, Missing, RingOK
    <3>4. ring.total - ring.n \in Int /\ ring.total - ring.n + i \in Int
      BY <1>1 DEF RingOK
    <3> QED
      BY <3>1, <3>2, <3>3, <3>4
  <2> QED
    BY <2>1, <2>2 DEF Counted, Missing, EveryLineAccounted
<1> QED
  BY <1>1, <1>3, <1>4, LedgerOf DEF LogSafe, LogInv

-----------------------------------------------------------------------------
(* What the ring's operations do to the account.                              *)
LEMMA MissingFinite ==
  ASSUME NEW r, RingOK(r), NEW written
  PROVE  IsFiniteSet(Missing(r, written))
<1>1. IsFiniteSet(0 .. r.flushed - 1)
  BY FS_Interval DEF RingOK
<1> QED
  BY <1>1, FS_Subset DEF Missing

LEMMA AppendCounts ==
  ASSUME NEW r, RingOK(r), NEW written, Counted(r, written)
  PROVE  Counted(append(r), written)
<1> DEFINE a == append(r)
           old == Missing(r, written)
<1>1. /\ RingOK(a) /\ a.total = r.total + 1 /\ r.total - r.n <= a.total - a.n
      /\ \/ a.flushed = r.flushed /\ a.lost = r.lost
         \/ a.flushed = r.flushed + 1 /\ a.lost = r.lost + 1 /\ r.flushed < a.total - a.n
  BY AppendKeeps
<1> HIDE DEF a
<1>2. /\ r.total \in Nat /\ r.flushed \in Nat /\ r.lost \in Nat /\ r.n \in Int
      /\ a.total \in Nat /\ a.n \in Int
  BY <1>1 DEF RingOK
<1>3. IsFiniteSet(old) /\ Cardinality(old) \in Nat
  BY MissingFinite, FS_CardinalityType
<1>4. Cardinality(old) <= r.lost /\ \A s \in old : s < r.total - r.n /\ s \in Int
  BY <1>2 DEF Counted, Missing
<1>5. CASE a.flushed = r.flushed /\ a.lost = r.lost
  <2>1. Missing(a, written) = old
    BY <1>5 DEF Missing
  <2> HIDE DEF old
  <2> QED
    BY <1>1, <1>2, <1>4, <1>5, <2>1 DEF Counted, a
<1>6. CASE a.flushed = r.flushed + 1 /\ a.lost = r.lost + 1 /\ r.flushed < a.total - a.n
  <2>1. Missing(a, written) \subseteq old \cup {r.flushed}
    BY <1>2, <1>6 DEF Missing
  <2>2. /\ IsFiniteSet(old \cup {r.flushed})
        /\ Cardinality(old \cup {r.flushed}) <= Cardinality(old) + 1
        /\ Cardinality(old \cup {r.flushed}) \in Nat
    <3> HIDE DEF old
    <3>1. IsFiniteSet(old \cup {r.flushed})
          /\ (Cardinality(old \cup {r.flushed}) = Cardinality(old)
              \/ Cardinality(old \cup {r.flushed}) = Cardinality(old) + 1)
      BY <1>3, FS_AddElement
    <3> QED
      BY <1>3, <3>1
  <2>3. Cardinality(Missing(a, written)) <= Cardinality(old \cup {r.flushed})
    BY <2>1, <2>2, FS_Subset
  <2>4. Cardinality(Missing(a, written)) \in Nat
    BY <1>1, MissingFinite, FS_CardinalityType
  <2> HIDE DEF old
  <2>5. Cardinality(Missing(a, written)) <= a.lost
    BY <1>2, <1>3, <1>4, <1>6, <2>2, <2>3, <2>4
  <2>6. \A s \in Missing(a, written) : s < a.total - a.n
    BY <1>1, <1>2, <1>4, <1>6, <2>1
  <2> QED
    BY <2>5, <2>6 DEF Counted, a
<1> QED
  BY <1>1, <1>5, <1>6

(* More of the file, or a line written and marked: no more is missing.         *)
LEMMA FewerMissing ==
  ASSUME NEW r, RingOK(r), NEW w, Counted(r, w), NEW r1, RingOK(r1), NEW w1,
         Missing(r1, w1) \subseteq Missing(r, w),
         r1.lost = r.lost, r1.total = r.total, r1.n = r.n
  PROVE  Counted(r1, w1)
<1>1. Cardinality(Missing(r1, w1)) <= Cardinality(Missing(r, w))
  BY MissingFinite, FS_Subset
<1>2. /\ Cardinality(Missing(r1, w1)) \in Nat /\ Cardinality(Missing(r, w)) \in Nat
      /\ r.lost \in Nat
  BY MissingFinite, FS_CardinalityType DEF RingOK
<1>3. Cardinality(Missing(r1, w1)) <= r1.lost
  BY <1>1, <1>2 DEF Counted
<1>4. \A s \in Missing(r1, w1) : s < r1.total - r1.n
  BY Zenon DEF Counted
<1> QED
  BY <1>3, <1>4 DEF Counted

(* One to three lines on the tape, or none.                                   *)
Told(r) == {r, append(r), append(append(r)), append(append(append(r)))}

LEMMA ToldKeeps ==
  ASSUME NEW r, RingOK(r), NEW w, Counted(r, w), NEW r1 \in Told(r)
  PROVE  RingOK(r1) /\ Counted(r1, w) /\ r.flushed <= r1.flushed /\ r.total <= r1.total
<1> DEFINE a == append(r)
           b == append(a)
           c == append(b)
<1>1. /\ RingOK(a) /\ Counted(a, w) /\ a.total = r.total + 1
      /\ (a.flushed = r.flushed \/ a.flushed = r.flushed + 1)
  BY AppendKeeps, AppendCounts
<1> HIDE DEF a
<1>2. /\ RingOK(b) /\ Counted(b, w) /\ b.total = a.total + 1
      /\ (b.flushed = a.flushed \/ b.flushed = a.flushed + 1)
  BY <1>1, AppendKeeps, AppendCounts
<1> HIDE DEF b
<1>3. /\ RingOK(c) /\ Counted(c, w) /\ c.total = b.total + 1
      /\ (c.flushed = b.flushed \/ c.flushed = b.flushed + 1)
  BY <1>2, AppendKeeps, AppendCounts
<1> HIDE DEF c
<1>4. r1 \in {r, a, b, c}
  BY DEF Told, a, b, c
<1>5. /\ r.total \in Nat /\ r.flushed \in Nat /\ a.total \in Nat /\ a.flushed \in Nat
      /\ b.total \in Nat /\ b.flushed \in Nat /\ c.total \in Nat /\ c.flushed \in Nat
  BY <1>1, <1>2, <1>3 DEF RingOK
<1> QED
  BY <1>1, <1>2, <1>3, <1>4, <1>5

-----------------------------------------------------------------------------
(* The steps of the recorder, by what they do to the tape and the file.        *)
Flags == /\ batch \in 0 .. kBatch /\ restarting \in BOOLEAN /\ g_written \in BOOLEAN
         /\ events \in 0 .. kEvents

(* Lines may arrive, also while one is in hand; nothing else happens to it.    *)
Still == /\ ring' \in Told(ring) /\ UNCHANGED <<taken, on_card>> /\ Flags'
         /\ taken # {} => batch' = batch /\ op' = op
         /\ taken = {} => op' # "append"

Takes == Take /\ unflushed(ring) > 0

Booted == \E how \in Manners : Death(how) /\ Flags'

LEMMA OutsideCounts == ASSUME Flags, Outside PROVE events' \in 0 .. kEvents
BY RingAssumption DEF Flags, Outside

LEMMA TellsTold == ASSUME NEW k \in 1 .. 3, Tells(k) PROVE ring' \in Told(ring)
<1>1. k = 1 \/ k = 2 \/ k = 3
  OBVIOUS
<1> QED
  BY <1>1 DEF Tells, Told

(* An operation that ends leaves the card free; only flush_tick appends.       *)
LEMMA EndsFree ==
  /\ \A o, well : TouchEnds(o, well) => op = o /\ op' = "none"
  /\ \A heap : MountEnds(heap) => op = "mount" /\ op' = "none"
  /\ \A heap : TestEnds(heap) => op = "remount" /\ op' = "none"
  /\ \A heap : FormatEnds(heap) => op = "format" /\ op' = "none"
  /\ \A o : Touches(o) => op = "none" /\ op' = o
  /\ \A net : retry_tick(net) => op' \in {op, "mount"}
BY DEF TouchEnds, MountEnds, TestEnds, FormatEnds, Touches, retry_tick, RetryMounts, RetryWaits,
       Enter, Leave

(* Steps of the loop while no batch is out: no line is in hand.                *)
LEMMA LoopIsStill ==
  ASSUME Flags, InHand, NoFlush, UNCHANGED log_vars, events' \in 0 .. kEvents,
         op' \in {op, "mount", "remount", "probe", "format", "purge", "none"} \cup Rows \cup {"boots"}
  PROVE  Still
<1>1. taken = {} /\ op # "append"
  BY DEF NoFlush, InHand, Flags
<1>2. op' # "append"
  BY <1>1 DEF Rows
<1> QED
  BY <1>1, <1>2 DEF Still, Flags, log_vars, Told

(* An operation that says something as it ends.                               *)
LEMMA SaidIsStill ==
  ASSUME Flags, InHand, ring' \in Told(ring), UNCHANGED <<taken, on_card>>, Flags',
         op \notin {"append", "none"}, op' = "none"
  PROVE  Still
BY DEF Still, InHand

LEMMA DeathFlags ==
  ASSUME NEW how, Death(how), events' \in 0 .. kEvents
  PROVE  Flags'
<1>1. batch' = 0 /\ restarting' = FALSE /\ g_written' = FALSE
  BY DEF Death
<1>2. restarting' \in BOOLEAN /\ g_written' \in BOOLEAN
  BY <1>1
<1>3. batch' \in 0 .. kBatch
  BY <1>1, RingAssumption
<1> QED
  BY <1>2, <1>3 DEF Flags

LEMMA StepKinds ==
  ASSUME LogInv, [LogNext]_vars
  PROVE  Still \/ Takes \/ Written \/ Acknowledge \/ Booted
<1>1. Flags /\ InHand /\ RingOK(ring)
  BY DEF LogInv, Flags
<1>2. CASE LoopTick
  <2>1. events' = events /\ NoFlush /\ UNCHANGED log_vars
    BY <1>2 DEF LoopTick, OfTheLoop
  <2>2. op' \in {op, "mount"}
    BY <1>2, EndsFree DEF LoopTick, OfTheLoop, on_network_up, MinutePasses
  <2> QED
    BY <1>1, <2>1, <2>2, LoopIsStill DEF Flags
<1>3. CASE RowsBegin
  <2>1. events' = events /\ NoFlush /\ UNCHANGED log_vars
    BY <1>3 DEF RowsBegin, OfTheLoop
  <2>2. op' \in Rows \cup {"boots"}
    BY <1>3, EndsFree DEF RowsBegin, OfTheLoop
  <2> QED
    BY <1>1, <2>1, <2>2, LoopIsStill DEF Flags
<1>4. CASE RowsEnd
  <2>1. CASE \/ \E o \in Rows : OfTheLoop(TouchEnds(o, TRUE)) /\ UNCHANGED events
             \/ \E o \in Rows \cup {"boots"} : OfTheLoop(TouchEnds(o, FALSE)) /\ Refused
    <3>1. NoFlush /\ UNCHANGED log_vars /\ op' = "none"
      BY <2>1, EndsFree DEF OfTheLoop
    <3>2. events' \in 0 .. kEvents
      BY <1>1, <2>1, OutsideCounts DEF Refused, Flags
    <3> QED
      BY <1>1, <3>1, <3>2, LoopIsStill
  <2>2. CASE /\ TouchEnds("boots", TRUE)
             /\ g_written' = TRUE /\ Tells(1)
             /\ UNCHANGED <<batch, taken, on_card, restarting, events>>
    <3>1. op = "boots" /\ op' = "none"
      BY <2>2, EndsFree
    <3>3. ring' \in Told(ring)
      <4>1. 1 \in 1 .. 3 /\ Tells(1)
        BY <2>2
      <4> QED
        BY <4>1, TellsTold
    <3>2. Flags'
      BY <1>1, <2>2 DEF Flags
    <3> QED
      BY <1>1, <2>2, <3>1, <3>2, <3>3, SaidIsStill
  <2> QED
    BY <1>4, <2>1, <2>2 DEF RowsEnd
<1>5. CASE Mounts
  <2>1. op = "mount" /\ op' = "none" /\ ring' \in Told(ring)
    BY <1>5, EndsFree, TellsTold DEF Mounts, Says
  <2>2. UNCHANGED <<batch, taken, on_card, restarting, g_written>>
    BY <1>5 DEF Mounts, Says
  <2>3. events' \in 0 .. kEvents
    BY <1>1, <1>5, OutsideCounts DEF Mounts, Flags
  <2>4. Flags'
    BY <1>1, <2>2, <2>3 DEF Flags
  <2> QED
    BY <1>1, <2>1, <2>2, <2>4, SaidIsStill
<1>6. CASE ByHand
  <2>1. NoFlush /\ UNCHANGED log_vars /\ events' \in 0 .. kEvents
    BY <1>1, <1>6, OutsideCounts DEF ByHand, OfTheLoop
  <2>2. op' \in {"probe", "format", "purge"}
    BY <1>6, EndsFree DEF ByHand, OfTheLoop, TestBegins, FormatBegins, Enter
  <2> QED
    BY <1>1, <2>1, <2>2, LoopIsStill
<1>7. CASE TestOrFormatEnds
  <2>1. CASE OfTheLoop(TestMounts)
    <3>1. NoFlush /\ UNCHANGED log_vars /\ events' = events /\ op' = "remount"
      BY <1>7, <2>1 DEF TestOrFormatEnds, OfTheLoop, TestMounts
    <3> QED
      BY <1>1, <3>1, LoopIsStill DEF Flags
  <2>2. CASE \/ \E heap \in {"roomy", "tight", "full"} : Says(TestEnds(heap), 1)
             \/ \E heap \in {"roomy", "full"} : Says(FormatEnds(heap), 1)
             \/ Says(FormatEnds("tight"), IF card = "dead" THEN 1 ELSE 2)
    <3>1. op \in {"remount", "format"} /\ op' = "none"
      BY <2>2, EndsFree DEF Says
    <3>2. ring' \in Told(ring)
      <4>1. \E k \in 1 .. 3 : Tells(k)
        BY <2>2 DEF Says
      <4> QED
        BY <4>1, TellsTold
    <3>3. UNCHANGED <<batch, taken, on_card, restarting, g_written, events>>
      BY <1>7, <2>2 DEF TestOrFormatEnds, Says
    <3>4. Flags'
      BY <1>1, <3>3 DEF Flags
    <3> QED
      BY <1>1, <3>1, <3>2, <3>3, <3>4, SaidIsStill
  <2> QED
    BY <1>7, <2>1, <2>2 DEF TestOrFormatEnds
<1>8. CASE PurgeEnds
  <2>1. op = "purge" /\ op' = "none" /\ ring' \in Told(ring)
    BY <1>8, EndsFree, TellsTold DEF PurgeEnds
  <2>2. /\ UNCHANGED <<taken, on_card, g_written, events>>
        /\ batch' = kBatch /\ restarting' = TRUE
    BY <1>8 DEF PurgeEnds
  <2>3. Flags'
    BY <1>1, <2>2, RingAssumption DEF Flags
  <2> QED
    BY <1>1, <2>1, <2>2, <2>3, SaidIsStill
<1>9. CASE RestartsAfterPurge
  <2>1. Death("other") /\ UNCHANGED events
    BY <1>9 DEF RestartsAfterPurge
  <2>2. Flags'
    BY <1>1, <2>1, DeathFlags DEF Flags
  <2> QED
    BY <2>1, <2>2 DEF Booted, Manners
<1>10. CASE FlushBegins
  <2>1. /\ UNCHANGED <<ring, taken, on_card, restarting, g_written, events>> /\ op' = op
        /\ batch' = kBatch /\ op = "none" /\ NoFlush
    BY <1>10 DEF FlushBegins, sd_vars
  <2>2. taken = {}
    BY <1>1, <2>1 DEF NoFlush, InHand
  <2>3. Flags'
    BY <1>1, <2>1, RingAssumption DEF Flags
  <2> QED
    BY <2>1, <2>2, <2>3 DEF Still, Told
<1>11. CASE Take
  <2>1. CASE unflushed(ring) = 0
    <3>1. /\ UNCHANGED <<ring, taken, on_card, restarting, g_written, events>> /\ op' = op
          /\ batch' = 0 /\ op = "none" /\ taken = {}
      BY <1>11, <2>1 DEF Take, sd_vars
    <3>2. Flags'
      BY <1>1, <3>1, RingAssumption DEF Flags
    <3> QED
      BY <3>1, <3>2 DEF Still, Told
  <2>2. CASE unflushed(ring) # 0
    <3>1. unflushed(ring) > 0
      BY <1>1, <2>2 DEF unflushed, RingOK
    <3> QED
      BY <1>11, <3>1 DEF Takes
  <2> QED
    BY <2>1, <2>2
<1>12. CASE log
  <2>1. /\ ring' \in Told(ring) /\ op' = op
        /\ UNCHANGED <<batch, taken, on_card, restarting, g_written>>
    BY <1>12, TellsTold DEF log, Says, sd_vars
  <2>2. Flags'
    BY <1>1, <1>12, <2>1, OutsideCounts DEF log, Flags
  <2> QED
    BY <1>1, <2>1, <2>2 DEF Still, InHand
<1>13. CASE \E how \in Manners : Death(how) /\ Outside
  <2>1. PICK how \in Manners : Death(how) /\ Outside
    BY <1>13
  <2>2. Flags'
    BY <1>1, <2>1, OutsideCounts, DeathFlags
  <2> QED
    BY <2>1, <2>2 DEF Booted
<1>14. CASE (CardChanges /\ Outside /\ UNCHANGED log_vars) \/ UNCHANGED vars
  <2>1. op' = op /\ UNCHANGED log_vars /\ events' \in 0 .. kEvents
    BY <1>1, <1>14, OutsideCounts DEF CardChanges, vars, sd_vars, Flags
  <2>2. Flags'
    BY <1>1, <2>1 DEF Flags, log_vars
  <2> QED
    BY <1>1, <2>1, <2>2 DEF Still, InHand, log_vars, Told
<1> QED
  BY <1>2, <1>3, <1>4, <1>5, <1>6, <1>7, <1>8, <1>9, <1>10, <1>11, <1>12, <1>13, <1>14
  DEF LogNext

-----------------------------------------------------------------------------
(* What the recorder's own state keeps to; the card's is SdInv.                *)
TapeInv ==
  /\ RingOK(ring) /\ Flags
  /\ on_card \in Seq(Entries)
  /\ InHand /\ FileBehind /\ FileInOrder /\ Counted(ring, OnCard)

LEMMA OnCardSame == ASSUME on_card' = on_card PROVE OnCard' = OnCard
BY DEF OnCard

LEMMA StillTape == ASSUME TapeInv, Still PROVE TapeInv'
<1>1. /\ ring' \in Told(ring) /\ taken' = taken /\ on_card' = on_card /\ Flags'
      /\ taken # {} => batch' = batch /\ op' = op
      /\ taken = {} => op' # "append"
  BY DEF Still
<1>2. RingOK(ring) /\ Counted(ring, OnCard) /\ OnCard' = OnCard
  BY <1>1, OnCardSame DEF TapeInv
<1>3. /\ RingOK(ring') /\ Counted(ring', OnCard)
      /\ ring.flushed <= ring'.flushed /\ ring.total <= ring'.total
  BY <1>1, <1>2, ToldKeeps
<1>4. /\ ring.flushed \in Nat /\ ring.total \in Nat /\ ring'.flushed \in Nat /\ ring'.total \in Nat
  BY <1>2, <1>3 DEF RingOK
<1>5. RingOK(ring)' /\ Counted(ring, OnCard)'
  <2>1. RingOK(ring)'
    BY <1>3 DEF RingOK, line
  <2>2. Counted(ring, OnCard)'
    BY <1>2, <1>3 DEF Counted, Missing
  <2> QED
    BY <2>1, <2>2
<1>6. InHand'
  <2>1. InHand
    BY DEF TapeInv
  <2>2. taken' = {} \/ \E s \in 0 .. ring'.flushed :
                          s < ring'.total /\ taken' = {[seq |-> s, line |-> s]}
    <3>1. CASE taken = {}
      BY <1>1, <3>1
    <3>2. ASSUME NEW s \in 0 .. ring.flushed, s < ring.total, taken = {[seq |-> s, line |-> s]}
          PROVE  s \in 0 .. ring'.flushed /\ s < ring'.total
      BY <1>3, <1>4, <3>2
    <3> QED
      BY <1>1, <2>1, <3>1, <3>2 DEF InHand
  <2> QED
    BY <1>1, <2>1, <2>2 DEF InHand
<1>7. FileBehind'
  <2>1. FileBehind /\ on_card \in Seq(Entries)
    BY DEF TapeInv
  <2>2. taken = {} => \A i \in DOMAIN on_card :
                         /\ on_card[i].line <= ring'.flushed
                         /\ on_card[i].whole => on_card[i].line < ring'.flushed
    <3> SUFFICES ASSUME taken = {}, NEW i \in DOMAIN on_card
                 PROVE  /\ on_card[i].line <= ring'.flushed
                        /\ on_card[i].whole => on_card[i].line < ring'.flushed
      OBVIOUS
    <3>1. on_card[i].line \in Nat
      BY <2>1, EntriesAre
    <3>2. /\ on_card[i].line <= ring.flushed
          /\ on_card[i].whole => on_card[i].line < ring.flushed
      BY <2>1 DEF FileBehind
    <3> QED
      BY <1>3, <1>4, <3>1, <3>2
  <2>3. \A t \in taken : op' = op
    BY <1>1
  <2> QED
    BY <1>1, <2>1, <2>2, <2>3 DEF FileBehind, OnFile
<1>8. FileInOrder' /\ (on_card \in Seq(Entries))'
  BY <1>1 DEF TapeInv, FileInOrder
<1> QED
  BY <1>1, <1>5, <1>6, <1>7, <1>8 DEF TapeInv

LEMMA TakesTape == ASSUME TapeInv, Takes PROVE TapeInv'
<1>1. /\ taken = {} /\ batch > 0 /\ op = "none" /\ unflushed(ring) > 0
      /\ taken' = {[seq |-> ring.flushed, line |-> line(ring, first_unflushed(ring))]}
      /\ op' = "append" /\ batch' = batch /\ ring' = ring
      /\ UNCHANGED <<on_card, restarting, g_written, events>>
  BY EndsFree DEF Takes, Take
<1>2. RingOK(ring) /\ FileBehind /\ on_card \in Seq(Entries)
  BY DEF TapeInv
<1>3. taken' = {[seq |-> ring.flushed, line |-> ring.flushed]}
  BY <1>1, <1>2, LedgerOf
<1>4. ring.flushed \in Nat /\ ring.total \in Nat /\ ring.flushed < ring.total
  BY <1>1, <1>2 DEF RingOK, unflushed
<1>5. InHand'
  <2>1. ring.flushed \in 0 .. ring.flushed
    BY <1>4
  <2> QED
    BY <1>1, <1>3, <1>4, <2>1 DEF InHand
<1>6. FileBehind'
  <2>1. \A t \in taken' : t.line = ring.flushed
    BY <1>3
  <2>2. \A i \in DOMAIN on_card : /\ on_card[i].line <= ring.flushed
                                  /\ on_card[i].whole => on_card[i].line < ring.flushed
    BY <1>1, <1>2 DEF FileBehind
  <2> QED
    BY <1>1, <1>3, <2>1, <2>2 DEF FileBehind
<1>7. Flags' /\ FileInOrder' /\ (on_card \in Seq(Entries))'
  BY <1>1 DEF TapeInv, FileInOrder, Flags
<1>8. RingOK(ring)' /\ Counted(ring, OnCard)'
  <2>1. OnCard' = OnCard
    BY <1>1, OnCardSame
  <2> QED
    BY <1>1, <2>1 DEF TapeInv, RingOK, Counted, Missing, line
<1> QED
  BY <1>5, <1>6, <1>7, <1>8 DEF TapeInv

(* One more entry in the file: of the line in hand, whole or torn.             *)
LEMMA EntryAdded ==
  ASSUME TapeInv, NEW t \in taken, op = "append", NEW whole \in BOOLEAN,
         on_card' = Append(on_card, [line |-> t.line, whole |-> whole])
  PROVE  /\ (on_card \in Seq(Entries))' /\ FileInOrder'
         /\ \A i \in DOMAIN on_card' :
               /\ on_card'[i].line <= t.line
               /\ on_card'[i].whole => on_card'[i].line < t.line \/ whole
         /\ whole => OnFile(t.line)'
         /\ OnCard \subseteq OnCard'
<1> DEFINE e == [line |-> t.line, whole |-> whole]
           n == Len(on_card)
<1>1. on_card \in Seq(Entries) /\ FileBehind /\ FileInOrder /\ InHand /\ RingOK(ring)
  BY DEF TapeInv
<1>2. t.line \in Nat
  BY <1>1 DEF InHand, RingOK
<1>3. e \in Entries /\ e.line = t.line /\ e.whole = whole
  BY <1>2 DEF Entries
<1>4. /\ \A i \in DOMAIN on_card : on_card[i].line \in Nat
      /\ \A i \in DOMAIN on_card : /\ on_card[i].line <= t.line
                                   /\ on_card[i].whole => on_card[i].line < t.line
  <2>1. \A i \in DOMAIN on_card : on_card[i].line \in Nat
    BY <1>1, EntriesAre
  <2> QED
    BY <1>1, <2>1 DEF FileBehind
<1>5. /\ on_card' \in Seq(Entries) /\ n \in Nat
      /\ DOMAIN on_card = 1 .. n /\ DOMAIN on_card' = 1 .. n + 1
      /\ \A i \in 1 .. n : on_card'[i] = on_card[i]
      /\ on_card'[n + 1] = e
  <2> HIDE DEF e
  <2> QED
    BY <1>1, <1>3 DEF e
<1> HIDE DEF e, n
<1>6. FileInOrder'
  <2> SUFFICES ASSUME NEW i \in 1 .. n + 1, NEW j \in 1 .. n + 1, i < j
               PROVE  \/ on_card'[i].line < on_card'[j].line
                      \/ on_card'[i].line = on_card'[j].line /\ ~on_card'[i].whole
    BY <1>5 DEF FileInOrder
  <2>1. CASE j \in 1 .. n
    BY <1>1, <1>5, <2>1 DEF FileInOrder
  <2>2. CASE j = n + 1
    <3>1. i \in 1 .. n
      BY <1>5, <2>2
    <3>2. /\ on_card'[i] = on_card[i] /\ on_card[i].line \in Nat /\ on_card[i].line <= t.line
          /\ on_card[i].whole => on_card[i].line < t.line
      BY <1>4, <1>5, <3>1
    <3>3. on_card'[j].line = t.line
      BY <1>3, <1>5, <2>2
    <3>4. CASE on_card[i].whole
      BY <3>2, <3>3, <3>4
    <3>5. CASE ~on_card[i].whole
      <4>1. on_card[i].line < t.line \/ on_card[i].line = t.line
        BY <1>2, <3>2
      <4> QED
        BY <3>2, <3>3, <3>5, <4>1
    <3> QED
      BY <3>4, <3>5
  <2> QED
    BY <1>5, <2>1, <2>2
<1>7. ASSUME NEW i \in 1 .. n + 1
      PROVE  /\ on_card'[i].line <= t.line
             /\ on_card'[i].whole => on_card'[i].line < t.line \/ whole
  <2>1. CASE i \in 1 .. n
    BY <1>4, <1>5, <2>1
  <2>2. CASE i = n + 1
    BY <1>2, <1>3, <1>5, <2>2
  <2> QED
    BY <1>5, <2>1, <2>2
<1>8. whole => OnFile(t.line)'
  <2>1. n + 1 \in DOMAIN on_card'
    BY <1>5
  <2> QED
    BY <1>3, <1>5, <2>1 DEF OnFile
<1>9. OnCard \subseteq OnCard'
  <2>1. \A s : OnFile(s) => \E i \in DOMAIN on_card' : on_card'[i].whole /\ on_card'[i].line = s
    BY <1>5 DEF OnFile
  <2>2. \A s : (\E i \in DOMAIN on_card' : on_card'[i].whole /\ on_card'[i].line = s) => s \in OnCard'
    BY DEF OnCard
  <2> QED
    BY <2>1, <2>2, OnCardIs
<1> QED
  BY <1>5, <1>6, <1>7, <1>8, <1>9

LEMMA WrittenTape == ASSUME TapeInv, Written PROVE TapeInv'
<1>1. /\ op = "append" /\ op' = "none" /\ UNCHANGED <<ring, restarting, g_written>>
      /\ \/ Wrote(TRUE) /\ UNCHANGED <<taken, batch, events>>
         \/ Refused /\ (Wrote(FALSE) \/ UNCHANGED on_card) /\ taken' = {} /\ batch' = 0
  BY EndsFree DEF Written
<1>2. /\ Flags /\ InHand /\ RingOK(ring) /\ FileBehind /\ FileInOrder /\ Counted(ring, OnCard)
      /\ on_card \in Seq(Entries)
  BY DEF TapeInv
<1>3. PICK s \in 0 .. ring.flushed : s < ring.total /\ taken = {[seq |-> s, line |-> s]}
  BY <1>1, <1>2 DEF InHand
<1>4. s \in Nat /\ ring.flushed \in Nat /\ s <= ring.flushed
  BY <1>2, <1>3 DEF RingOK
<1>5. RingOK(ring)'
  BY <1>1, <1>2 DEF RingOK, line
<1>6. ASSUME OnCard \subseteq OnCard' PROVE Counted(ring, OnCard)'
  <2>1. Missing(ring, OnCard') \subseteq Missing(ring, OnCard)
    BY <1>6 DEF Missing
  <2>2. Counted(ring, OnCard')
    BY <1>2, <2>1, FewerMissing
  <2> QED
    BY <1>1, <2>2 DEF Counted, Missing
<1>7. CASE Wrote(TRUE) /\ UNCHANGED <<taken, batch, events>>
  <2>1. PICK t \in taken : on_card' = Append(on_card, [line |-> t.line, whole |-> TRUE])
    BY <1>7 DEF Wrote
  <2>2. /\ (on_card \in Seq(Entries))' /\ FileInOrder' /\ OnFile(t.line)' /\ OnCard \subseteq OnCard'
        /\ \A i \in DOMAIN on_card' : on_card'[i].line <= t.line
    BY <1>1, <2>1, EntryAdded
  <2>3. taken' = taken /\ \A u \in taken : u = t
    BY <1>3, <1>7
  <2>4. FileBehind'
    BY <1>1, <1>3, <2>2, <2>3 DEF FileBehind
  <2>5. InHand'
    BY <1>1, <1>2, <1>7 DEF InHand
  <2>6. Flags'
    BY <1>1, <1>2, <1>7 DEF Flags
  <2> QED
    BY <1>5, <1>6, <2>2, <2>4, <2>5, <2>6 DEF TapeInv
<1>8. CASE Refused /\ (Wrote(FALSE) \/ UNCHANGED on_card) /\ taken' = {} /\ batch' = 0
  <2>1. Flags'
    BY <1>1, <1>2, <1>8, OutsideCounts, RingAssumption DEF Flags, Refused
  <2>2. InHand'
    BY <1>1, <1>8 DEF InHand
  <2>3. /\ (on_card \in Seq(Entries))' /\ FileInOrder' /\ OnCard \subseteq OnCard'
        /\ \A i \in DOMAIN on_card' : /\ on_card'[i].line <= s
                                      /\ on_card'[i].whole => on_card'[i].line < s
    <3>1. CASE Wrote(FALSE)
      <4>1. PICK t \in taken : on_card' = Append(on_card, [line |-> t.line, whole |-> FALSE])
        BY <3>1 DEF Wrote
      <4>2. t.line = s
        BY <1>3
      <4> QED
        BY <1>1, <4>1, <4>2, EntryAdded
    <3>2. CASE UNCHANGED on_card
      <4>1. OnCard' = OnCard
        BY <3>2, OnCardSame
      <4>2. \A i \in DOMAIN on_card : /\ on_card[i].line <= s
                                      /\ on_card[i].whole => on_card[i].line < s
        BY <1>1, <1>2, <1>3 DEF FileBehind
      <4> QED
        BY <1>2, <3>2, <4>1, <4>2 DEF FileInOrder
    <3> QED
      BY <1>8, <3>1, <3>2
  <2>4. FileBehind'
    <3>1. \A i \in DOMAIN on_card' : on_card'[i].line \in Nat
      BY <2>3, EntriesAre
    <3>2. \A i \in DOMAIN on_card' :
             /\ on_card'[i].line <= ring.flushed
             /\ on_card'[i].whole => on_card'[i].line < ring.flushed
      BY <1>4, <2>3, <3>1
    <3> QED
      BY <1>1, <1>8, <3>2 DEF FileBehind
  <2> QED
    BY <1>5, <1>6, <2>1, <2>2, <2>3, <2>4 DEF TapeInv
<1> QED
  BY <1>1, <1>7, <1>8

LEMMA AcknowledgeTape == ASSUME TapeInv, Acknowledge PROVE TapeInv'
<1>1. /\ taken # {} /\ op = "none" /\ op' = op /\ taken' = {} /\ batch' = batch - 1
      /\ ring' = (IF \E t \in taken : t.seq = ring.flushed THEN mark_flushed(ring) ELSE ring)
      /\ UNCHANGED <<on_card, restarting, g_written, events>>
  BY DEF Acknowledge, sd_vars
<1>2. /\ Flags /\ InHand /\ RingOK(ring) /\ FileBehind /\ FileInOrder /\ Counted(ring, OnCard)
      /\ on_card \in Seq(Entries)
  BY DEF TapeInv
<1>3. PICK s \in 0 .. ring.flushed : s < ring.total /\ taken = {[seq |-> s, line |-> s]}
  BY <1>1, <1>2 DEF InHand
<1>4. s \in Nat /\ ring.flushed \in Nat /\ s <= ring.flushed
  BY <1>2, <1>3 DEF RingOK
<1>5. ring' = IF s = ring.flushed THEN mark_flushed(ring) ELSE ring
  BY <1>1, <1>3
<1>6. OnFile(s) /\ \A i \in DOMAIN on_card : on_card[i].line <= s /\ on_card[i].line \in Nat
  BY <1>1, <1>2, <1>3, EntriesAre DEF FileBehind
<1>7. /\ RingOK(ring') /\ Counted(ring', OnCard)
      /\ ring'.flushed \in Nat /\ s < ring'.flushed
  <2>1. CASE s = ring.flushed
    <3>1. /\ RingOK(ring') /\ ring'.flushed = ring.flushed + 1 /\ ring'.lost = ring.lost
          /\ ring'.total = ring.total /\ ring'.n = ring.n
      BY <1>2, <1>3, <1>5, <2>1, MarkKeeps
    <3>2. Missing(ring', OnCard) \subseteq Missing(ring, OnCard)
      <4>1. s \in OnCard
        BY <1>6, OnCardIs
      <4> QED
        BY <1>4, <2>1, <3>1, <4>1 DEF Missing
    <3>3. Counted(ring', OnCard)
      BY <1>2, <3>1, <3>2, FewerMissing
    <3> QED
      BY <1>4, <2>1, <3>1, <3>3
  <2>2. CASE s # ring.flushed
    BY <1>2, <1>4, <1>5, <2>2
  <2> QED
    BY <2>1, <2>2
<1>8. RingOK(ring)' /\ Counted(ring, OnCard)'
  <2>1. OnCard' = OnCard
    BY <1>1, OnCardSame
  <2>2. RingOK(ring)'
    BY <1>7 DEF RingOK, line
  <2>3. Counted(ring, OnCard)'
    BY <1>7, <2>1 DEF Counted, Missing
  <2> QED
    BY <2>2, <2>3
<1>9. FileBehind'
  <2>1. \A i \in DOMAIN on_card : on_card[i].line <= ring'.flushed /\ on_card[i].line < ring'.flushed
    BY <1>4, <1>6, <1>7
  <2> QED
    BY <1>1, <2>1 DEF FileBehind
<1>10. InHand'
  BY <1>1 DEF InHand
<1>11. Flags'
  BY <1>1, <1>2, RingAssumption DEF Flags, InHand
<1>12. FileInOrder' /\ (on_card \in Seq(Entries))'
  BY <1>1, <1>2 DEF FileInOrder
<1> QED
  BY <1>8, <1>9, <1>10, <1>11, <1>12 DEF TapeInv

(* A boot starts with its own line on an empty tape.                           *)
LEMMA FreshTape ==
  ASSUME ring = append(EmptyRing), taken = {}, on_card = <<>>, op # "append", Flags
  PROVE  TapeInv
<1>1. RingOK(ring) /\ ring.flushed = 0 /\ ring.lost = 0
  BY FirstRing
<1>2. Missing(ring, OnCard) = {}
  BY <1>1 DEF Missing
<1>3. Counted(ring, OnCard)
  BY <1>1, <1>2, FS_EmptySet DEF Counted
<1>4. FileBehind /\ FileInOrder /\ InHand
  BY DEF FileBehind, FileInOrder, InHand
<1> QED
  BY <1>1, <1>3, <1>4 DEF TapeInv

LEMMA BootedTape == ASSUME Booted PROVE TapeInv'
<1>1. /\ ring' = append(EmptyRing) /\ taken' = {} /\ on_card' = <<>> /\ op' = "none" /\ Flags'
  BY DEF Booted, Death, Dies, SdBoots
<1>2. RingOK(ring)' /\ ring'.flushed = 0 /\ ring'.lost = 0
  <2>1. RingOK(ring') /\ ring'.flushed = 0 /\ ring'.lost = 0
    BY <1>1, FirstRing
  <2> QED
    BY <2>1 DEF RingOK, line
<1>3. Counted(ring, OnCard)'
  <2>1. Missing(ring', OnCard') = {}
    BY <1>2 DEF Missing
  <2> QED
    BY <1>2, <2>1, FS_EmptySet DEF Counted, Missing
<1>4. FileBehind' /\ FileInOrder' /\ InHand'
  BY <1>1 DEF FileBehind, FileInOrder, InHand
<1> QED
  BY <1>1, <1>2, <1>3, <1>4 DEF TapeInv

-----------------------------------------------------------------------------
LEMMA LogInitInv == LogInit => LogInv
<1> SUFFICES ASSUME LogInit PROVE LogInv
  OBVIOUS
<1>1. SdInv /\ op = "none"
  BY SdInit_Inv DEF LogInit, SdInit
<1>2. Flags
  <2>1. batch = 0 /\ restarting = FALSE /\ g_written = FALSE /\ events = kEvents
    BY DEF LogInit
  <2>2. restarting \in BOOLEAN /\ g_written \in BOOLEAN
    BY <2>1
  <2>3. batch \in 0 .. kBatch /\ events \in 0 .. kEvents
    BY <2>1, RingAssumption
  <2> QED
    BY <2>2, <2>3 DEF Flags
<1>3. TapeInv
  BY <1>1, <1>2, FreshTape DEF LogInit
<1> QED
  BY <1>1, <1>3 DEF LogInv, TapeInv, Flags

LEMMA LogStepInv == LogInv /\ [LogNext]_vars => LogInv'
<1> SUFFICES ASSUME LogInv, [LogNext]_vars PROVE LogInv'
  OBVIOUS
<1>1. SdInv'
  BY LogStepsCard, SdStepInv DEF LogInv, SdInv
<1>2. TapeInv
  BY DEF LogInv, TapeInv, Flags
<1>3. TapeInv'
  BY <1>2, StepKinds, StillTape, TakesTape, WrittenTape, AcknowledgeTape, BootedTape
<1> QED
  BY <1>1, <1>3 DEF LogInv, TapeInv, Flags

(* The flight recorder is safe (eventlog_ring.h, eventlog.cpp flush_tick,        *)
(* sdcard.cpp append_event_line): every line owed to the card is retained where  *)
(* the flush will look for it, every line the ledger has passed was written      *)
(* or counted lost, and the file is in order, though lines arrive and wrap the   *)
(* ring while one is being written, writes tear, and the board dies anywhere.   *)
THEOREM LogAlwaysSafe == LogSpec => []LogSafe
<1> QED
  BY LogInitInv, LogStepInv, LogInvSafe, PTL DEF LogSpec

-----------------------------------------------------------------------------
(* The watt meter.                                                          *)


(* A reading younger than the speed it is judged at was taken at that speed.  *)
ReadAtSpeed == age <= kStale /\ age < since => own

PlugInv == PlugSafe /\ ReadAtSpeed

Cycles == [flips : SUBSET (0 .. kQuiet - 1), last_class : {-1, 0, 1},
           pending : {-1, 0, 1}, pending_n : 0 .. kConfirm, cycling : BOOLEAN]

-----------------------------------------------------------------------------
(* The lesser of two numbers, as FiniteSetsExt chooses it.                   *)
LEMMA MinOfTwo ==
  ASSUME NEW a \in Int, NEW b \in Int
  PROVE  Min({a, b}) = IF a <= b THEN a ELSE b
<1> DEFINE m == IF a <= b THEN a ELSE b
<1>1. m \in {a, b} /\ \A y \in {a, b} : m <= y
  OBVIOUS
<1>2. \A x \in {a, b} : (\A y \in {a, b} : x <= y) => x = m
  OBVIOUS
<1> HIDE DEF m
<1>3. Min({a, b}) = m
  BY <1>1, <1>2, Zenon DEF Min
<1> QED
  BY <1>3 DEF m

LEMMA ClassifyType == \A w, s : classify(w, s) \in {-1, 0, 1}
BY DEF classify

(* The profile after any poll is a profile.                                 *)
LEMMA ProfiledType ==
  ASSUME NEW d \in Cycles, NEW cls \in {-1, 0, 1}
  PROVE  Profiled(d, cls) \in Cycles
<1> DEFINE held    == IF cls = 0 THEN d.pending_n ELSE Held(d, cls)
           counts  == cls # 0 /\ held >= kConfirm
           flipped == counts /\ d.last_class \notin {0, cls}
           flips   == Aged(d.flips) \cup {a \in {0} : flipped}
           cycling == (d.cycling \/ FlipsIn(flips, kWindow) >= kOnset) /\ flips # {}
<1>1. held \in 0 .. kConfirm
  <2>1. d.pending_n \in 0 .. kConfirm /\ kConfirm \in Nat \ {0}
    BY PlugAssumption DEF Cycles
  <2>2. Min({d.pending_n + 1, kConfirm}) \in 0 .. kConfirm
    BY <2>1, MinOfTwo
  <2> QED
    BY <2>1, <2>2 DEF Held
<1>2. flips \in SUBSET (0 .. kQuiet - 1)
  <2>1. d.flips \in SUBSET (0 .. kQuiet - 1) /\ kQuiet \in Nat \ {0}
    BY PlugAssumption DEF Cycles
  <2>2. Aged(d.flips) \in SUBSET (0 .. kQuiet - 1)
    BY <2>1 DEF Aged
  <2> QED
    BY <2>1, <2>2
<1>3. cycling \in BOOLEAN
  BY Zenon
<1>4. d.last_class \in {-1, 0, 1} /\ d.pending \in {-1, 0, 1}
  BY DEF Cycles
<1>5. Profiled(d, cls) = [flips |-> flips, last_class |-> IF counts THEN cls ELSE d.last_class,
                          pending |-> IF cls = 0 THEN d.pending ELSE cls,
                          pending_n |-> held, cycling |-> cycling]
  BY Zenon DEF Profiled
<1> HIDE DEF held, counts, flips, cycling
<1> QED
  BY <1>1, <1>2, <1>3, <1>4, <1>5 DEF Cycles

LEMMA NothingIsProfile == NothingDecided \in Cycles /\ ~NothingDecided.cycling
BY PlugAssumption DEF NothingDecided, Cycles

-----------------------------------------------------------------------------
(* What the published alert says of the verdict and of the profile.          *)
LEMMA AlertTells ==
  ASSUME NEW s, NEW v \in {-1, 0, 1}, NEW c \in BOOLEAN
  PROVE  /\ alert(s, v, c) \in Alerts
         /\ alert(s, v, c) = "cycling" <=> c
         /\ alert(s, v, c) = "disagree" => v = -1
         /\ alert(s, v, c) = "ok" => v = 1
BY DEF alert, Alerts

(* What a poll leaves is published as the alarms are owed.                   *)
AlarmsTold ==
  /\ retained \in Alerts \cup {"none"}
  /\ AlarmNotOutlived /\ AlarmNotMasked

(* Judging a reading: the verdict that is left, and what is published of it.  *)
LEMMA JudgeTells ==
  ASSUME PlugInv, NEW w, NEW watts, NEW fresh \in BOOLEAN, NEW settled \in BOOLEAN,
         Judge(w, watts, fresh, settled), link' = link
  PROVE  /\ g_cycle' \in Cycles /\ g_bad_streak' \in 0 .. 2 /\ g_verdict' \in {-1, 0, 1}
         /\ g_verdict' # 0 => fresh /\ settled
         /\ AlarmsTold'
<1> DEFINE same    == speed = g_speed_seen
           cycle   == IF same THEN CyclePoll(g_cycle, speed, IF fresh THEN watts ELSE NoReading, settled)
                      ELSE NothingDecided
           decides == fresh /\ settled /\ speed \in Table
           kept    == IF same THEN g_bad_streak ELSE 0
           agrees  == decides /\ InBand(watts, speed)
           streak  == CASE ~decides -> kept
                        [] agrees   -> 0
                        [] OTHER    -> Min({kept + 1, 2})
           verdict == CASE ~decides                          -> 0
                        [] agrees                            -> 1
                        [] decides /\ ~agrees /\ streak >= 2 -> -1
                        [] OTHER                             -> g_verdict
<1>1. /\ g_cycle' = cycle /\ g_bad_streak' = streak /\ g_verdict' = verdict
      /\ IF Speaks(g_verdict, verdict, cycle.cycling)
         THEN Publish(alert(speed, verdict, cycle.cycling))
         ELSE IF g_cycle.cycling # cycle.cycling
              THEN Publish(alert(speed, g_verdict, cycle.cycling))
              ELSE UNCHANGED retained
  BY Zenon DEF Judge
<1>2. /\ g_cycle \in Cycles /\ g_bad_streak \in 0 .. 2 /\ g_verdict \in {-1, 0, 1}
      /\ AlarmsTold
  BY DEF PlugInv, PlugSafe, PlugTypeOK, Cycles, AlarmsTold
<1>3. cycle \in Cycles
  <2>1. CASE same
    <3> DEFINE cls == IF settled THEN classify(IF fresh THEN watts ELSE NoReading, speed) ELSE 0
    <3>1. cls \in {-1, 0, 1}
      BY ClassifyType
    <3> HIDE DEF cls
    <3>2. Profiled(g_cycle, cls) \in Cycles
      BY <3>1, <1>2, ProfiledType
    <3> QED
      BY <2>1, <3>2 DEF CyclePoll, cls
  <2>2. CASE ~same
    BY <2>2, NothingIsProfile
  <2> QED
    BY <2>1, <2>2
<1>4. agrees \in BOOLEAN /\ decides \in BOOLEAN /\ (decides => fresh /\ settled)
      /\ (agrees => decides)
  BY Zenon
<1> HIDE DEF cycle, agrees, decides, same
<1>5. kept \in 0 .. 2
  BY <1>2
<1>6. streak \in 0 .. 2
  <2>1. Min({kept + 1, 2}) \in 0 .. 2
    BY <1>5, MinOfTwo
  <2> HIDE DEF kept
  <2> QED
    BY <1>4, <1>5, <2>1
<1> HIDE DEF streak
<1>7. verdict \in {-1, 0, 1} /\ (verdict # 0 => decides)
  <2>1. verdict \in {-1, 0, 1, g_verdict} /\ (~decides => verdict = 0)
    <3>1. CASE ~decides
      BY <3>1, <1>4
    <3>2. CASE decides /\ agrees
      BY <3>2
    <3>3. CASE decides /\ ~agrees /\ streak >= 2
      BY <3>3
    <3>4. CASE decides /\ ~agrees /\ ~(streak >= 2)
      BY <3>4
    <3> QED
      BY <3>1, <3>2, <3>3, <3>4
  <2> HIDE DEF verdict
  <2> QED
    BY <2>1, <1>2
<1> HIDE DEF verdict
<1>8. cycle.cycling \in BOOLEAN /\ g_cycle.cycling \in BOOLEAN
  BY <1>2, <1>3 DEF Cycles
<1>9. AlarmsTold'
  <2>1. CASE link # "up"
    BY <2>1, <1>1, <1>2 DEF Publish, AlarmsTold, AlarmNotOutlived, AlarmNotMasked
  <2>2. CASE link = "up"
    <3> SUFFICES /\ retained' \in Alerts \cup {"none"}
                 /\ retained' = "cycling" <=> cycle.cycling
                 /\ retained' = "disagree" => verdict = -1
                 /\ verdict = -1 => retained' # "ok"
      BY <1>1 DEF AlarmsTold, AlarmNotOutlived, AlarmNotMasked
    <3>1. CASE Speaks(g_verdict, verdict, cycle.cycling)
      BY <2>2, <3>1, <1>1, <1>7, <1>8, AlertTells DEF Publish
    <3>2. CASE ~Speaks(g_verdict, verdict, cycle.cycling) /\ g_cycle.cycling # cycle.cycling
      <4>1. retained' = alert(speed, g_verdict, cycle.cycling)
        BY <2>2, <3>2, <1>1 DEF Publish
      <4>2. g_verdict = -1 /\ ~cycle.cycling => verdict = -1
        BY <3>2, <1>2, <1>7 DEF Speaks
      <4>3. verdict = -1 /\ ~cycle.cycling => g_verdict = -1
        BY <3>2, <1>2, <1>7 DEF Speaks
      <4> QED
        BY <4>1, <4>2, <4>3, <1>2, <1>8, AlertTells
    <3>3. CASE ~Speaks(g_verdict, verdict, cycle.cycling) /\ g_cycle.cycling = cycle.cycling
      <4>1. retained' = retained
        BY <3>3, <1>1
      <4>2. ~cycle.cycling => (g_verdict = -1 <=> verdict = -1)
        BY <3>3, <1>2, <1>7 DEF Speaks
      <4>3. (retained = "cycling" <=> cycle.cycling) /\ retained \in Alerts \cup {"none"}
        BY <2>2, <3>3, <1>2 DEF AlarmsTold, AlarmNotOutlived, AlarmNotMasked
      <4>4. (retained = "disagree" => g_verdict = -1) /\ (g_verdict = -1 => retained # "ok")
        BY <2>2, <1>2 DEF AlarmsTold, AlarmNotOutlived, AlarmNotMasked
      <4> QED
        BY <4>1, <4>2, <4>3, <4>4
    <3> QED
      BY <3>1, <3>2, <3>3
  <2> QED
    BY <2>1, <2>2
<1> QED
  BY <1>1, <1>3, <1>4, <1>6, <1>7, <1>9

-----------------------------------------------------------------------------
LEMMA PlugInit_Inv == PlugInit => PlugInv
<1> SUFFICES ASSUME PlugInit PROVE PlugInv
  OBVIOUS
<1>1. /\ speed \in Speeds /\ g_speed_seen = Unseen /\ since = 0 /\ g_watts = NoReading
      /\ age = kStale + 1 /\ own = FALSE /\ g_verdict = 0 /\ g_bad_streak = 0
      /\ g_cycle = NothingDecided /\ link = "down" /\ retained = "none"
  BY DEF PlugInit, Unpolled
<1>2. kStale \in Nat /\ kSettle \in Nat
  BY PlugAssumption
<1>3. PlugTypeOK
  <2>1. g_cycle \in Cycles
    BY <1>1, NothingIsProfile
  <2>2. since \in 0 .. kSettle /\ age \in 0 .. kStale + 1 /\ g_bad_streak \in 0 .. 2
    BY <1>1, <1>2
  <2>3. /\ speed \in Speeds /\ g_speed_seen \in Speeds \cup {Unseen}
        /\ g_watts \in Watts \cup {NoReading} /\ g_verdict \in {-1, 0, 1}
        /\ link \in {"down", "up", "half"} /\ retained \in Alerts \cup {"none"}
        /\ own \in BOOLEAN
    BY <1>1
  <2> QED
    BY <2>1, <2>2, <2>3, Zenon DEF PlugTypeOK, Cycles
<1> QED
  BY <1>1, <1>2, <1>3
  DEF PlugInv, PlugSafe, ReadAtSpeed, AlarmNotOutlived, AlarmNotMasked, VerdictOnOwnReading

LEMMA Tick_Inv == PlugInv /\ Tick => PlugInv'
<1> SUFFICES ASSUME PlugInv, NEW gap \in {1, kLongGap}, NEW w \in Watts \cup {NoReading}, tick(gap, w)
             PROVE  PlugInv'
  BY DEF Tick
<1>1. /\ g_watts' = IF w = NoReading THEN g_watts ELSE w
      /\ age' = IF w = NoReading THEN Min({age + gap, kStale + 1}) ELSE 0
      /\ g_speed_seen' = speed /\ since' = Settling(gap)
      /\ own' = (speed = g_speed_seen /\ (own \/ w # NoReading))
      /\ Judge(w, g_watts', age' <= kStale, since' >= kSettle)
      /\ speed' = speed /\ link' = link
  BY DEF tick
<1>2. /\ kStale \in Nat /\ kSettle \in Nat /\ kStale < kSettle /\ gap \in Nat
      /\ Watts \subseteq Nat
  BY PlugAssumption
<1>3. /\ age \in 0 .. kStale + 1 /\ since \in 0 .. kSettle /\ own \in BOOLEAN
      /\ g_watts \in Watts \cup {NoReading} /\ speed \in Speeds
      /\ link \in {"down", "up", "half"} /\ ReadAtSpeed
  BY DEF PlugInv, PlugSafe, PlugTypeOK
<1>4. Min({age + gap, kStale + 1}) = IF age + gap <= kStale + 1 THEN age + gap ELSE kStale + 1
  BY <1>2, <1>3, MinOfTwo
<1>5. Min({since + gap, kSettle}) = IF since + gap <= kSettle THEN since + gap ELSE kSettle
  BY <1>2, <1>3, MinOfTwo
<1>6. /\ age' \in 0 .. kStale + 1 /\ since' \in 0 .. kSettle
      /\ speed # g_speed_seen => since' = 0
  BY <1>1, <1>2, <1>3, <1>4, <1>5 DEF Settling
<1>7. own' \in BOOLEAN /\ g_watts' \in Watts \cup {NoReading}
  <2>1. own' \in BOOLEAN
    BY <1>1, Zenon
  <2> QED
    BY <2>1, <1>1, <1>3
<1>8. ReadAtSpeed'
  <2> SUFFICES ASSUME age' <= kStale, age' < since' PROVE own'
    BY DEF ReadAtSpeed
  <2>1. speed = g_speed_seen
    BY <1>2, <1>6
  <2>2. w = NoReading => age <= kStale /\ age < since
    BY <2>1, <1>1, <1>2, <1>3, <1>4, <1>5 DEF Settling
  <2> QED
    BY <2>1, <2>2, <1>1, <1>3 DEF ReadAtSpeed
<1>9. /\ g_cycle' \in Cycles /\ g_bad_streak' \in 0 .. 2 /\ g_verdict' \in {-1, 0, 1}
      /\ g_verdict' # 0 => age' <= kStale /\ since' >= kSettle
      /\ AlarmsTold'
  <2> DEFINE fresh == age' <= kStale
             settled == since' >= kSettle
  <2>1. fresh \in BOOLEAN /\ settled \in BOOLEAN /\ Judge(w, g_watts', fresh, settled)
    BY <1>1, <1>2, <1>6
  <2> HIDE DEF fresh, settled
  <2>2. /\ g_cycle' \in Cycles /\ g_bad_streak' \in 0 .. 2 /\ g_verdict' \in {-1, 0, 1}
        /\ g_verdict' # 0 => fresh /\ settled
        /\ AlarmsTold'
    BY <2>1, <1>1, JudgeTells
  <2> QED
    BY <2>2 DEF fresh, settled
<1>10. VerdictOnOwnReading'
  BY <1>2, <1>6, <1>8, <1>9 DEF VerdictOnOwnReading, ReadAtSpeed
<1>11. PlugTypeOK'
  BY <1>1, <1>3, <1>6, <1>7, <1>9 DEF PlugTypeOK, Cycles, AlarmsTold
<1> QED
  BY <1>8, <1>9, <1>10, <1>11 DEF PlugInv, PlugSafe, AlarmsTold

LEMMA Others_Inv ==
  ASSUME PlugInv, \/ SpeedChanges \/ Connect \/ LinkDies \/ LinkNoticed \/ UNCHANGED meter_vars
  PROVE  PlugInv'
<1>1. /\ UNCHANGED plug_vars /\ speed' \in Speeds
      /\ \/ link' = link /\ retained' = retained
         \/ link' # "up" /\ retained' = retained
         \/ retained' = alert(speed, g_verdict, g_cycle.cycling)
      /\ link' \in {"down", "up", "half"}
  BY DEF SpeedChanges, Connect, LinkDies, LinkNoticed, meter_vars, PlugInv, PlugSafe, PlugTypeOK
<1>2. PlugTypeOK /\ AlarmNotOutlived /\ AlarmNotMasked /\ VerdictOnOwnReading /\ ReadAtSpeed
  BY DEF PlugInv, PlugSafe
<1>3. /\ g_speed_seen' = g_speed_seen /\ since' = since /\ g_watts' = g_watts /\ age' = age
      /\ g_verdict' = g_verdict /\ g_bad_streak' = g_bad_streak /\ g_cycle' = g_cycle /\ own' = own
  BY <1>1 DEF plug_vars
<1>4. g_verdict \in {-1, 0, 1} /\ g_cycle.cycling \in BOOLEAN /\ retained \in Alerts \cup {"none"}
  BY <1>2 DEF PlugTypeOK
<1> DEFINE told == alert(speed, g_verdict, g_cycle.cycling)
<1>5. /\ told \in Alerts /\ (told = "cycling" <=> g_cycle.cycling)
      /\ told = "disagree" => g_verdict = -1
      /\ told = "ok" => g_verdict = 1
  BY <1>4, AlertTells
<1> HIDE DEF told
<1>6. retained' \in {retained, told}
  BY <1>1 DEF told
<1>7. PlugTypeOK'
  BY <1>1, <1>2, <1>3, <1>4, <1>5, <1>6 DEF PlugTypeOK
<1>8. link' = "up" => retained' = told \/ (link = "up" /\ retained' = retained)
  BY <1>1 DEF told
<1>9. AlarmNotOutlived' /\ AlarmNotMasked'
  BY <1>2, <1>3, <1>4, <1>5, <1>8 DEF AlarmNotOutlived, AlarmNotMasked
<1>10. VerdictOnOwnReading' /\ ReadAtSpeed'
  BY <1>2, <1>3 DEF VerdictOnOwnReading, ReadAtSpeed
<1> QED
  BY <1>7, <1>9, <1>10 DEF PlugInv, PlugSafe

LEMMA Restarts_Inv == PlugInv /\ Restarts => PlugInv'
<1> SUFFICES ASSUME PlugInv, Restarts PROVE PlugInv'
  OBVIOUS
<1>1. /\ speed' = speed /\ g_speed_seen' = Unseen /\ since' = 0 /\ g_watts' = NoReading
      /\ age' = kStale + 1 /\ own' = FALSE /\ g_verdict' = 0 /\ g_bad_streak' = 0
      /\ g_cycle' = NothingDecided /\ link' = "down" /\ retained' = retained
  BY DEF Restarts
<1>2. kStale \in Nat /\ kSettle \in Nat
  BY PlugAssumption
<1>3. speed \in Speeds /\ retained \in Alerts \cup {"none"}
  BY DEF PlugInv, PlugSafe, PlugTypeOK
<1>4. PlugTypeOK'
  <2>1. g_cycle' \in Cycles
    BY <1>1, NothingIsProfile
  <2>2. since' \in 0 .. kSettle /\ age' \in 0 .. kStale + 1 /\ g_bad_streak' \in 0 .. 2
    BY <1>1, <1>2
  <2>3. /\ speed' \in Speeds /\ g_speed_seen' \in Speeds \cup {Unseen}
        /\ g_watts' \in Watts \cup {NoReading} /\ g_verdict' \in {-1, 0, 1}
        /\ link' \in {"down", "up", "half"} /\ retained' \in Alerts \cup {"none"}
        /\ own' \in BOOLEAN
    BY <1>1, <1>3
  <2> QED
    BY <2>1, <2>2, <2>3, Zenon DEF PlugTypeOK, Cycles
<1> QED
  BY <1>1, <1>2, <1>4
  DEF PlugInv, PlugSafe, ReadAtSpeed, AlarmNotOutlived, AlarmNotMasked, VerdictOnOwnReading

(* Over a working connection no alarm outlives what it tells of, cycling is told *)
(* while it lasts and a disagreement never passes for an "ok", and a verdict     *)
(* rests on a reading at its own speed (net/plug.cpp tick, publish_alert;        *)
(* plug_cycle.h), whatever the meter, the network, the user and the supply do.  *)
THEOREM PlugAlwaysSafe == PlugSpec => []PlugSafe
<1>1. PlugInv /\ [PlugNext]_meter_vars => PlugInv'
  <2> SUFFICES ASSUME PlugInv, [PlugNext]_meter_vars PROVE PlugInv'
    OBVIOUS
  <2>1. CASE Tick
    BY <2>1, Tick_Inv
  <2>2. CASE SpeedChanges \/ Connect \/ LinkDies \/ LinkNoticed \/ UNCHANGED meter_vars
    BY <2>2, Others_Inv
  <2>3. CASE Restarts
    BY <2>3, Restarts_Inv
  <2> QED
    BY <2>1, <2>2, <2>3 DEF PlugNext
<1>2. PlugInv => PlugSafe
  BY DEF PlugInv
<1> QED
  BY <1>1, <1>2, PlugInit_Inv, PTL DEF PlugSpec
=============================================================================
