------------------------------- MODULE EventLog -------------------------------
(****************************************************************************)
(* The flight recorder (system/eventlog.cpp over system/eventlog_ring.h):   *)
(* the line ring with its flush ledger, appended to by the loop and by the   *)
(* network event task, and drained to the card by flush_tick.  The spinlock  *)
(* covers the ring, never the SD write in between, so lines may arrive - and *)
(* wrap the ring - while one of them is being written.  A line is named by   *)
(* its lifetime index in this boot.                                          *)
(****************************************************************************)
EXTENDS SdCard, FiniteSets, Sequences

CONSTANTS
  kMaxLines,   \* lines the ring holds (24)
  kBatch,      \* lines flush_tick writes per call (8)
  kEvents      \* bound: outside events in one behaviour

ASSUME RingAssumption == kMaxLines \in Nat \ {0} /\ kBatch \in Nat \ {0} /\ kEvents \in Nat

VARIABLES
  ring,       \* g_ring: buf, head, n, total, flushed, lost
  batch,      \* lines this flush_tick may still take; 0 outside of it
  taken,      \* the line copied out and not yet acknowledged: {} or one
  on_card,    \* history: what was written of this boot, in order: the line, and
              \* whether the whole of it; rotated, purged or formatted away later
  restarting, \* a purge is done: flush once more, then restart
  g_written,  \* bootlog: this boot has its line in the file of boots
  events      \* outside events left

log_vars == <<ring, batch, taken, on_card, restarting, g_written>>
vars     == <<sd_vars, log_vars, events>>

Unused == -1

EmptyRing == [buf |-> [i \in 0 .. kMaxLines - 1 |-> Unused], head |-> 0, n |-> 0,
              total |-> 0, flushed |-> 0, lost |-> 0]

append(r) ==
  LET overwrites == r.n = kMaxLines /\ r.total - r.flushed >= kMaxLines
  IN  [buf     |-> [r.buf EXCEPT ![r.head] = r.total],
       head    |-> (r.head + 1) % kMaxLines,
       n       |-> IF r.n < kMaxLines THEN r.n + 1 ELSE r.n,
       total   |-> r.total + 1,
       flushed |-> IF overwrites THEN r.flushed + 1 ELSE r.flushed,
       lost    |-> IF overwrites THEN r.lost + 1 ELSE r.lost]

line(r, i)         == r.buf[(r.head + kMaxLines - r.n + i) % kMaxLines]
unflushed(r)       == r.total - r.flushed
first_unflushed(r) == r.n - unflushed(r)
mark_flushed(r)    == [r EXCEPT !.flushed = @ + 1]

LogTypeOK ==
  /\ SdTypeOK
  /\ ring.buf \in [0 .. kMaxLines - 1 -> Nat \cup {Unused}]
  /\ ring.head \in 0 .. kMaxLines - 1 /\ ring.n \in 0 .. kMaxLines
  /\ ring.total \in Nat /\ ring.flushed \in Nat /\ ring.lost \in Nat
  /\ ring.flushed <= ring.total /\ ring.lost <= ring.flushed
  /\ batch \in 0 .. kBatch
  /\ taken = {} \/ \E s, l \in 0 .. ring.total - 1 : taken = {[seq |-> s, line |-> l]}
  /\ taken # {} => batch > 0
  /\ on_card \in Seq([line : Nat, whole : BOOLEAN]) /\ restarting \in BOOLEAN /\ g_written \in BOOLEAN
  /\ events \in 0 .. kEvents

(* setup() has logged the boot line by the time the loop runs.              *)
LogInit ==
  /\ SdInit
  /\ ring = append(EmptyRing)
  /\ batch = 0 /\ taken = {} /\ on_card = <<>>
  /\ restarting = FALSE /\ g_written = FALSE
  /\ events = kEvents

Outside  == events > 0 /\ events' = events - 1
NoFlush  == batch = 0
Tells(k) == ring' = CASE k = 1 -> append(ring)
                      [] k = 2 -> append(append(ring))
                      [] k = 3 -> append(append(append(ring)))

-----------------------------------------------------------------------------
(* flush_tick: copy the oldest line owed, write it, acknowledge it.         *)
FlushBegins ==
  /\ NoFlush /\ ~restarting /\ op = "none" /\ g_ok /\ unflushed(ring) > 0
  /\ batch' = kBatch
  /\ UNCHANGED <<sd_vars, ring, taken, on_card, restarting, g_written, events>>

Take ==
  /\ batch > 0 /\ taken = {} /\ op = "none"
  /\ IF unflushed(ring) = 0
     THEN batch' = 0 /\ UNCHANGED <<sd_vars, taken>>
     ELSE /\ taken' = {[seq |-> ring.flushed, line |-> line(ring, first_unflushed(ring))]}
          /\ Touches("append")
          /\ UNCHANGED batch
  /\ UNCHANGED <<ring, on_card, restarting, g_written, events>>

(* A write is refused by a dead card; by one that answers, a full card or a  *)
(* bad contact, as an outside event.                                        *)
Refused == IF card = "dead" THEN UNCHANGED events ELSE Outside

(* append_event_line: the whole line is in the file, a full file put aside    *)
(* first; or the mount is gone, the batch with it, and the file may have got  *)
(* a piece of the line.                                                      *)
Wrote(whole) == \E t \in taken : on_card' = Append(on_card, [line |-> t.line, whole |-> whole])

Written ==
  /\ \/ /\ TouchEnds("append", TRUE)
        /\ Wrote(TRUE)
        /\ UNCHANGED <<taken, batch, events>>
     \/ /\ TouchEnds("append", FALSE) /\ Refused
        /\ Wrote(FALSE) \/ UNCHANGED on_card
        /\ taken' = {} /\ batch' = 0
  /\ UNCHANGED <<ring, restarting, g_written>>

\* Wrong variant: the batch goes on without an acknowledgement.
Acknowledge_never ==
  /\ taken # {} /\ op = "none"
  /\ UNCHANGED ring
  /\ taken' = {} /\ batch' = batch - 1
  /\ UNCHANGED <<sd_vars, on_card, restarting, g_written, events>>

Acknowledge ==
  /\ taken # {} /\ op = "none"
  /\ ring' = IF \E t \in taken : t.seq = ring.flushed THEN mark_flushed(ring) ELSE ring
  /\ taken' = {} /\ batch' = batch - 1
  /\ UNCHANGED <<sd_vars, on_card, restarting, g_written, events>>

-----------------------------------------------------------------------------
(* The other operations of the loop on the card, and the lines they leave   *)
(* on the tape; tight memory is an outside event.                           *)
OfTheLoop(A) == A /\ NoFlush /\ ~restarting /\ UNCHANGED log_vars

Says(A, k) == A /\ Tells(k) /\ UNCHANGED <<batch, taken, on_card, restarting, g_written>>

LoopTick ==
  /\ UNCHANGED events
  /\ \/ OfTheLoop(retry_tick(g_net_up)) \/ OfTheLoop(on_network_up)
     \/ OfTheLoop(MinutePasses)

Mounts == \/ Says(MountEnds("roomy"), 1) /\ UNCHANGED events
          \/ \E heap \in {"tight", "full"} : Says(MountEnds(heap), 1) /\ Outside

ByHand == Outside /\ OfTheLoop(TestBegins \/ FormatBegins \/ Touches("purge"))

TestOrFormatEnds ==
  /\ UNCHANGED events
  /\ \/ OfTheLoop(TestMounts)
     \/ \E heap \in {"roomy", "tight", "full"} : Says(TestEnds(heap), 1)
     \/ \E heap \in {"roomy", "full"} : Says(FormatEnds(heap), 1)
     \/ Says(FormatEnds("tight"), IF card = "dead" THEN 1 ELSE 2)

(* handle_sd_purge, whatever it deleted, ends with lines, a flush_tick and a  *)
(* restart.                                                                 *)
PurgeEnds ==
  /\ \E well \in BOOLEAN : TouchEnds("purge", well)
  /\ \E k \in 1 .. 3 : Tells(k)
  /\ batch' = kBatch /\ restarting' = TRUE
  /\ UNCHANGED <<taken, on_card, g_written, events>>

(* log_sample every five minutes, the readers behind the console, and the   *)
(* one line bootlog::tick adds to the file of boots.                        *)
Rows == {"sample", "read", "file"}

RowsBegin == /\ \/ \E o \in Rows : OfTheLoop(Touches(o))
                \/ ~g_written /\ OfTheLoop(Touches("boots"))
             /\ UNCHANGED events

RowsEnd == \/ \E o \in Rows : OfTheLoop(TouchEnds(o, TRUE)) /\ UNCHANGED events
           \/ \E o \in Rows \cup {"boots"} : OfTheLoop(TouchEnds(o, FALSE)) /\ Refused
           \/ /\ TouchEnds("boots", TRUE)
              /\ g_written' = TRUE /\ Tells(1)
              /\ UNCHANGED <<batch, taken, on_card, restarting, events>>

(* A line from anywhere else: the network event task at any moment, the     *)
(* loop between two operations.                                             *)
log == Outside /\ Says(UNCHANGED sd_vars, 1)

(* The ring is RAM: a death loses what had not reached the card.            *)
Death(how) ==
  /\ Dies(how)
  /\ ring' = append(EmptyRing)
  /\ batch' = 0 /\ taken' = {} /\ on_card' = <<>>
  /\ restarting' = FALSE /\ g_written' = FALSE

RestartsAfterPurge ==
  /\ restarting /\ NoFlush /\ op = "none"
  /\ Death("other") /\ UNCHANGED events

LogNext ==
  \/ LoopTick \/ RowsBegin \/ RowsEnd
  \/ Mounts \/ ByHand \/ TestOrFormatEnds \/ PurgeEnds \/ RestartsAfterPurge
  \/ FlushBegins \/ Take \/ Acknowledge
  \/ Written
  \/ log
  \/ \E how \in Manners : Death(how) /\ Outside
  \/ CardChanges /\ Outside /\ UNCHANGED log_vars

LogSpec == LogInit /\ [][LogNext]_vars

FlushStep == Take \/ Acknowledge \/ Written

(* Every pass of the loop comes by retry_tick and flush_tick; time passes;   *)
(* an operation in flight, a batch and a handler come to their end.         *)
LogFairSpec ==
  /\ LogSpec
  /\ WF_vars(OfTheLoop(MinutePasses) /\ UNCHANGED events)
  /\ SF_vars(OfTheLoop(retry_tick(g_net_up)) /\ UNCHANGED events)
  /\ SF_vars(FlushBegins)
  /\ WF_vars(FlushStep)
  /\ WF_vars(RowsEnd \/ Mounts \/ TestOrFormatEnds \/ PurgeEnds \/ RestartsAfterPurge)

-----------------------------------------------------------------------------
(* Properties.                                                              *)

OnCard == {e.line : e \in {on_card[i] : i \in {j \in DOMAIN on_card : on_card[j].whole}}}

(* The ledger never drifts from the ring: every line still owed to the card *)
(* is still retained, exactly where flush_tick will look for it.            *)
LedgerInRing ==
  \A k \in 0 .. unflushed(ring) - 1 :
     /\ first_unflushed(ring) >= 0
     /\ line(ring, first_unflushed(ring) + k) = ring.flushed + k

(* No line vanishes silently, also when the ring wraps during a write: one  *)
(* the ledger has passed was written whole, or it was overwritten and is     *)
(* among those counted lost.                                                *)
EveryLineAccounted ==
  LET missing == {s \in 0 .. ring.flushed - 1 : s \notin OnCard}
  IN  /\ Cardinality(missing) <= ring.lost
      /\ \A i \in 0 .. ring.n - 1 : line(ring, i) \notin missing

(* A boot's story is written in order, through write failures and       *)
(* remounts in the middle of a batch: no whole line twice, and a torn one    *)
(* only ahead of the line itself.                                           *)
FileInOrder ==
  \A i, j \in DOMAIN on_card :
     i < j => \/ on_card[i].line < on_card[j].line
              \/ on_card[i].line = on_card[j].line /\ ~on_card[i].whole

(* Once the card answers and is not given up, every line still retained     *)
(* reaches it.                                                              *)
Drains ==
  <>[](card = "answers" /\ ~g_quarantined /\ g_fails < kFailCap) => <>[](unflushed(ring) = 0)

(* The recorder's safety: every line is retained, written in order, or counted *)
(* lost, through torn writes, remounts and deaths.                           *)
LogSafe == LogTypeOK /\ LedgerInRing /\ EveryLineAccounted /\ FileInOrder
=============================================================================
