-------------------------------- MODULE Mirror --------------------------------
(****************************************************************************)
(* What a page that mirrors one device promises, whatever the sources it     *)
(* reads and whatever order their frames arrive in: it shows nothing the     *)
(* device never was, never goes back to an earlier boot or an earlier second *)
(* of one boot, and between two seconds never trades a newer state for an    *)
(* older one.  Two frames of one second are in no order: uptime counts       *)
(* seconds.                                                                  *)
(****************************************************************************)
EXTENDS Naturals

CONSTANT NoFrame   \* view.state before the first answer; no frame

VARIABLES dev,     \* the device now: its boot count, its uptime, the revision of its state
          shown    \* view.state: the frame the page is painted from

mirror_vars == <<dev, shown>>

Frame == [boots : Nat, up : Nat, rev : Nat]

Later(f, g) == f.boots > g.boots \/ (f.boots = g.boots /\ f.up > g.up)

(* f comes after g in the one history both were taken from.                 *)
Consistent(f, g) == Later(f, g) => f.rev >= g.rev

Past(f, d) == ~Later(f, d) /\ f.rev <= d.rev

-----------------------------------------------------------------------------
MirrorInit == dev \in Frame /\ shown = NoFrame

(* Time passes, the state changes, the device restarts: none of it undone.  *)
Advance == /\ dev' \in Frame
           /\ ~Later(dev, dev')
           /\ dev'.rev >= dev.rev
           /\ UNCHANGED shown

Look == /\ shown' \in Frame
        /\ Past(shown', dev')
        /\ shown # NoFrame => ~Later(shown, shown') /\ Consistent(shown', shown)
        /\ dev' = dev

MirrorNext == Advance \/ Look

MirrorSpec == MirrorInit /\ [][MirrorNext]_mirror_vars
=============================================================================
