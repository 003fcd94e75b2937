------------------------------- MODULE MCInstall -------------------------------
(* Model checking Install: a device one release behind, release lists with a  *)
(* backported fix dated last, a candidate, a factory image alone, a tag that  *)
(* does not parse and one past the packing's decades.                         *)
EXTENDS Install

V(a, b, c) == [major |-> a, minor |-> b, patch |-> c]

Old    == V(1, 12, 999)
New    == V(1, 13, 0)
Newer  == V(2, 0, 0)
Newest == V(2000, 999, 999)
Beyond == V(1, 12, 1000)   \* packs to the code of New

Published(tag, stable, assets) == [tag |-> tag, stable |-> stable, assets |-> assets]
Full == <<"factory", "ota", "sum">>

MCFirst == [fw |-> Old, genuine |-> TRUE]
MCFiles == {[fw |-> Newer, genuine |-> FALSE]}
MCFeeds == {<< Published(Beyond, TRUE, Full), Published(New, TRUE, <<"factory">>) >>,
            << Published(Newest, FALSE, Full), Published(New, TRUE, Full),
               Published(Newer, TRUE, Full), Published(Unparsed, TRUE, Full) >>}
MCFirstFeeds == {f \in MCFeeds : Len(f) = 4}   \* the second of them

(* The reduction of update.ts as it is written, over the feeds' releases in   *)
(* every order: the release it ends with is the one chosen.                  *)
latest_folded(usable) ==
  FoldLeft(LAMBDA best, r : IF versionCode(r.tag) > versionCode(best.tag) THEN r ELSE best,
           Head(usable), Tail(usable))

ASSUME FoldAgrees ==
  \A n \in 1 .. 3 : \A s \in [1 .. n -> UNION {ToSet(f) : f \in MCFeeds}] :
    latest_of(s, 1 .. n) = latest_folded(s)
=============================================================================
