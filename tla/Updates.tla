-------------------------------- MODULE Updates --------------------------------
(****************************************************************************)
(* The browser's judgement of releases (src/web/src: version.ts, update.ts): *)
(* which release is the newest the device may be offered, and what its       *)
(* assets hold.  Tags are records of their three numbers, or Unparsed.       *)
(****************************************************************************)
EXTENDS Integers, Sequences, SequencesExt

CONSTANT Unparsed   \* a tag that is no plain three-part version

Version == [major : Nat, minor : Nat, patch : Nat]
Tag     == Version \cup {Unparsed}

MAX_MAJOR == 2000
MAX_MINOR == 999
MAX_PATCH == 999

Null == -1

(* One increasing integer for a version, Null beyond the packing's decades.  *)
versionCode_unbounded(tag) ==
  IF tag = Unparsed THEN Null ELSE tag.major * 1000000 + tag.minor * 1000 + tag.patch

versionCode(tag) ==
  IF \/ tag = Unparsed
     \/ tag.major > MAX_MAJOR \/ tag.minor > MAX_MINOR \/ tag.patch > MAX_PATCH
  THEN Null
  ELSE tag.major * 1000000 + tag.minor * 1000 + tag.patch

compare(running, available) ==
  IF Null \in {running, available} THEN "unknown"
  ELSE CASE available > running -> "newer"
         [] available = running -> "current"
         [] available < running -> "older"

isUpgrade(running, tag) == compare(versionCode(running), versionCode(tag))

(* The factory image is never taken for the OTA one.                        *)
Release == [tag : Tag, stable : BOOLEAN, assets : Seq({"ota", "factory", "sum"})]

pickFirmwareAsset(assets) == \E i \in DOMAIN assets : assets[i] = "ota"

(* The highest stable release, and the first of several such; a version that *)
(* does not parse is below all that do.                                      *)
latest_of(releases, usable) ==
  LET code(i) == versionCode(releases[i].tag)
  IN  releases[CHOOSE i \in usable : \A j \in usable :
                 code(j) < code(i) \/ (code(j) = code(i) /\ i <= j)]

evaluate(running, releases) ==
  LET usable  == {i \in DOMAIN releases : releases[i].stable}
      latest  == latest_of(releases, usable)
      verdict == isUpgrade(running, latest.tag)
  IN  IF usable = {} THEN [kind |-> "unknown", latest |-> Unparsed]
      ELSE [kind   |-> CASE verdict = "unknown" -> "unknown"
                         [] verdict = "newer" /\ pickFirmwareAsset(latest.assets) -> "available"
                         [] verdict = "newer" /\ ~pickFirmwareAsset(latest.assets) -> "no-binary"
                         [] verdict = "older"   -> "ahead"
                         [] verdict = "current" -> "up-to-date",
            latest |-> latest.tag]
=============================================================================
