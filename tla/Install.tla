-------------------------------- MODULE Install --------------------------------
(****************************************************************************)
(* Updating the board from the console (src/web/src: app.ts runUpdateCheck   *)
(* and loadDevice, settings.ts updateControl and installControl, updater.ts, *)
(* ota.ts).  The page checks the releases once, offers the newest, and an    *)
(* install downloads it, verifies it, uploads it and watches the board come  *)
(* back.  The board boots what was staged, confirms it or rolls it back      *)
(* (OtaRollback); files are uploaded by hand too, and releases keep coming.   *)
(* Of an image there is the version it reports and whether its bytes are the  *)
(* ones published: a damaged download and a build of one's own are not.       *)
(****************************************************************************)
EXTENDS Updates

CONSTANTS
  None,
  Feeds,        \* the release lists the repository may publish, newest by date first
  FirstFeeds,   \* those it may have published when the page is opened
  FirstImage,   \* what the board runs when the page is opened
  FirstConf,    \* the image it confirmed last by then, or None
  Files,        \* images in the user's files
  MaxBoots, MaxOutside, MaxFaults, MaxChecks   \* bounds

Image  == [fw : Version, genuine : BOOLEAN]
Status == [kind : {"unknown", "available", "no-binary", "ahead", "up-to-date"}, latest : Tag]

ASSUME InstallAssumption ==
  /\ Unparsed \notin Version
  /\ None \notin Tag \cup Status \cup Image \cup [fw : Version, boots : Nat]
  /\ Feeds \subseteq Seq(Release) /\ FirstFeeds \subseteq Feeds
  /\ FirstImage \in Image /\ FirstConf \in Image \cup {None} /\ Files \subseteq Image
  /\ MaxBoots \in Nat /\ MaxOutside \in Nat /\ MaxFaults \in Nat /\ MaxChecks \in Nat

VARIABLES
  feed, feeds,    \* the release list; bound: how often it has changed
  board,          \* the image it runs, its boots, the image confirmed last (conf_sha);
                  \* the image in the other slot; the one staged
  picked,         \* bound: files picked by hand
  faults,         \* bound: requests that failed
  seen,           \* view.state: what the page last heard of the board
  info,           \* view.info: "none", "out", "retry", "known"
  update,         \* view.update
  checks,         \* versions the checks now out were started for
  screen,         \* view.screen
  row,            \* the UPDATE row as last painted: a status or "checking", or None
  installBox,     \* the release the install button was built for
  booting,        \* boot() has not returned
  late,           \* history: the board was first heard after facts and boot() were over
  job,            \* the install: where it is, its release, the image, the boot count;
                  \* history: was that count the board's own at the upload, with nothing
                  \* staged by hand since (ours), and has the board booted the release
  said,           \* the progress line
  manual,         \* uploadFirmware: where it is, and the file
  warned          \* history: images let through by hand as "NOT VERIFIED"

board_vars == <<board, picked>>
page_vars  == <<seen, info, update, checks, booting, late>>
row_vars   == <<screen, row, installBox>>
job_vars   == <<job, said>>
hand_vars  == <<manual, warned>>
install_vars == <<feed, feeds, board_vars, faults, page_vars, row_vars, job_vars, hand_vars>>

Idle == [pc |-> "idle", release |-> None, image |-> None, boots |-> 0, ours |-> FALSE,
         tried |-> FALSE]
Rest == [pc |-> "idle", file |-> None]

Available(st) == st # None /\ st.kind = "available"
Checking      == [kind |-> "checking", latest |-> Unparsed]

AsPublished(version) == [fw |-> version, genuine |-> TRUE]
Confirmed(b)         == b.conf = b.runs

-----------------------------------------------------------------------------
(* paintSettings: nothing without a state, nothing while a field is being    *)
(* edited; the install button is built once, for the release offered then.   *)
paintSettings(editing) ==
  IF screen' = "settings" /\ seen' # None /\ ~editing
  THEN /\ row' = IF update' = None THEN Checking ELSE update'
       /\ installBox' = IF installBox = None /\ Available(update') THEN update'.latest
                                                                  ELSE installBox
  ELSE UNCHANGED <<row, installBox>>

(* runUpdateCheck: the running version is the one seen when it starts.       *)
runUpdateCheck(force) ==
  IF info' = "known" /\ seen # None /\ (force \/ update = None)
  THEN checks' = checks \cup {seen.fw} ELSE UNCHANGED checks

\* Wrong variant: the facts, once they arrive, are only painted.
Judge_at_boot == IF info = "known" THEN runUpdateCheck(FALSE) ELSE UNCHANGED checks

Judge == runUpdateCheck(FALSE)

-----------------------------------------------------------------------------
(* The board and the rest of the world.                                     *)
Publish ==
  /\ feeds + picked < MaxOutside /\ feeds' = feeds + 1
  /\ feed' \in Feeds \ {feed}
  /\ UNCHANGED <<board_vars, faults, page_vars, row_vars, job_vars, hand_vars>>

BoardReboots ==
  /\ board.boots < MaxBoots
  /\ board' = IF board.staged = None THEN [board EXCEPT !.boots = @ + 1]
              ELSE [runs |-> board.staged, boots |-> board.boots + 1, conf |-> board.conf,
                    spare |-> board.runs, staged |-> None]
  /\ job' = [job EXCEPT !.tried = @ \/ (job.pc = "watch" /\ board.staged = job.image)]
  /\ UNCHANGED <<feed, feeds, picked, faults, page_vars, row_vars, said, hand_vars>>

BoardConfirms ==
  /\ ~Confirmed(board)
  /\ board' = [board EXCEPT !.conf = board.runs]
  /\ UNCHANGED <<feed, feeds, picked, faults, page_vars, row_vars, job_vars, hand_vars>>

(* The image it goes back to counts as confirmed only if it was the last to    *)
(* be so.                                                                    *)
BoardRollsBack ==
  /\ ~Confirmed(board) /\ board.staged = None /\ board.boots < MaxBoots
  /\ board' = [board EXCEPT !.runs = board.spare, !.spare = board.runs, !.boots = @ + 1]
  /\ UNCHANGED <<feed, feeds, picked, faults, page_vars, row_vars, job_vars, hand_vars>>

-----------------------------------------------------------------------------
(* The page.                                                                *)
Hear ==
  /\ seen' = [fw |-> board.runs.fw, boots |-> board.boots]
  /\ seen' # seen
  /\ late' = (late \/ (seen = None /\ info = "known" /\ ~booting))
  /\ UNCHANGED <<feed, feeds, board_vars, faults, info, update, checks, booting, screen>>
  /\ UNCHANGED <<job_vars, hand_vars>>
  /\ \E editing \in BOOLEAN : paintSettings(editing)

DeviceAnswered ==
  /\ info = "out" /\ info' = "known"
  /\ Judge
  /\ UNCHANGED <<feed, feeds, board_vars, faults, seen, update, booting, late, screen>>
  /\ UNCHANGED <<job_vars, hand_vars>>
  /\ \E editing \in BOOLEAN : paintSettings(editing)

DeviceFailed ==
  /\ info = "out" /\ faults < MaxFaults
  /\ info' = "retry" /\ faults' = faults + 1
  /\ UNCHANGED <<feed, feeds, board_vars, seen, update, checks, booting, late, row_vars, job_vars, hand_vars>>

RetryDevice ==
  /\ info = "retry" /\ info' = "out"
  /\ UNCHANGED <<feed, feeds, board_vars, faults, seen, update, checks, booting, late, row_vars>>
  /\ UNCHANGED <<job_vars, hand_vars>>

(* boot() waits for one loadDevice, a poll and the climate, answered or not,  *)
(* and then checks for an update.                                            *)
BootEnds ==
  /\ booting /\ (info = "out" => faults > 0)
  /\ IF seen = None THEN faults < MaxFaults /\ faults' = faults + 1 ELSE faults' = faults
  /\ booting' = FALSE /\ info' = info
  /\ Judge
  /\ UNCHANGED <<feed, feeds, board_vars, seen, update, late, row_vars, job_vars, hand_vars>>

(* The row's "Check again".                                                 *)
Recheck ==
  /\ screen = "settings" /\ row # None /\ Cardinality(checks) < MaxChecks /\ info' = info
  /\ runUpdateCheck(TRUE) /\ checks' # checks
  /\ UNCHANGED <<feed, feeds, board_vars, faults, seen, update, booting, late, row_vars, job_vars, hand_vars>>

(* A failed fetch is a verdict too.                                         *)
CheckDone(running) ==
  /\ running \in checks /\ checks' = checks \ {running}
  /\ \/ update' = evaluate(running, feed) /\ faults' = faults
     \/ /\ update' = [kind |-> "unknown", latest |-> Unparsed]
        /\ faults < MaxFaults /\ faults' = faults + 1
  /\ UNCHANGED <<feed, feeds, board_vars, seen, info, booting, late, screen, job_vars, hand_vars>>
  /\ \E editing \in BOOLEAN : paintSettings(editing)

setScreen ==
  /\ screen' = IF screen = "console" THEN "settings" ELSE "console"
  /\ UNCHANGED <<feed, feeds, board_vars, faults, page_vars, job_vars, hand_vars>>
  /\ paintSettings(FALSE)

-----------------------------------------------------------------------------
(* The one-click install: installControl's onclick, then installUpdate.      *)
Step(pc) == job' = [job EXCEPT !.pc = pc] /\ UNCHANGED said
Ends(words) == job' = Idle /\ said' = words
Undisturbed == UNCHANGED <<feed, feeds, picked, page_vars, row_vars, hand_vars>>

\* Wrong variant: the button is given back where the last line is said.
Rejects_then == Step("rejected")

(* An error nothing catches: the line stays, the button is given back.       *)
Rejects == Ends(said)

Click ==
  /\ screen = "settings" /\ Available(row) /\ job.pc = "idle" /\ info = "known"
  /\ job' = [Idle EXCEPT !.pc = "image", !.release = installBox] /\ said' = "working"
  /\ Undisturbed /\ UNCHANGED <<board, faults>>

(* The image: out of reach, not on the channel yet, broken off, or here, as   *)
(* it was published or not.                                                  *)
Download ==
  /\ job.pc = "image"
  /\ \/ \E genuine \in BOOLEAN :
          /\ job' = [job EXCEPT !.pc = "verify",
                                !.image = [fw |-> job.release, genuine |-> genuine]]
          /\ genuine \/ faults < MaxFaults
          /\ faults' = (IF genuine THEN faults ELSE faults + 1) /\ UNCHANGED said
     \/ faults < MaxFaults /\ faults' = faults + 1 /\ (Ends("no verdict") \/ Rejects)
  /\ Undisturbed /\ UNCHANGED board

\* Wrong variant: without a published checksum there is nothing to compare.
Verified_unsummed(sum) == sum = "none" \/ job.image.genuine

Verified(sum) == sum = "published" /\ job.image.genuine

(* No published checksum, or another one: nothing is sent.  The boot count    *)
(* is that of the state last seen.                                           *)
Verify ==
  /\ job.pc = "verify"
  /\ \/ \E sum \in {"published", "none"}, token \in BOOLEAN :
          IF Verified(sum) /\ token
          THEN job' = [job EXCEPT !.pc = "send", !.boots = seen.boots] /\ UNCHANGED said
          ELSE Ends("no verdict")
     \/ Rejects
  /\ Undisturbed /\ UNCHANGED <<board, faults>>

(* The board stages the image and answers; or refuses the token, once more   *)
(* asked for; or reports an error; or the answer is lost, which nothing      *)
(* catches.                                                                  *)
Upload ==
  /\ job.pc = "send"
  /\ \/ /\ board' = [board EXCEPT !.staged = job.image]
        /\ job' = [job EXCEPT !.pc = "watch", !.ours = job.boots = board.boots]
        /\ UNCHANGED <<said, faults>>
     \/ /\ faults < MaxFaults /\ faults' = faults + 1
        /\ \/ (Ends("no verdict") \/ Rejects) /\ board' = board
           \/ Rejects /\ board' = [board EXCEPT !.staged = job.image]
  /\ Undisturbed

(* What api/state answers.                                                  *)
Polled == [fw |-> board.runs.fw, boots |-> board.boots, confirmed |-> Confirmed(board)]

judgeReboot_by_image(boots, release, s) ==
  CASE s.fw # release -> "rolled back"
    [] s.fw = release /\ s.confirmed -> "confirmed"
    [] OTHER -> "unconfirmed"

judgeReboot(boots, release, s) ==
  CASE s.boots <= boots -> "waiting"
    [] s.boots > boots /\ s.fw = release /\ s.confirmed -> "confirmed"
    [] s.boots > boots /\ s.fw = release /\ ~s.confirmed -> "unconfirmed"
    [] OTHER -> "rolled back"

Watch ==
  /\ job.pc = "watch"
  /\ LET v == judgeReboot(job.boots, job.release, Polled)
     IN  IF v \in {"confirmed", "rolled back"}
         THEN said' = v /\ job' = [job EXCEPT !.pc = "idle"]
         ELSE v = "unconfirmed" /\ said # v /\ said' = v /\ job' = job
  /\ Undisturbed /\ UNCHANGED <<board, faults>>

(* Three minutes without a confirmation.                                    *)
Deadline ==
  /\ job.pc = "watch" /\ Ends("no verdict")
  /\ Undisturbed /\ UNCHANGED <<board, faults>>

-----------------------------------------------------------------------------
(* The upload by hand, of a file of the user's or of the one the row links to *)
(* ("download .bin").                                                        *)
Downloads == IF Available(row) THEN {AsPublished(row.latest)} ELSE {}

Pick ==
  /\ screen = "settings" /\ manual.pc = "idle" /\ feeds + picked < MaxOutside
  /\ \E file \in Files \cup Downloads : manual' = [pc |-> "verify", file |-> file]
  /\ picked' = picked + 1
  /\ UNCHANGED <<feed, feeds, board, faults, page_vars, row_vars, job_vars, warned>>

\* Wrong variant: the version is compared, not the bytes.
Matches_version(file) == file.fw = update.latest

Matches(file) == file = AsPublished(update.latest)

(* Compared with the offered release if one is offered and its checksum can  *)
(* be had; if not, the file goes with the words "NOT VERIFIED".              *)
verifyImage ==
  /\ manual.pc = "verify"
  /\ \/ \E sum \in BOOLEAN :
          IF Available(update) /\ sum
          THEN /\ manual' = IF Matches(manual.file) THEN [manual EXCEPT !.pc = "send"] ELSE Rest
               /\ UNCHANGED warned
          ELSE manual' = [manual EXCEPT !.pc = "send"] /\ warned' = warned \cup {manual.file}
     \/ manual' = Rest /\ UNCHANGED warned     \* it could not be hashed
  /\ UNCHANGED <<feed, feeds, board_vars, faults, page_vars, row_vars, job_vars>>

(* A failed upload may have been staged, its answer lost.                    *)
uploadFirmware ==
  /\ manual.pc = "send" /\ manual' = Rest
  /\ \/ faults' = faults
     \/ faults < MaxFaults /\ faults' = faults + 1
  /\ \/ /\ board' = [board EXCEPT !.staged = manual.file]
        /\ job' = [job EXCEPT !.ours = FALSE]
     \/ faults' # faults /\ board' = board /\ job' = job
  /\ UNCHANGED <<feed, feeds, picked, page_vars, row_vars, said, warned>>

-----------------------------------------------------------------------------
InstallInit ==
  /\ feed \in FirstFeeds /\ feeds = 0
  /\ board = [runs |-> FirstImage, boots |-> 0, conf |-> FirstConf, spare |-> FirstImage,
              staged |-> None]
  /\ picked = 0 /\ faults = 0
  /\ seen = None /\ info = "out" /\ update = None /\ checks = {}
  /\ booting = TRUE /\ late = FALSE /\ screen = "console" /\ row = None /\ installBox = None
  /\ job = Idle /\ said = "no verdict" /\ manual = Rest /\ warned = {}

World   == Publish \/ BoardReboots \/ BoardConfirms \/ BoardRollsBack
Page    == \/ Hear \/ DeviceAnswered \/ DeviceFailed \/ RetryDevice \/ setScreen
           \/ BootEnds \/ Recheck \/ \E v \in checks : CheckDone(v)
GoesOn  == Download \/ Verify \/ Upload \/ Watch \/ Deadline
OneClick == Click \/ GoesOn
ByHand  == Pick \/ verifyImage \/ uploadFirmware

InstallNext == World \/ Page \/ OneClick \/ ByHand

InstallSpec == InstallInit /\ [][InstallNext]_install_vars

(* A promise that is awaited settles: the browser gives up a request that is   *)
(* never answered, a prompt is answered, and the watch has its deadline.      *)
InstallFairSpec == InstallSpec /\ WF_install_vars(GoesOn)

-----------------------------------------------------------------------------
(* Properties.                                                              *)

Above(a, b) ==
  \/ a.major > b.major
  \/ a.major = b.major /\ (a.minor > b.minor \/ (a.minor = b.minor /\ a.patch > b.patch))

(* What a check offers is published, stable and installable, above what the  *)
(* device ran when it began, and no stable release that parses is above it.  *)
OfferSound ==
  [][update' # update /\ Available(update') =>
       LET stable == {r \in ToSet(feed) : r.stable /\ versionCode(r.tag) # Null}
       IN  /\ \E r \in stable : r.tag = update'.latest /\ "ota" \in ToSet(r.assets)
           /\ \A r \in stable : ~Above(r.tag, update'.latest)
           /\ \E v \in checks : v # Unparsed /\ Above(update'.latest, v)]_install_vars

(* Whatever the board runs, keeps or is about to boot has the bytes of a       *)
(* published release, unless it was there before or went by hand under the     *)
(* words "NOT VERIFIED".                                                     *)
VerifiedOrWarned ==
  \A img \in {board.runs, board.spare, board.staged} \ {None, FirstImage} :
    img.genuine \/ img \in warned

(* However a one-click install fails, refused, damaged, lost or never judged,  *)
(* the panel comes back to a button that can be pressed again.               *)
InstallEnds == (job.pc # "idle") ~> (job.pc = "idle")

(* "Updated and confirmed" is for good: judged by a boot count that was the   *)
(* board's own at the upload, and with nothing staged by hand since, the board *)
(* stays on that release through every later restart.                         *)
ConfirmedStays ==
  said = "confirmed" /\ job.ours => board.runs.fw = job.release /\ Confirmed(board)

(* "Rolled back" is said only of a release the board really booted, when the *)
(* boot count it is judged by was the board's own at the upload and nothing  *)
(* was staged by hand since.                                                 *)
RolledBackHonest == said = "rolled back" /\ job.ours => job.tried

(* A page with the board's facts and state, and done with boot(), is without    *)
(* a verdict and without a check only where it first heard of the board after   *)
(* both: whichever of facts, state and boot() comes last starts the check,     *)
(* but for the state, which the row then shows as "checking".                *)
UpdateJudged ==
  info = "known" /\ seen # None /\ ~booting /\ update = None /\ checks = {} => late

(* The one-click install installs the release the row shows (updater.ts:     *)
(* "the newest published release").                                         *)
(* The code does not keep to it and no run checks it; README.md says how.   *)
InstallsWhatIsShown == Available(row) => installBox = row.latest

(* What the panel says became of an update is what became of it.             *)
VerdictHonest == ConfirmedStays /\ RolledBackHonest
=============================================================================
