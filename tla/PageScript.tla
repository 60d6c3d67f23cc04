------------------------------ MODULE PageScript ------------------------------
(***************************************************************************)
(* The script KuDownloader puts into each page of the browser of its       *)
(* Android application (android/.../assets/browser/page.js): the download  *)
(* button over the largest visible video, element hiding for the classes   *)
(* and ids the page uses, and the page's links.                            *)
(*                                                                         *)
(* The page changes under the script as it likes: elements come and go,    *)
(* which a MutationObserver reports, and videos scroll in and out of view, *)
(* with a scroll event or, when the page moves them by a style, without    *)
(* any.  The application behind KuBridge is external.                      *)
(*                                                                         *)
(* Abstracted: geometry, to whether a video is in view; Videos are numbers *)
(* that grow with the area.  A name is a class or an id.                   *)
(* Bound: MaxChanges changes of the page.                                  *)
(***************************************************************************)
EXTENDS Integers, FiniteSets

LOCAL INSTANCE FiniteSetsExt

CONSTANTS Videos, Names, MaxChanges

PageAssumption == Videos \subseteq Nat \ {0} /\ MaxChanges \in Nat

VARIABLES
  vids, inView, names, \* the page
  queued,              \* an animation frame is to call place
  reported, target,    \* 0 is no video
  built, attached, visible, \* the button: made, in the page, displayed
  generic, seen, hides,     \* names asked for, names the style hides
  recent, scans,       \* the last scan was just started; scans to come
  changes, moved, late

pgVars == <<vids, inView, names, queued, reported, target, built, attached, visible, generic, seen,
            hides, recent, scans, changes, moved, late>>
page == <<vids, inView, names>>
button == <<reported, target, built, attached, visible>>
hiding == <<generic, seen, hides>>

\* The script has just been put into the page and schedules its first frame.
PgInit ==
  /\ vids = {} /\ inView = {} /\ names = {} /\ queued = TRUE /\ reported = "unknown" /\ target = 0
  /\ built = FALSE /\ attached = FALSE /\ visible = FALSE /\ generic = FALSE /\ seen = {} /\ hides = {}
  /\ recent = FALSE /\ scans = 0 /\ changes = 0 /\ moved = FALSE /\ late = FALSE

-----------------------------------------------------------------------------
(* The MutationObserver *)

\* Mutated form: what changes later is not scanned.
ObservedLater(own) ==
  /\ queued' = TRUE /\ UNCHANGED <<recent, scans>> /\ late' = (late /\ own)

\* A frame, and a scan unless the last one was started just before; the script's
\* own elements are observed, too.  late: a change of the page is in no scan.
Observed(own) ==
  /\ queued' = TRUE
  /\ IF generic' /\ ~recent THEN recent' = TRUE /\ scans' = scans + 1 /\ UNCHANGED late
     ELSE UNCHANGED <<recent, scans>> /\ late' = (late \/ (generic' /\ scans = 0 /\ ~own))

Unobserved == queued' = FALSE /\ UNCHANGED <<recent, scans, late>>

-----------------------------------------------------------------------------
(* The button *)

\* visible: large enough and in view; the one with the largest area.
Pick == LET here == vids \cap inView IN IF here = {} THEN 0 ELSE Max(here)

Has == IF Pick # 0 \/ vids # {} THEN "yes" ELSE "no"

\* Mutated form: a button that was made is in the page.
EnsureButtonOnce == built' = TRUE /\ attached' = (attached \/ ~built) /\ IF built THEN Unobserved ELSE Observed(TRUE)

\* ensureButton makes the button once; the page may have thrown it away.
EnsureButton == built' = TRUE /\ attached' = TRUE /\ IF attached THEN Unobserved ELSE Observed(TRUE)

\* The application is told when a video is there or not any more, and the button
\* goes to the video or hides.
Place ==
  /\ queued /\ UNCHANGED hiding /\ reported' = Has /\ target' = Pick /\ visible' = (Pick # 0)
  /\ IF Pick = 0 THEN Unobserved /\ UNCHANGED <<built, attached>> ELSE EnsureButton
  /\ moved' = FALSE /\ UNCHANGED <<page, changes>>

-----------------------------------------------------------------------------
(* Element hiding *)

\* scanGeneric: names not seen before are asked for, and what the application
\* answers is added to the style, which is a change of the page.
ScanGeneric ==
  IF generic' THEN seen' = seen \cup names /\ hides' = hides \cup (names \ seen) ELSE UNCHANGED <<seen, hides>>

\* __kuCosmetic: the rules of the page have arrived.
Cosmetic(isGeneric) ==
  /\ ~generic /\ generic' = isGeneric /\ ScanGeneric /\ Observed(TRUE)
  /\ UNCHANGED <<page, button, changes, moved>>

\* The timer of a scan, 300 ms after the mutation.
Scan ==
  /\ scans > 0 /\ UNCHANGED generic /\ ScanGeneric /\ scans' = scans - 1 /\ late' = FALSE
  /\ queued' = (queued \/ hides' # hides) /\ UNCHANGED <<page, button, recent, changes, moved>>

\* 1.5 s have passed since the last scan was started: its timer has fired.
ScanAgain ==
  /\ recent /\ scans = 0 /\ recent' = FALSE
  /\ UNCHANGED <<page, queued, button, hiding, scans, changes, moved, late>>

-----------------------------------------------------------------------------
(* The page *)

Changes == changes < MaxChanges /\ changes' = changes + 1 /\ UNCHANGED hiding

PutVideo(v) ==
  /\ Changes /\ vids' = (IF v \in vids THEN vids \ {v} ELSE vids \cup {v}) /\ inView' = inView \cup {v}
  /\ Observed(FALSE) /\ UNCHANGED <<names, button, moved>>

AddName(n) ==
  /\ Changes /\ n \notin names /\ names' = names \cup {n} /\ Observed(FALSE)
  /\ UNCHANGED <<vids, inView, button, moved>>

\* A site replaces its body: the button is gone with it.
DropHost ==
  /\ Changes /\ attached /\ attached' = FALSE /\ Observed(FALSE)
  /\ UNCHANGED <<page, reported, target, built, visible, moved>>

\* By scrolling, with an event, or by a style of the page, without.
MoveVideo(v, event) ==
  /\ Changes /\ v \in vids /\ inView' = IF v \in inView THEN inView \ {v} ELSE inView \cup {v}
  /\ queued' = (queued \/ event) /\ moved' = (moved \/ ~event)
  /\ UNCHANGED <<vids, names, button, recent, scans, late>>

PgNext ==
  \/ Place \/ Scan \/ ScanAgain \/ DropHost
  \/ \E g \in BOOLEAN : Cosmetic(g)
  \/ \E v \in Videos : PutVideo(v) \/ \E b \in BOOLEAN : MoveVideo(v, b)
  \/ \E n \in Names : AddName(n)

PgSpec == PgInit /\ [][PgNext]_pgVars

-----------------------------------------------------------------------------
PgTypeOK ==
  /\ reported \in {"unknown", "yes", "no"} /\ target \in Videos \cup {0} /\ seen \subseteq names
  /\ (visible => built) /\ scans \in 0 .. 1

\* Once the frame has run the application knows whether the page has a video,
\* and the button is in the page over the largest one in view, or hidden; a page
\* that moves its videos without an event is excepted.
ButtonFollows ==
  ~queued => /\ reported = (IF vids = {} THEN "no" ELSE "yes")
             /\ ~moved => visible = (Pick # 0) /\ target = Pick /\ (visible => attached)

\* When nothing is to come, every name of the page was asked for and the style
\* has what was answered, unless the page changed too soon after the last scan.
HidesAll == generic /\ scans = 0 /\ ~late => seen = names /\ hides = seen
===============================================================================
