---------------------------- MODULE InspectorPanel ----------------------------
(***************************************************************************)
(* The details panel beside the list (app/downloads/Inspector.tsx): the    *)
(* download it shows, its technical details, asked for again every second  *)
(* while it transfers, the dialog that gives a failed download a new link, *)
(* and the dialog that verifies a checksum.  The panel is one component    *)
(* that goes on from one download to the next.                             *)
(*                                                                         *)
(* Abstracted: details are the download they are of and when they were     *)
(* asked for.  Bounds: MaxShows downloads shown, MaxLoads requests.        *)
(***************************************************************************)
EXTENDS Naturals, FiniteSets

CONSTANTS Downloads, MaxShows, MaxLoads

InspectorAssumption == MaxShows \in Nat /\ MaxLoads \in Nat

VARIABLES
  status,   \* of the downloads
  shown,    \* the download the panel shows, none when there is no panel
  expanded, \* "Technical details"
  details,  \* the last answer kept
  loads,    \* requests for details under way
  edit,     \* the download the dialog for a new link was opened for
  switched, \* a notice put another download under that dialog
  edits,    \* new links on their way to the core
  edited,   \* what the core was last asked to change
  verify,   \* the checksum dialog
  shows, asks

detailVars == <<expanded, details, loads, asks>>
editVars == <<edit, switched, edits, edited>>
inVars == <<status, shown, detailVars, editVars, verify, shows>>

NoOne == "none"
NoDetails == [of |-> NoOne, n |-> 0]
NoVerify == [of |-> NoOne, busy |-> 0, algo |-> 0, result |-> 0]
Live(d) == status[d] = "live"

InInit ==
  /\ status = [d \in Downloads |-> "failed"] /\ shown = NoOne
  /\ expanded = FALSE /\ details = NoDetails /\ loads = {} /\ asks = 0
  /\ edit = NoOne /\ switched = FALSE /\ edits = {} /\ edited = NoOne
  /\ verify = NoVerify /\ shows = 0

-----------------------------------------------------------------------------
(* Technical details *)

\* A request for the details of the download shown.
Loads(d) ==
  IF asks < MaxLoads THEN {[of |-> d, n |-> asks + 1, alive |-> TRUE]} ELSE {}

\* The effect when the panel, its download or whether it transfers changes:
\* answers to the requests before are ignored, the details asked for.
Reload(open, d) ==
  /\ loads' = {[l EXCEPT !.alive = FALSE] : l \in loads} \cup IF open /\ d # NoOne THEN Loads(d) ELSE {}
  /\ asks' = IF open /\ d # NoOne /\ Loads(d) # {} THEN asks + 1 ELSE asks

\* Only while it transfers, every second.
Poll ==
  /\ shown # NoOne /\ expanded /\ Live(shown) /\ Loads(shown) # {}
  /\ loads' = loads \cup Loads(shown) /\ asks' = asks + 1
  /\ UNCHANGED <<status, shown, expanded, details, editVars, verify, shows>>

\* Mutated form: whoever answers last is shown.
AliveAlways(l) == shown # NoOne

Alive(l) == l.alive

Answered(l, ok) ==
  /\ loads' = loads \ {l}
  /\ details' = IF ok /\ Alive(l) THEN [of |-> l.of, n |-> l.n] ELSE details
  /\ UNCHANGED <<status, shown, expanded, asks, editVars, verify, shows>>

Expand ==
  /\ shown # NoOne /\ edit = NoOne /\ expanded' = ~expanded /\ Reload(expanded', shown)
  /\ UNCHANGED <<status, shown, details, editVars, verify, shows>>

StatusChanges(d, s) ==
  /\ shows < MaxShows /\ shows' = shows + 1
  /\ status[d] # s /\ status' = [status EXCEPT ![d] = s]
  /\ IF d = shown /\ expanded /\ Live(d) # (s = "live") THEN Reload(TRUE, d) ELSE UNCHANGED <<loads, asks>>
  /\ UNCHANGED <<shown, expanded, details, editVars, verify>>

-----------------------------------------------------------------------------
(* Which download *)

\* Another download in the same panel: what was read of the last one stays
\* until the answer about this one.
Panel(d) ==
  /\ shown' = d
  /\ IF shown = NoOne THEN expanded' = FALSE /\ details' = NoDetails /\ UNCHANGED <<loads, asks>>
     ELSE UNCHANGED <<expanded, details>> /\ Reload(expanded, d)

Show(d) ==
  /\ shows < MaxShows /\ shows' = shows + 1 /\ d # shown /\ edit = NoOne /\ verify = NoVerify
  /\ Panel(d) /\ UNCHANGED <<status, editVars, verify>>

\* "Show" in a notice, above an open dialog as well.
NoticeShow(d) ==
  /\ shows < MaxShows /\ shows' = shows + 1 /\ d # shown
  /\ Panel(d) /\ switched' = (edit # NoOne) /\ UNCHANGED <<status, edit, edits, edited, verify>>

\* Mutated form: the panel, and its dialog, go on with the next row.
UnlistedNext ==
  \E d \in Downloads \ {shown} : shown # NoOne /\ Panel(d) /\ UNCHANGED <<status, editVars, verify, shows>>

\* The row is gone or no longer listed, several are selected, or the panel
\* is closed: it goes with its dialog.
Unlisted ==
  /\ shown # NoOne /\ shown' = NoOne /\ expanded' = FALSE /\ details' = NoDetails /\ Reload(FALSE, NoOne)
  /\ edit' = NoOne /\ switched' = FALSE /\ UNCHANGED <<status, edits, edited, verify, shows>>

-----------------------------------------------------------------------------
(* A new link *)

\* "New link", of a failed download.
EditUrl ==
  /\ shown # NoOne /\ edit = NoOne /\ status[shown] = "failed" /\ edit' = shown /\ switched' = FALSE
  /\ UNCHANGED <<status, shown, detailVars, edits, edited, verify, shows>>

CancelEdit ==
  /\ edit # NoOne /\ edit' = NoOne /\ switched' = FALSE
  /\ UNCHANGED <<status, shown, detailVars, edits, edited, verify, shows>>

\* The link goes to the download the panel shows now.
SubmitEdit ==
  /\ edit # NoOne /\ Cardinality(edits) < 2
  /\ edits' = edits \cup {[of |-> shown, step |-> "edit"]} /\ edited' = shown
  /\ UNCHANGED <<status, shown, detailVars, edit, switched, verify, shows>>

\* edit, then resume, then the dialog is closed; an error leaves it open.
EditAnswered(e, ok) ==
  /\ edits' = (edits \ {e}) \cup IF ok /\ e.step = "edit" THEN {[e EXCEPT !.step = "resume"]} ELSE {}
  /\ edit' = IF ok /\ e.step = "resume" THEN NoOne ELSE edit
  /\ switched' = (switched /\ edit' # NoOne)
  /\ UNCHANGED <<status, shown, detailVars, edited, verify, shows>>

-----------------------------------------------------------------------------
(* VerifyDialog *)

OnVerify ==
  /\ shown # NoOne /\ edit = NoOne /\ status[shown] = "done" /\ verify = NoVerify
  /\ verify' = [NoVerify EXCEPT !.of = shown, !.algo = 1]
  /\ UNCHANGED <<status, shown, detailVars, editVars, shows>>

\* Another algorithm; a result stays, also of the last one.
SetAlgo ==
  /\ verify # NoVerify /\ verify' = [verify EXCEPT !.algo = 3 - @]
  /\ UNCHANGED <<status, shown, detailVars, editVars, shows>>

\* Compute, with the algorithm chosen now: the button is disabled while one is
\* under way.
Verify ==
  /\ verify # NoVerify /\ verify.busy = 0 /\ verify' = [verify EXCEPT !.busy = verify.algo]
  /\ UNCHANGED <<status, shown, detailVars, editVars, shows>>

\* An error leaves the result that was shown.
Verified(ok) ==
  /\ verify.busy # 0 /\ verify' = [verify EXCEPT !.busy = 0, !.result = IF ok THEN verify.busy ELSE @]
  /\ UNCHANGED <<status, shown, detailVars, editVars, shows>>

CloseVerify ==
  /\ verify # NoVerify /\ verify' = NoVerify
  /\ UNCHANGED <<status, shown, detailVars, editVars, shows>>

InNext ==
  \/ \E d \in Downloads : Show(d) \/ NoticeShow(d) \/ \E s \in {"live", "failed", "done"} : StatusChanges(d, s)
  \/ Expand \/ Poll \/ Unlisted \/ EditUrl \/ CancelEdit \/ SubmitEdit
  \/ \E ok \in BOOLEAN : Verified(ok) \/ (\E l \in loads : Answered(l, ok)) \/ \E e \in edits : EditAnswered(e, ok)
  \/ OnVerify \/ SetAlgo \/ Verify \/ CloseVerify

InSpec == InInit /\ [][InNext]_inVars

-----------------------------------------------------------------------------
InTypeOK ==
  /\ shown \in Downloads \cup {NoOne} /\ details.n \in 0 .. MaxLoads
  /\ edit \in Downloads \cup {NoOne} /\ verify.of \in Downloads \cup {NoOne}

\* An answer about a download shown before never takes the place of one about
\* the download shown.
DetailsStay == details'.of # details.of /\ details'.of # NoOne => details'.of = shown

\* A link goes to the download it was typed for, unless a notice was used to
\* show another one meanwhile.
EditIsOfDialog == Cardinality(edits') > Cardinality(edits) => switched \/ edited' = edit
================================================================================
