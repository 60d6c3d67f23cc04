------------------------------ MODULE AddDialog ------------------------------
(***************************************************************************)
(* The dialog that adds downloads (app/src/app/AddDownloadDialog.tsx), in  *)
(* the main window or in a prompt window of its own, with the notice about *)
(* duplicates inside it.  The link is probed, duplicates are looked up and *)
(* torrents are read while the user goes on typing; every request is       *)
(* answered later, to a dialog that may have changed or closed.            *)
(*                                                                         *)
(* Abstracted: a text is its valid links and whether it has other lines; a *)
(* name is the link it was probed from, or "typed"; a folder is the        *)
(* category it was resolved for, or "typed".  The options passed through   *)
(* (referer, headers, limits) are one tag, the prefill they come from;     *)
(* whether the speed limit typed can be read is chosen at each press.      *)
(* A step includes the effects that React runs after it.                   *)
(*                                                                         *)
(* Bounds: MaxEdits edits, MaxOpens prefills, MaxSends adds at a time.     *)
(***************************************************************************)
EXTENDS Naturals, FiniteSets

CONSTANTS
  Links,
  MediaLinks, \* the links of media pages
  MaxEdits, MaxOpens, MaxSends

AddAssumption ==
  /\ IsFiniteSet(Links) /\ MediaLinks \subseteq Links
  /\ MaxEdits \in Nat /\ MaxOpens \in Nat /\ MaxSends \in Nat

VARIABLES
  form,   \* the dialog
  probes, \* probe effects under way
  dups,   \* look-ups of the notice under way
  reads,  \* torrent files being read
  sends,  \* go() and submit() under way
  added,  \* by each dialog: how often, and whether it remembered a folder
  opens, edits

adVars == <<form, probes, dups, reads, sends, added, opens, edits>>

NoLink == "none"
Texts == [good : SUBSET Links, junk : BOOLEAN]
Empty == [good |-> {}, junk |-> FALSE]
CategoryOf(link) == IF link \in MediaLinks THEN "video" ELSE "files"

\* The settled answer of a probe or look-up, none yet.
Unknown == [of |-> NoLink]
NotAsked == [link |-> NoLink, dir |-> "", name |-> ""]

Single(f) == IF Cardinality(f.text.good) = 1 THEN CHOOSE u \in Links : f.text.good = {u} ELSE NoLink
Batch(f) == Cardinality(f.text.good) > 1
Media(f) == f.probe # Unknown /\ f.probe.ok /\ f.probe.of \in MediaLinks
ProbedName(f) == IF f.probe # Unknown /\ f.probe.ok THEN f.probe.of ELSE ""
ProbedCategory(f) == IF f.probe # Unknown /\ f.probe.ok THEN CategoryOf(f.probe.of) ELSE ""

Closed == [open |-> FALSE, n |-> 0, prefill |-> 0, wantsTorrent |-> FALSE, text |-> Empty, name |-> "",
           nameTouched |-> FALSE, category |-> "", dir |-> "", dirTouched |-> FALSE, probe |-> Unknown,
           probing |-> FALSE, dup |-> NotAsked, torrent |-> 0, chosen |-> FALSE,
           remember |-> FALSE, busy |-> FALSE, error |-> FALSE]

AdInit ==
  /\ form = Closed /\ probes = {} /\ dups = {} /\ reads = {} /\ sends = {} /\ added = [n \in 1 .. MaxOpens |-> [times |-> 0, remembered |-> FALSE]]
  /\ opens = 0 /\ edits = 0

-----------------------------------------------------------------------------
(* Effects *)

\* resolveDir: the folder of the category, of the probed one while none is chosen.
ResolveDir(f) == IF f.category # "" THEN f.category ELSE ProbedCategory(f)

\* Mutated form: the probed category is not a dependency.
FollowCategoryOnly(f) == IF f.dirTouched \/ f.category = "" THEN f ELSE [f EXCEPT !.dir = f.category]

FollowCategory(f) == IF f.dirTouched THEN f ELSE [f EXCEPT !.dir = ResolveDir(f)]

\* The notice asks about the link, folder and name the form shows.
DupKey(f) ==
  IF f.torrent # 0 \/ Media(f) \/ Single(f) = NoLink THEN NotAsked
  ELSE [link |-> Single(f), dir |-> f.dir, name |-> IF f.name # "" THEN f.name ELSE ProbedName(f)]

\* Mutated form: the effects have no cleanup.
AbandonNothing(tasks) == tasks

\* An effect's cleanup: timers are cleared, answers still to come ignored.
Abandon(tasks) == {[t EXCEPT !.alive = FALSE] : t \in {t \in tasks : t.asked}}

\* After a change of its props the notice forgets its answer and asks again.
SameDup(f) == form.open /\ DupKey(form) = DupKey(f)

DupEffect(f) == IF SameDup(f) THEN f ELSE [f EXCEPT !.dup = NotAsked]

DupsAfter(f) ==
  IF SameDup(f) THEN dups
  ELSE Abandon(dups) \cup
         {[key |-> k, asked |-> FALSE, alive |-> TRUE] : k \in {DupKey(f)} \ {NotAsked}}

\* A change of the one link (or of the torrent handed over) abandons the
\* probe under way and starts another; what it knows of the form is what the
\* form was then.
SameLink(f) == form.open /\ Single(form) = Single(f) /\ form.wantsTorrent = f.wantsTorrent

ProbeEffect(f) == IF SameLink(f) THEN f ELSE [f EXCEPT !.probe = Unknown]

ProbesAfter(f) ==
  IF SameLink(f) THEN probes
  ELSE Abandon(probes) \cup
         {[link |-> u, asked |-> FALSE, alive |-> TRUE, touched |-> f.nameTouched, category |-> f.category] :
            u \in IF f.wantsTorrent THEN {} ELSE {Single(f)} \ {NoLink}}

\* A state change of the open form, with the effects it sets off.
Change(f) ==
  /\ form' = DupEffect(FollowCategory(ProbeEffect(f)))
  /\ probes' = ProbesAfter(form') /\ dups' = DupsAfter(form')

\* The dialog goes: timers are cleared, answers will find nobody.
Close ==
  form' = Closed /\ probes' = Abandon(probes) /\ dups' = Abandon(dups)

-----------------------------------------------------------------------------
(* Opening, typing, choosing *)

\* What comes with a link: nothing (the clipboard), a name (the browser, a
\* torrent), or all of it (another caller of the core).
Prefills == {{}, {"name"}, {"name", "dir", "category"}}

\* The first form: a name or folder that came with the link counts as typed.
Prefilled(link, torrent, given, n) ==
  LET bare == [Closed EXCEPT !.open = TRUE, !.n = n, !.prefill = n, !.wantsTorrent = torrent,
                             !.text = [good |-> {link} \ {NoLink}, junk |-> FALSE]]
      named == IF "name" \in given THEN [bare EXCEPT !.name = "typed", !.nameTouched = TRUE] ELSE bare
      placed == IF "dir" \in given THEN [named EXCEPT !.dir = "typed", !.dirTouched = TRUE] ELSE named
  IN  IF "category" \in given THEN [placed EXCEPT !.category = "other"] ELSE placed

HandedOver(dialog, id, category) ==
  [dialog |-> dialog, id |-> id, picked |-> FALSE, sets |-> category = ""]

\* openAdd or a prompt of the core.  On an open dialog only the prefill
\* changes: what was read from the first one stays.  A torrent handed over is
\* read by an effect, which knows the category of that moment.
Open(link, torrent, given) ==
  /\ opens < MaxOpens /\ opens' = opens + 1
  /\ link = NoLink \/ ~torrent
  /\ Change(IF form.open THEN [form EXCEPT !.prefill = opens', !.wantsTorrent = torrent]
            ELSE Prefilled(link, torrent, given, opens'))
  /\ reads' = IF ~torrent THEN reads
              ELSE reads \cup {HandedOver(form'.n, opens', form'.category)}
  /\ UNCHANGED <<sends, added, edits>>

\* A user's change of the form.
Edit(f) ==
  /\ form.open /\ edits < MaxEdits /\ edits' = edits + 1 /\ f # form /\ Change(f)
  /\ UNCHANGED <<reads, sends, added, opens>>

SetText(text) == form.torrent = 0 /\ Edit([form EXCEPT !.text = text])
SetName == ~Batch(form) /\ form.torrent = 0 /\ ~Media(form)
           /\ Edit([form EXCEPT !.name = "typed", !.nameTouched = TRUE])
SetCategory(c) == ~Media(form) /\ Edit([form EXCEPT !.category = c, !.dirTouched = FALSE])

\* Typed, or picked with Browse.
SetDir == Edit([form EXCEPT !.dir = "typed", !.dirTouched = TRUE])
SetRemember == ~Media(form) /\ form.category # "" /\ Edit([form EXCEPT !.remember = ~@])
SetChosen == form.torrent # 0 /\ Edit([form EXCEPT !.chosen = ~@])

\* Cancel, the cross, Escape, a press outside: also while an add is under way.
\* The media notice closes the dialog as well and opens the video screen.
Cancel == form.open /\ Close /\ UNCHANGED <<reads, sends, added, opens, edits>>

\* pickTorrentFile, the file dialog included.
PickTorrent ==
  /\ form.open /\ form.torrent = 0 /\ opens < MaxOpens /\ opens' = opens + 1
  /\ reads' = reads \cup {[dialog |-> form.n, id |-> opens', picked |-> TRUE, sets |-> TRUE]}
  /\ UNCHANGED <<form, probes, dups, sends, added, edits>>

\* A file picked replaces the text; one handed over only adds the torrent, and
\* its category where there was none when it was handed over.
TorrentRead(r, ok) ==
  /\ reads' = reads \ {r}
  /\ IF ~form.open \/ r.dialog # form.n THEN UNCHANGED <<form, probes, dups>>
     ELSE IF ~ok THEN Change([form EXCEPT !.error = TRUE])
     ELSE Change([form EXCEPT !.torrent = r.id, !.chosen = TRUE,
                              !.text = IF r.picked THEN Empty ELSE @,
                              !.category = IF r.sets THEN "torrents" ELSE @])
  /\ UNCHANGED <<sends, added, opens, edits>>

-----------------------------------------------------------------------------
(* Probe and duplicate look-up *)

\* 450 ms without another link: the link is probed.
ProbeStarts(p) ==
  /\ ~p.asked /\ probes' = (probes \ {p}) \cup {[p EXCEPT !.asked = TRUE]}
  /\ form' = [form EXCEPT !.probing = TRUE]
  /\ UNCHANGED <<dups, reads, sends, added, opens, edits>>

\* Mutated form: the answer of an abandoned probe is taken.
AliveAlways(p) == form.open

Alive(p) == p.alive

\* Fills in name and category if they were untouched when the probe began.
Filled(p, ok) ==
  [form EXCEPT !.probe = [of |-> p.link, ok |-> ok],
               !.name = IF ok /\ ~p.touched THEN p.link ELSE @,
               !.category = IF ok /\ p.category = "" THEN CategoryOf(p.link) ELSE @]

\* Mutated form: a failed probe leaves the spinner on.
ProbedQuietly(p, ok) == [Filled(p, ok) EXCEPT !.probing = @ /\ ~ok]

Probed(p, ok) == [Filled(p, ok) EXCEPT !.probing = FALSE]

ProbeAnswered(p, ok) ==
  /\ p.asked
  /\ IF Alive(p)
     THEN /\ form' = DupEffect(FollowCategory(Probed(p, ok)))
          /\ probes' = probes \ {p} /\ dups' = DupsAfter(form')
     ELSE probes' = probes \ {p} /\ UNCHANGED <<form, dups>>
  /\ UNCHANGED <<reads, sends, added, opens, edits>>

DupStarts(d) ==
  /\ ~d.asked /\ dups' = (dups \ {d}) \cup {[d EXCEPT !.asked = TRUE]}
  /\ UNCHANGED <<form, probes, reads, sends, added, opens, edits>>

\* Mutated form: an answer for other props is shown.
DupAliveAlways(d) == form.open

DupAlive(d) == d.alive

DupAnswered(d) ==
  /\ d.asked /\ dups' = dups \ {d}
  /\ form' = IF DupAlive(d) THEN [form EXCEPT !.dup = d.key] ELSE form
  /\ UNCHANGED <<probes, reads, sends, added, opens, edits>>

\* The notice opens the file or resumes the download there is; the dialog is done.
DupHandled ==
  form.open /\ form.dup # NotAsked /\ Close /\ UNCHANGED <<reads, sends, added, opens, edits>>

-----------------------------------------------------------------------------
(* go and submit *)

HasLinks(f) == f.text.good # {} \/ f.torrent # 0

\* Mutated form: a dialog whose add is under way may submit again.
CanSubmitAgain(f) == HasLinks(f) /\ (~f.text.junk \/ Batch(f))

\* Every line a link, or several links.
CanSubmit(f) == ~f.busy /\ HasLinks(f) /\ (~f.text.junk \/ Batch(f))

\* What submit does with the form as it was when the button was pressed: a
\* torrent without files and a speed limit that cannot be read are refused.
Outcome(f, limitReads) ==
  CASE ~CanSubmit(f) -> "nothing"
    [] CanSubmit(f) /\ (~limitReads \/ (f.torrent # 0 /\ ~f.chosen)) -> "error"
    [] OTHER -> "add"

Mine(s) == form.open /\ form.n = s.dialog

Submit(s, others) ==
  /\ sends' = others \cup IF s.outcome = "add" THEN {[s EXCEPT !.step = "adding"]} ELSE {}
  /\ form' = CASE Mine(s) /\ s.outcome = "add" -> [form EXCEPT !.busy = TRUE, !.error = FALSE]
              [] Mine(s) /\ s.outcome = "error" -> [form EXCEPT !.error = TRUE]
              [] OTHER -> form

\* go: the folder is remembered first, a call that is waited for.
Go(limitReads) ==
  /\ form.open /\ Cardinality(sends) < MaxSends
  /\ LET remembers == form.remember /\ form.category # "" /\ form.dir # ""
         nth == CHOOSE n \in 1 .. MaxSends : \A t \in sends : t.nth # n
         s == [step |-> "remembering", nth |-> nth, dialog |-> form.n, outcome |-> Outcome(form, limitReads)]
     IN IF remembers
        THEN /\ sends' = sends \cup {s} /\ added' = [added EXCEPT ![form.n].remembered = TRUE]
             /\ UNCHANGED form
        ELSE Submit(s, sends) /\ UNCHANGED added
  /\ UNCHANGED <<probes, dups, reads, opens, edits>>

\* updateSettings is over, well or not.
Remembered(s) ==
  /\ s.step = "remembering" /\ Submit(s, sends \ {s})
  /\ UNCHANGED <<probes, dups, reads, added, opens, edits>>

\* The core added the download: onClose, whatever dialog is open by now.
Added(s) ==
  /\ s.step = "adding" /\ sends' = sends \ {s} /\ Close
  /\ added' = [added EXCEPT ![s.dialog].times = @ + 1]
  /\ UNCHANGED <<reads, opens, edits>>

\* Mutated form: the button stays busy after an error.
NotAddedBusy(s) ==
  /\ s.step = "adding" /\ sends' = sends \ {s}
  /\ form' = IF Mine(s) THEN [form EXCEPT !.error = TRUE] ELSE form
  /\ UNCHANGED <<probes, dups, reads, added, opens, edits>>

NotAdded(s) ==
  /\ s.step = "adding" /\ sends' = sends \ {s}
  /\ form' = IF Mine(s) THEN [form EXCEPT !.error = TRUE, !.busy = FALSE] ELSE form
  /\ UNCHANGED <<probes, dups, reads, added, opens, edits>>

-----------------------------------------------------------------------------
ProbeStep == \E p \in probes : ProbeStarts(p) \/ \E ok \in BOOLEAN : ProbeAnswered(p, ok)
DupStep == \E d \in dups : DupStarts(d) \/ DupAnswered(d)
ReadStep == \E r \in reads, ok \in BOOLEAN : TorrentRead(r, ok)
RememberStep == \E s \in sends : Remembered(s)
AddStep == \E s \in sends : Added(s) \/ NotAdded(s)

AdNext ==
  \/ \E link \in Links \cup {NoLink}, torrent \in BOOLEAN, given \in Prefills : Open(link, torrent, given)
  \/ \E text \in Texts : SetText(text)
  \/ SetName \/ SetDir \/ SetRemember \/ SetChosen \/ \E c \in {"", "other"} : SetCategory(c)
  \/ Cancel \/ PickTorrent \/ DupHandled \/ \E limitReads \in BOOLEAN : Go(limitReads)
  \/ ProbeStep \/ DupStep \/ ReadStep \/ RememberStep \/ AddStep

\* Timers fire and requests are answered.
AdFairness == WF_adVars(ProbeStep) /\ WF_adVars(AddStep)

AdSpec == AdInit /\ [][AdNext]_adVars /\ AdFairness

-----------------------------------------------------------------------------
AdTypeOK ==
  /\ form.text \in Texts /\ form.category \in {"", "files", "video", "torrents", "other"}
  /\ form.probe.of \in Links \cup {NoLink} /\ form.name \in Links \cup {"", "typed"}
  /\ Cardinality({p \in probes : p.alive}) <= 1 /\ Cardinality({d \in dups : d.alive}) <= 1

\* What the dialog says about the link is about the link it shows, in
\* whatever order the answers come.
ProbeIsOfLink == form.probe # Unknown => form.probe.of = Single(form)

\* A duplicate is reported for the link, folder and name shown.
DupIsOfForm == form.dup # NotAsked => form.dup = DupKey(form)

\* An untouched folder is the one of the category shown.
DirFollows == form.open /\ ~form.dirTouched => form.dir = ResolveDir(form)

\* One dialog adds its download once, however often and fast the button is
\* pressed, unless the folder was to be remembered.
AddedOnce == \A n \in 1 .. MaxOpens : added[n].times <= 1 \/ added[n].remembered

\* The dialog does not stay busy.
BusyEnds == form.busy ~> ~form.busy

\* What the dialog shows as being checked: a single link.
Checking == form.open /\ form.probing /\ Single(form) # NoLink /\ ~form.wantsTorrent

\* "Checking the link" ends, unless a torrent was handed to a dialog that was
\* checking a link.
CheckingEnds == Checking ~> ~Checking
===============================================================================
