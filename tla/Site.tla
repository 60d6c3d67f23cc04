--------------------------------- MODULE Site ---------------------------------
(***************************************************************************)
(* The moving parts of the project's page (docs/site/main.js): the field   *)
(* of dashes that is only drawn while it is seen, the features whose       *)
(* picture changes on a click or by itself, and the buttons that name the  *)
(* visitor's system and link its file of the latest release.               *)
(*                                                                         *)
(* The browser is external: it runs frames, timeouts in the order they     *)
(* were set, and tells of crossings, several at once when it is late.      *)
(* What a frame draws is left out.  A visitor is the words its browser     *)
(* says of itself; an asset of a release is the system it is for.          *)
(* Bounds: MaxEntries crossings not told yet, MaxTimeouts pictures waiting.*)
(***************************************************************************)
EXTENDS Naturals, Sequences, FiniteSets

CONSTANTS Items, MaxEntries, MaxTimeouts, Visitors

SiteAssumption == {Items, MaxEntries, MaxTimeouts} \subseteq Nat \ {0}

VARIABLES
  reduced,                    \* prefers-reduced-motion
  seen, entries, visible,     \* whether the canvas is on screen, what is to be told, what was
  frames, mine, skipped,      \* frames asked for, raf is one of them; a crossing was not looked at
  current, shot, swap,        \* the item chosen, the picture set, its class
  timeouts, loading, returned,\* pictures to be set; one is loading; a choice came back to a picture about to change
  picked, cycling,            \* userPicked; the interval runs
  visitor, linked             \* where the button leads

fieldVars == <<seen, entries, visible, frames, mine, skipped>>
pickVars == <<current, shot, swap, timeouts, loading, returned, picked, cycling>>
osVars == <<visitor, linked>>
siteVars == <<reduced, fieldVars, pickVars, osVars>>

Systems == {"windows", "mac", "linux", "android"}

SiteInit ==
  /\ reduced \in BOOLEAN
  /\ seen \in BOOLEAN /\ entries = <<seen>> /\ visible = TRUE
  /\ frames = 1 /\ mine = TRUE /\ skipped = FALSE
  /\ current = 1 /\ shot = 1 /\ swap = FALSE /\ timeouts = <<>> /\ loading = FALSE /\ returned = FALSE
  /\ picked = FALSE /\ cycling = FALSE
  /\ visitor \in Visitors /\ linked = "page"

-----------------------------------------------------------------------------
(* The field *)

\* A frame that ran: the one raf names or, if there is another, that one.
Ran == {[frames |-> frames - 1, mine |-> m] : m \in {n \in {FALSE, mine} : n => frames > 1}}

Frame ==
  /\ frames > 0
  /\ \E r \in Ran :
       IF visible /\ ~reduced THEN frames' = r.frames + 1 /\ mine' = TRUE
       ELSE frames' = r.frames /\ mine' = r.mine
  /\ UNCHANGED <<reduced, seen, entries, visible, skipped, pickVars, osVars>>

Left == IF mine THEN frames - 1 ELSE frames

\* Mutated form: the frame asked for before is not called off.
ObservedAdds(v) ==
  IF v THEN frames' = frames + 1 /\ mine' = TRUE ELSE UNCHANGED <<frames, mine>>

\* Mutated form: frames are called off and not asked for again.
ObservedCancels(v) == frames' = Left /\ mine' = FALSE

Observed(v) == frames' = (IF v THEN Left + 1 ELSE Left) /\ mine' = v

\* The observer is told of the crossings and looks at the first.
Told ==
  /\ entries # <<>> /\ visible' = Head(entries) /\ Observed(visible') /\ entries' = <<>>
  /\ skipped' = (Len(entries) > 1) /\ UNCHANGED <<reduced, seen, pickVars, osVars>>

\* The page is scrolled.
Cross ==
  /\ Len(entries) < MaxEntries /\ seen' = ~seen /\ entries' = Append(entries, seen')
  /\ UNCHANGED <<reduced, visible, frames, mine, skipped, pickVars, osVars>>

NextField == Frame \/ Told \/ Cross

-----------------------------------------------------------------------------
(* The features *)

\* Mutated form: nothing else is shown while a picture changes.
ShowSettled(i) ==
  /\ current' = i
  /\ IF shot = i \/ swap THEN returned' = FALSE /\ UNCHANGED <<swap, timeouts>>
     ELSE swap' = TRUE /\ timeouts' = Append(timeouts, i) /\ returned' = FALSE

\* It returns when the picture is already set, also while another is about to be.
Show(i) ==
  /\ current' = i
  /\ IF shot = i THEN returned' = (timeouts # <<>>) /\ UNCHANGED <<swap, timeouts>>
     ELSE swap' = TRUE /\ timeouts' = Append(timeouts, i) /\ returned' = FALSE

Pick(i) ==
  /\ Len(timeouts) < MaxTimeouts /\ picked' = TRUE /\ Show(i)
  /\ UNCHANGED <<reduced, shot, loading, cycling, fieldVars, osVars>>

\* The interval that runs while the section is on screen, until the user chooses.
Advance ==
  /\ cycling /\ ~picked /\ Len(timeouts) < MaxTimeouts /\ Show((current % Items) + 1)
  /\ UNCHANGED <<reduced, shot, loading, picked, cycling, fieldVars, osVars>>

Section ==
  /\ cycling' \in {FALSE, ~reduced}
  /\ UNCHANGED <<reduced, current, shot, swap, timeouts, loading, returned, picked, fieldVars, osVars>>

\* Mutated form: what is to be done when it is loaded is not said.
SetPictureOnly == loading' = FALSE

SetPicture == loading' = TRUE

Timeout ==
  /\ timeouts # <<>> /\ shot' = Head(timeouts) /\ timeouts' = Tail(timeouts) /\ SetPicture
  /\ UNCHANGED <<reduced, current, swap, returned, picked, cycling, fieldVars, osVars>>

Loaded ==
  /\ loading /\ loading' = FALSE /\ swap' = FALSE
  /\ UNCHANGED <<reduced, current, shot, timeouts, returned, picked, cycling, fieldVars, osVars>>

NextPicture == (\E i \in 1 .. Items : Pick(i)) \/ Advance \/ Section \/ Timeout \/ Loaded

-----------------------------------------------------------------------------
(* The visitor's system *)

\* Mutated form: Linux is looked for first.
DetectLinuxFirst(v) ==
  CASE "linux" \in v.ua \cup v.platform -> "linux"
    [] "android" \in v.ua -> "android"
    [] "iphone" \in v.ua -> "ios"
    [] "win" \in v.platform \/ "windows" \in v.ua -> "windows"
    [] "mac" \in v.platform \/ "mac os" \in v.ua -> "mac"
    [] OTHER -> "none"

detectOs(v) ==
  IF "android" \in v.ua THEN "android"
  ELSE IF "iphone" \in v.ua THEN "ios"
  ELSE IF "win" \in v.platform \/ "windows" \in v.ua THEN "windows"
  ELSE IF "mac" \in v.platform \/ "mac os" \in v.ua THEN "mac"
  ELSE IF "linux" \in v.ua \cup v.platform THEN "linux"
  ELSE "none"

Label == IF detectOs(visitor) \in Systems THEN detectOs(visitor) ELSE "any"

\* The latest release was read; without it, or its file, the page is the fallback.
ReleaseRead(assets) ==
  /\ linked' = IF detectOs(visitor) \in assets THEN detectOs(visitor) ELSE linked
  /\ UNCHANGED <<reduced, fieldVars, pickVars, visitor>>

NextSystem == \E assets \in SUBSET Systems : ReleaseRead(assets)

SiteSpec == SiteInit /\ [][NextField \/ NextPicture \/ NextSystem]_siteVars

-----------------------------------------------------------------------------
(* Properties *)

SiteTypeOK ==
  /\ {reduced, seen, visible, mine, skipped, swap, loading, returned, picked, cycling} \subseteq BOOLEAN
  /\ {current, shot} \subseteq 1 .. Items /\ mine => frames > 0 /\ linked \in Systems \cup {"page"}

\* The field is never drawn by two loops at once, however often it comes into view.
OneLoop == frames <= 1

\* Once the observer was told, the field is drawn while it is seen and rests while it
\* is not, unless it was told of several crossings at once and took the first for all.
DrawnWhileSeen == entries = <<>> /\ ~skipped => (~seen => frames = 0) /\ (seen /\ ~reduced => frames = 1)

\* When no picture is waiting the one that is set is of the item chosen, unless the
\* choice came back to the picture that was still set while another was waiting.
PictureFollows == timeouts = <<>> /\ ~returned => shot = current

\* A picture that is loaded is not left faded out.
SwapEnds == timeouts = <<>> /\ ~loading => ~swap

\* The button names no system but the visitor's, unless a tablet passes for a
\* computer, and leads to a file for the system it names or to the page.
ButtonIsOfSystem ==
  /\ ~visitor.poses => Label \in {"any", visitor.system}
  /\ linked \in {"page", Label}
===============================================================================
