------------------------------ MODULE HoverPanel ------------------------------
(***************************************************************************)
(* The download button over a page's videos and the panel it opens         *)
(* (extension/src/content/hover.js, adapters.js): one button, one panel,   *)
(* one hide timer per page, moved from video to video, while requests to   *)
(* the background script are answered whenever they are.                   *)
(*                                                                         *)
(* Abstracted: geometry, to where the pointer is: on a video, on the       *)
(* button, elsewhere in the page, or gone from it; which of the qualities  *)
(* is picked.  Equal requests of one opening of the panel are one.  An     *)
(* anchor is an element the site's adapter looks at.                       *)
(*                                                                         *)
(* Bounds: MaxClicks openings of the panel, MaxMoves moves of the pointer  *)
(* and starts of a video.                                                  *)
(***************************************************************************)
EXTENDS Naturals, FiniteSets

CONSTANTS
  Anchors,  \* [el, video, big, src] records, see Resolve
  Adapters, \* the sites enabled in the settings
  Site,     \* the site the page belongs to
  MaxClicks, MaxMoves

HoverAssumption == MaxClicks \in Nat /\ MaxMoves \in Nat

VARIABLES mounted, current, btn, panel, timer, pointer, frame, asks, closers, clicks, moves

hvVars == <<mounted, current, btn, panel, timer, pointer, frame, asks, closers, clicks, moves>>

NoHit == "noHit"

\* adapters.js, youtube: a link, a hover preview with its link or the player
\* on a watch page stand for a video; anything else for nothing.
ResolveYoutube(a) == IF a.video THEN "media" ELSE NoHit

\* adapters.js, generic: big enough, a plain file or else a stream.
ResolveGeneric(a) ==
  IF a.el # "video" \/ ~a.big THEN NoHit ELSE IF a.src = "http" THEN "file" ELSE "media"

\* vimeo and dailymotion: the page itself.
ResolvePage(a) == IF a.el = "player" THEN "media" ELSE NoHit

\* init: the site's own adapter, the generic one only where there is none.
SiteAdapter == IF Site \in Adapters THEN Site ELSE "generic"

Resolve(a) ==
  CASE SiteAdapter = "youtube" -> ResolveYoutube(a)
    [] SiteAdapter \in {"vimeo", "dailymotion"} -> ResolvePage(a)
    [] OTHER -> IF "generic" \in Adapters THEN ResolveGeneric(a) ELSE NoHit

Hits == {a \in Anchors : Resolve(a) # NoHit}
NoAnchor == [el |-> "none"]
OnButton == [el |-> "button"]
Elsewhere == [el |-> "elsewhere"]
Gone == [el |-> "gone"]
Blank == [open |-> FALSE, content |-> "empty", of |-> NoAnchor, busy |-> FALSE]

HvInit ==
  /\ mounted = FALSE /\ current = NoAnchor /\ btn = FALSE /\ panel = Blank /\ timer = "none"
  /\ pointer = Gone /\ frame = FALSE /\ asks = {} /\ closers = 0 /\ clicks = 0 /\ moves = 0

\* init: the script asks for the config; without an answer, with the button
\* switched off or with nothing to look for it stays out of the page.
Mount ==
  /\ ~mounted /\ mounted' = TRUE
  /\ UNCHANGED <<current, btn, panel, timer, pointer, frame, asks, closers, clicks, moves>>

PointerInside == current # NoAnchor /\ pointer \in {OnButton, current}
Show(a) == current' = a /\ btn' = TRUE /\ timer' = "none"

-----------------------------------------------------------------------------
(* Pointer, videos, timers *)

May == mounted /\ moves < MaxMoves /\ moves' = moves + 1

\* onMove queues one animation frame while a button is visible.
QueueFrame(visible) == frame' = (frame \/ (visible /\ ~panel.open))

\* mouseover, then mousemove, on a video.
EnterVideo(a) ==
  /\ May /\ pointer # a /\ pointer' = a
  /\ IF panel.open \/ a \notin Hits THEN UNCHANGED <<current, btn, timer>> ELSE Show(a)
  /\ QueueFrame(btn')
  /\ UNCHANGED <<mounted, panel, asks, closers, clicks>>

\* mouseenter of the button.
EnterButton ==
  /\ May /\ btn /\ pointer # OnButton /\ pointer' = OnButton /\ timer' = "none" /\ QueueFrame(TRUE)
  /\ UNCHANGED <<mounted, current, btn, panel, asks, closers, clicks>>

LeaveVideo ==
  /\ May /\ pointer # Elsewhere /\ pointer' = Elsewhere /\ QueueFrame(btn)
  /\ UNCHANGED <<mounted, current, btn, panel, timer, asks, closers, clicks>>

\* pointerGone: out of the document, or into an iframe.
LeavePage ==
  /\ May /\ pointer # Gone /\ pointer' = Gone /\ timer' = "short"
  /\ UNCHANGED <<mounted, current, btn, panel, frame, asks, closers, clicks>>

\* onPlay: the button shows for four seconds.
Play(a) ==
  /\ May /\ a \in Hits /\ ~panel.open /\ ~(btn /\ current = a)
  /\ current' = a /\ btn' = TRUE /\ timer' = "long"
  /\ UNCHANGED <<mounted, panel, pointer, frame, asks, closers, clicks>>

\* Mutated form: the frame only cancels.
FrameKeeps ==
  /\ frame /\ frame' = FALSE /\ timer' = IF PointerInside THEN "none" ELSE timer
  /\ UNCHANGED <<mounted, current, btn, panel, pointer, asks, closers, clicks, moves>>

\* The animation frame of onMove.
Frame ==
  /\ frame /\ frame' = FALSE
  /\ timer' = IF PointerInside THEN "none" ELSE "short"
  /\ UNCHANGED <<mounted, current, btn, panel, pointer, asks, closers, clicks, moves>>

\* scheduleHide's timer, and that of onPlay which spares a button under the pointer.
HideTimer ==
  /\ timer # "none" /\ timer' = "none"
  /\ btn' = (btn /\ (panel.open \/ (timer = "long" /\ PointerInside)))
  /\ UNCHANGED <<mounted, current, panel, pointer, frame, asks, closers, clicks, moves>>

\* scroll: the video left the view.
Scroll ==
  /\ btn /\ btn' = FALSE
  /\ UNCHANGED <<mounted, current, panel, timer, pointer, frame, asks, closers, clicks, moves>>

-----------------------------------------------------------------------------
(* The panel *)

ClosePanel == panel' = Blank /\ btn' = FALSE

\* Escape, the cross, a press outside.
UserCloses ==
  /\ mounted /\ (panel.open \/ btn) /\ ClosePanel
  /\ UNCHANGED <<mounted, current, timer, pointer, frame, asks, closers, clicks, moves>>

\* openPanel: a file is offered at once, a page is analysed first.
OpenPanel ==
  /\ btn /\ clicks < MaxClicks /\ clicks' = clicks + 1
  /\ panel' = [Blank EXCEPT !.open = TRUE, !.of = current,
                            !.content = IF Resolve(current) = "file" THEN "file" ELSE "loading"]
  /\ asks' = IF Resolve(current) = "file" THEN asks
             ELSE asks \cup {[type |-> "analyze", of |-> current, n |-> clicks]}
  /\ UNCHANGED <<mounted, current, btn, timer, pointer, frame, closers, moves>>

\* Mutated form: a failed analysis is not shown.
AnalyzedQuietly(ask, ok) ==
  /\ ask.type = "analyze" /\ asks' = asks \ {ask}
  /\ panel' = IF ok THEN [panel EXCEPT !.content = "options", !.of = ask.of, !.busy = FALSE]
              ELSE panel
  /\ UNCHANGED <<mounted, current, btn, timer, pointer, frame, closers, clicks, moves>>

\* The analysis is answered: render fills the one panel, whatever it shows.
Analyzed(ask, ok) ==
  /\ ask.type = "analyze" /\ asks' = asks \ {ask}
  /\ panel' = [panel EXCEPT !.content = IF ok THEN "options" ELSE "error", !.of = ask.of, !.busy = FALSE]
  /\ UNCHANGED <<mounted, current, btn, timer, pointer, frame, closers, clicks, moves>>

\* Another quality is picked: Download can be clicked, even while it sends.
Pick ==
  /\ panel.open /\ panel.content = "options" /\ panel.busy
  /\ panel' = [panel EXCEPT !.busy = FALSE]
  /\ UNCHANGED <<mounted, current, btn, timer, pointer, frame, asks, closers, clicks, moves>>

Asks(type, of) == asks' = asks \cup {[type |-> type, of |-> of, n |-> clicks]}

\* Download: the panel's own video is sent.
Go ==
  /\ panel.open /\ panel.content \in {"options", "file"} /\ ~panel.busy
  /\ panel' = [panel EXCEPT !.busy = TRUE]
  /\ Asks(IF panel.content = "file" THEN "file" ELSE "media", panel.of)
  /\ UNCHANGED <<mounted, current, btn, timer, pointer, frame, closers, clicks, moves>>

\* More...: the panel closes when the application was asked.
More ==
  /\ panel.open /\ panel.content = "options" /\ Asks("openInApp", panel.of)
  /\ UNCHANGED <<mounted, current, btn, panel, timer, pointer, frame, closers, clicks, moves>>

Sent(ask, ok) ==
  /\ ask.type \in {"media", "file"} /\ asks' = asks \ {ask}
  /\ panel' = [panel EXCEPT !.content = IF ok THEN "ok" ELSE "error", !.busy = FALSE]
  /\ closers' = IF ok THEN closers + 1 ELSE closers
  /\ UNCHANGED <<mounted, current, btn, timer, pointer, frame, clicks, moves>>

Opened(ask) ==
  /\ ask.type = "openInApp" /\ asks' = asks \ {ask} /\ ClosePanel
  /\ UNCHANGED <<mounted, current, timer, pointer, frame, closers, clicks, moves>>

\* setTimeout(closePanel) after a success.
Closer ==
  /\ closers > 0 /\ closers' = closers - 1 /\ ClosePanel
  /\ UNCHANGED <<mounted, current, timer, pointer, frame, asks, clicks, moves>>

Answered == \E ask \in asks, ok \in BOOLEAN : Analyzed(ask, ok) \/ Sent(ask, ok) \/ Opened(ask)

HvNext ==
  \/ Mount \/ \E a \in Anchors : EnterVideo(a) \/ Play(a)
  \/ EnterButton \/ LeaveVideo \/ LeavePage \/ Frame \/ HideTimer \/ Scroll
  \/ UserCloses \/ OpenPanel \/ Go \/ More \/ Closer \/ Pick
  \/ Answered

\* Frames are drawn, timers fire, requests are answered.
HvFairness == WF_hvVars(Frame) /\ WF_hvVars(HideTimer) /\ WF_hvVars(Closer) /\ WF_hvVars(Answered)

HvSpec == HvInit /\ [][HvNext]_hvVars /\ HvFairness

-----------------------------------------------------------------------------
HvTypeOK ==
  /\ current \in Anchors \cup {NoAnchor} /\ timer \in {"none", "short", "long"}
  /\ panel.content \in {"empty", "loading", "file", "options", "ok", "error"}
  /\ btn => current \in Hits

\* A button the pointer has left does not stay: it goes, or the pointer comes
\* back, or a panel is open.
ButtonGoes == btn ~> ~btn \/ PointerInside \/ panel.open

\* The spinner never turns for ever.
LoadingEnds == panel.content = "loading" ~> panel.content # "loading"
===============================================================================
