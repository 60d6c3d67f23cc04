-------------------------------- MODULE Answers --------------------------------
(***************************************************************************)
(* The parts of the user interface that wait for answers and must not wait *)
(* for ever: the extension's takeover of downloads and its button in pages *)
(* and the dialog that adds a download.  They share no state, so each is   *)
(* checked alone: part names the one that takes steps, the others stay in  *)
(* their initial states.  The constants are those of the parts.            *)
(***************************************************************************)
EXTENDS Integers, Sequences, FiniteSets, TLC, TLAPS

CONSTANTS
  Urls, MaxUser, MaxItems, MaxChanges, MaxPauses, MaxKills, MaxOutages, \* of Takeover
  Anchors, Adapters, Site, MaxClicks, MaxMoves,                         \* of HoverPanel
  Links, MediaLinks, MaxEdits, MaxOpens, MaxSends                       \* of AddDialog

VARIABLES
  part,  \* the component that runs
  items, handler, conf, passThrough, stored, startup, app, left,
  mounted, current, btn, panel, timer, pointer, frame, asks, closers, clicks, moves,
  form, probes, dups, reads, sends, added, opens, edits

T == INSTANCE TakeoverProofs
H == INSTANCE HoverPanel
Ad == INSTANCE AddDialogProofs

\* For TLC: a plain file and a stream.
TwoAnchors == [el : {"video"}, video : {TRUE}, big : {TRUE}, src : {"http", "blob"}]

ASSUME Assumptions ==
  /\ T!TakeoverAssumption
  /\ H!HoverAssumption
  /\ Ad!AddAssumption

TVars == <<items, handler, conf, passThrough, stored, startup, app, left>>
HVars == <<mounted, current, btn, panel, timer, pointer, frame, asks, closers, clicks, moves>>
AdVars == <<form, probes, dups, reads, sends, added, opens, edits>>

vars == <<part, TVars, HVars, AdVars>>

Init ==
  /\ part \in {"takeover", "hover", "add dialog"}
  /\ T!TkInit /\ H!HvInit /\ Ad!AdInit

\* Only the component that was chosen takes steps.
Takeover ==
  /\ part = "takeover" /\ T!TkNext
  /\ UNCHANGED <<part, HVars, AdVars>>
Hover ==
  /\ part = "hover" /\ H!HvNext
  /\ UNCHANGED <<part, TVars, AdVars>>
AddDialog ==
  /\ part = "add dialog" /\ Ad!AdNext
  /\ UNCHANGED <<part, TVars, HVars>>

Next ==
  \/ Takeover \/ Hover \/ AddDialog

\* Fairness of the components, each while it is the one that runs.
Fairness ==
  /\ \A i \in 1 .. MaxItems : /\ WF_TVars(part = "takeover" /\ T!HandlerStep(i))
                              /\ WF_TVars(part = "takeover" /\ T!BrowserFinishes(i))
  /\ WF_HVars(part = "hover" /\ H!Frame) /\ WF_HVars(part = "hover" /\ H!HideTimer)
  /\ WF_HVars(part = "hover" /\ H!Closer) /\ WF_HVars(part = "hover" /\ H!Answered)
  /\ WF_AdVars(part = "add dialog" /\ Ad!ProbeStep) /\ WF_AdVars(part = "add dialog" /\ Ad!AddStep)

Spec == Init /\ [][Next]_vars /\ Fairness

-----------------------------------------------------------------------------
\* Every component keeps its types.
TypesOK ==
  /\ part = "takeover" => T!TkTypeOK
  /\ part = "hover" => H!HvTypeOK
  /\ part = "add dialog" => Ad!AdTypeOK

(* Each of the following is stated and commented part by part in the modules, with the cases it excepts. *)

\* What the user wants downloaded is handed over once and by one of the two: a download
\* that was taken is with the application, with its handler or with the browser again,
\* unless the worker was ended in one of the three steps in which only the handler knows
\* of it or the browser refused it back; it is not taken twice, unless a reply was lost;
\* and the dialog adds once, however fast the button is pressed, unless the folder is
\* remembered first.
HandedOverOnce ==
  /\ part = "takeover" => T!Conserved /\ T!TakenOnce /\ T!OwnStays
  /\ part = "add dialog" => Ad!AddedOnce

\* What the dialog says about a link is about the link, folder and name it shows, in
\* whatever order the answers come, and an untouched folder is that of the category shown.
AnswersFit ==
  /\ part = "add dialog" => Ad!ProbeIsOfLink /\ Ad!DupIsOfForm /\ Ad!DirFollows

\* Nobody waits for ever: each download settles, with the application or in the browser,
\* even if the application never answers again; a button the pointer has left goes; spinners
\* stop; the dialog is not busy or checking for ever.
WaitsEnd == T!Settles /\ H!ButtonGoes /\ H!LoadingEnds /\ Ad!BusyEnds /\ Ad!CheckingEnds

-----------------------------------------------------------------------------
(* Proofs, for all values of the constants.  The inductive invariants of the takeover and of  *)
(* the dialog are in TakeoverProofs and AddDialogProofs; that of the button is stated here.   *)

\* hover.js: requests, the one panel and the button are about a video of the page or
\* about none.
OfVideos == Anchors \cup {H!NoAnchor}

HvInv ==
  /\ current \in OfVideos /\ timer \in {"none", "short", "long"} /\ (btn => current \in H!Hits)
  /\ panel \in [open : BOOLEAN, content : {"empty", "loading", "file", "options", "ok", "error"}, of : OfVideos,
                busy : BOOLEAN]
  /\ asks \subseteq [type : {"analyze", "media", "file", "openInApp"}, of : OfVideos, n : Nat]
  /\ clicks \in Nat

LEMMA BlankTyped ==
  H!Blank \in [open : BOOLEAN, content : {"empty", "loading", "file", "options", "ok", "error"}, of : OfVideos,
               busy : BOOLEAN]
  BY DEF H!Blank, OfVideos

LEMMA HvInitHolds == ASSUME H!HvInit PROVE HvInv
  BY BlankTyped DEF H!HvInit, HvInv, OfVideos

\* The pointer, the videos and the timers: the panel and the requests stay.
LEMMA PointerKeeps ==
  ASSUME HvInv,
         \/ H!Mount \/ \E a \in Anchors : H!EnterVideo(a) \/ H!Play(a)
         \/ H!EnterButton \/ H!LeaveVideo \/ H!LeavePage \/ H!Frame \/ H!HideTimer \/ H!Scroll
  PROVE  HvInv'
<1>1. UNCHANGED <<panel, asks, clicks>>
  BY DEF H!Mount, H!EnterVideo, H!Play, H!EnterButton, H!LeaveVideo, H!LeavePage, H!Frame, H!HideTimer, H!Scroll
<1>2. H!Hits \subseteq Anchors
  BY DEF H!Hits
<1>3. current' \in OfVideos /\ timer' \in {"none", "short", "long"} /\ (btn' => current' \in H!Hits)
  BY <1>2 DEF HvInv, OfVideos, H!Show, H!Mount, H!EnterVideo, H!Play, H!EnterButton, H!LeaveVideo, H!LeavePage,
              H!Frame, H!HideTimer, H!Scroll
<1> QED
  BY <1>1, <1>3 DEF HvInv

\* A request is made of what the panel shows.
LEMMA AsksKeeps ==
  ASSUME HvInv, NEW type \in {"media", "file", "openInApp"}, H!Asks(type, panel.of)
  PROVE  asks' \subseteq [type : {"analyze", "media", "file", "openInApp"}, of : OfVideos, n : Nat]
<1> DEFINE new == [type |-> type, of |-> panel.of, n |-> clicks]
<1>1. asks' = asks \cup {new}
  BY DEF H!Asks
<1>2. new \in [type : {"analyze", "media", "file", "openInApp"}, of : OfVideos, n : Nat]
  BY DEF HvInv
<1> HIDE DEF new
<1> QED
  BY <1>1, <1>2 DEF HvInv

LEMMA PanelKeeps ==
  ASSUME HvInv, H!UserCloses \/ H!OpenPanel \/ H!Go \/ H!More \/ H!Closer \/ H!Pick
  PROVE  HvInv'
<1>1. CASE H!UserCloses \/ H!Closer
  BY <1>1, BlankTyped DEF HvInv, H!UserCloses, H!Closer, H!ClosePanel
<1>2. CASE H!OpenPanel
  <2> DEFINE new == [type |-> "analyze", of |-> current, n |-> clicks]
  <2>1. new \in [type : {"analyze", "media", "file", "openInApp"}, of : OfVideos, n : Nat]
    BY DEF HvInv
  <2>2. asks' = asks \/ asks' = asks \cup {new}
    BY <1>2 DEF H!OpenPanel
  <2> HIDE DEF new
  <2>3. asks' \subseteq [type : {"analyze", "media", "file", "openInApp"}, of : OfVideos, n : Nat]
    BY <2>1, <2>2 DEF HvInv
  <2>4. panel' \in [open : BOOLEAN, content : {"empty", "loading", "file", "options", "ok", "error"}, of : OfVideos,
                    busy : BOOLEAN]
    BY <1>2 DEF HvInv, H!OpenPanel, H!Blank
  <2> QED
    BY <1>2, <2>3, <2>4 DEF HvInv, H!OpenPanel
<1>3. CASE H!Go
  <2>1. PICK type \in {"media", "file", "openInApp"} : H!Asks(type, panel.of)
    BY <1>3 DEF H!Go
  <2>2. panel' \in [open : BOOLEAN, content : {"empty", "loading", "file", "options", "ok", "error"}, of : OfVideos,
                    busy : BOOLEAN]
    BY <1>3 DEF HvInv, H!Go
  <2> QED
    BY <1>3, <2>1, <2>2, AsksKeeps DEF HvInv, H!Go
<1>4. CASE H!More
  <2>1. H!Asks("openInApp", panel.of)
    BY <1>4 DEF H!More
  <2> QED
    BY <1>4, <2>1, AsksKeeps DEF HvInv, H!More
<1>5. CASE H!Pick
  BY <1>5 DEF HvInv, H!Pick
<1> QED
  BY <1>1, <1>2, <1>3, <1>4, <1>5

\* An answer fills the one panel with what was asked about.
LEMMA AnsweredKeeps == ASSUME HvInv, H!Answered PROVE HvInv'
<1>1. PICK ask \in asks, ok \in BOOLEAN : H!Analyzed(ask, ok) \/ H!Sent(ask, ok) \/ H!Opened(ask)
  BY DEF H!Answered
<1>2. asks' \subseteq asks /\ UNCHANGED <<current, timer, clicks>> /\ (btn' => btn) /\ ask.of \in OfVideos
  BY <1>1 DEF HvInv, H!Analyzed, H!Sent, H!Opened, H!ClosePanel
<1>3. panel' \in [open : BOOLEAN, content : {"empty", "loading", "file", "options", "ok", "error"}, of : OfVideos,
                  busy : BOOLEAN]
  BY <1>1, <1>2, BlankTyped DEF HvInv, H!Analyzed, H!Sent, H!Opened, H!ClosePanel
<1> QED
  BY <1>2, <1>3 DEF HvInv

LEMMA HvStepKeeps == ASSUME HvInv, [H!HvNext]_HVars PROVE HvInv'
<1>1. CASE UNCHANGED HVars
  BY <1>1 DEF HVars, HvInv
<1> QED
  BY <1>1, PointerKeeps, PanelKeeps, AnsweredKeeps DEF H!HvNext

\* Every part keeps its own, whichever takes the steps.
Inv == T!TkInv /\ HvInv /\ Ad!AdInv

LEMMA InitHolds == Init => Inv
<1> SUFFICES ASSUME Init PROVE Inv
  OBVIOUS
<1>1. T!TkInv
  BY Assumptions, T!TkInitHolds DEF Init
<1>2. HvInv
  BY HvInitHolds DEF Init
<1>3. Ad!AdInv
  BY Assumptions, Ad!AdInitHolds DEF Init
<1> QED
  BY <1>1, <1>2, <1>3 DEF Inv

LEMMA StepKeeps == Inv /\ [Next]_vars => Inv'
<1> SUFFICES ASSUME Inv, [Next]_vars PROVE Inv'
  OBVIOUS
<1>1. [T!TkNext]_(T!tkVars) /\ [H!HvNext]_HVars /\ [Ad!AdNext]_(Ad!adVars)
  BY DEF Next, Takeover, Hover, AddDialog, vars, TVars, HVars, AdVars, T!tkVars, Ad!adVars
<1>2. T!TkInv'
  BY <1>1, Assumptions, T!TkStepKeeps DEF Inv
<1>3. HvInv'
  BY <1>1, HvStepKeeps DEF Inv
<1>4. Ad!AdInv'
  BY <1>1, Assumptions, Ad!AdStepKeeps DEF Inv
<1> QED
  BY <1>2, <1>3, <1>4 DEF Inv

LEMMA InvHolds == Spec => []Inv
  BY InitHolds, StepKeeps, PTL DEF Spec

\* The records of the takeover, of the button with its panel and of the dialog keep their
\* types, for any number of downloads, videos, links and changes.
THEOREM ComponentsTyped == Spec => []TypesOK
<1>1. Inv => TypesOK
  <2>1. Inv => T!TkTypeOK
    BY T!TkTyped DEF Inv
  <2>2. Inv => H!HvTypeOK
    BY DEF Inv, HvInv, H!HvTypeOK, OfVideos
  <2>3. Inv => Ad!AdTypeOK
    BY Assumptions, Ad!AdTyped DEF Inv
  <2> QED
    BY <2>1, <2>2, <2>3 DEF TypesOK
<1> QED
  BY <1>1, InvHolds, PTL

\* background.js and AddDownloadDialog.tsx hand over what the user wants once, whatever
\* runs into each other and whenever answers come, with the exceptions of HandedOverOnce.
THEOREM HandedOver == Spec => []HandedOverOnce
<1>1. Inv => HandedOverOnce
  <2>1. Inv => T!Conserved /\ T!TakenOnce /\ T!OwnStays
    BY T!TkConserved DEF Inv
  <2>2. Inv => Ad!AddedOnce
    BY Ad!OnceHolds DEF Inv
  <2> QED
    BY <2>1, <2>2 DEF HandedOverOnce
<1> QED
  BY <1>1, InvHolds, PTL

\* AddDownloadDialog.tsx and the notice inside it say of a link what belongs to it, in
\* whatever order the core answers.
THEOREM AnswersBelong == Spec => []AnswersFit
<1>1. Inv => AnswersFit
  BY Ad!FitsShown DEF Inv, AnswersFit
<1> QED
  BY <1>1, InvHolds, PTL
=============================================================================
