----------------------------- MODULE VideoScreen -----------------------------
(***************************************************************************)
(* The video downloader (app/views/VideoDownloaderView.tsx): a link is     *)
(* looked up, its answer offers qualities and, for a playlist, entries,    *)
(* and the choice is sent to the core.  A link may come from outside       *)
(* (mediaPrefill: the browser, the Add dialog, another screen) while one   *)
(* is being looked up.                                                     *)
(*                                                                         *)
(* What the answer has no influence on (bit rate, format, subtitles,       *)
(* cover, folder) is one option.  A step includes the effects of the       *)
(* rendering it causes.  The core is external: it answers a lookup in any  *)
(* order, or with an error.                                                *)
(* Bound: MaxLookups lookups and cancels of them.                          *)
(***************************************************************************)
EXTENDS Naturals, FiniteSets, Sequences

CONSTANTS
  Links,       \* that are looked up; None is what is no address
  Heights,     \* of a link: the qualities, the highest first
  Audio,       \* the links that have an audio track
  Entries,     \* of a link: the entries, if it is taken as a playlist
  ListOnly,    \* the links that name a playlist and no video of it
  Preferred,   \* settings.videoHeight
  MaxLookups

VideoAssumption ==
  /\ Audio \cup ListOnly \subseteq Links /\ Preferred \in Nat /\ MaxLookups \in Nat
  /\ DOMAIN Heights = Links /\ DOMAIN Entries = Links

VARIABLES
  open, prefill,           \* the screen is shown; the link handed over last
  link, playlist,          \* the form
  info, loading, error,
  mode, height, items, option,
  reqId, calls,            \* lookups on their way
  menu,                    \* the queue menu: what it would send
  busy, sent               \* sent: the last request

formVars == <<link, playlist>>
choiceVars == <<mode, height, items, option>>
vsVars == <<open, prefill, formVars, info, loading, error, choiceVars, reqId, calls, menu, busy, sent>>

None == "none"
NoInfo == [id |-> 0, link |-> None, whole |-> FALSE]
NoRequest == [link |-> None, whole |-> FALSE, height |-> 0, items |-> {}, ticked |-> {}]
HasList(l) == l # None /\ Entries[l] # {}   \* hasListParam
IsPlaylist(i) == i.whole /\ HasList(i.link)

VsInit ==
  /\ open = FALSE /\ prefill = None /\ link = None /\ playlist = FALSE
  /\ info = NoInfo /\ loading = FALSE /\ error = FALSE
  /\ mode = "video" /\ height = 0 /\ items = {} /\ option = FALSE
  /\ reqId = 0 /\ calls = {} /\ menu = NoRequest /\ busy = FALSE /\ sent = NoRequest

\* The best quality that is not above the preferred one, else the lowest.
PickDefault(l) ==
  LET h == Heights[l]
      fits == {i \in DOMAIN h : h[i] <= Preferred} IN
    IF h = <<>> THEN 0 ELSE IF fits = {} THEN h[Len(h)] ELSE h[CHOOSE i \in fits : \A j \in fits : i <= j]

-----------------------------------------------------------------------------
(* Looking up *)

\* analyze.  What is no address is refused, and nothing else happens.
Analyze(l, whole) ==
  IF l = None THEN error' = TRUE /\ UNCHANGED <<info, loading, reqId, calls>>
  ELSE /\ reqId < MaxLookups /\ reqId' = reqId + 1
       /\ calls' = calls \cup {[id |-> reqId', link |-> l, whole |-> whole]}
       /\ loading' = TRUE /\ error' = FALSE /\ info' = NoInfo

\* Mutated form: the answer of the lookup is still awaited.
CancelKeeps == loading' = FALSE /\ UNCHANGED reqId

\* cancel: the answer is ignored when it comes.
Cancel == reqId < MaxLookups /\ reqId' = reqId + 1 /\ loading' = FALSE

Reset == open /\ menu' = NoRequest /\ UNCHANGED <<open, prefill, busy, sent>>

Type(l) == Reset /\ link' = l /\ UNCHANGED <<playlist, info, loading, error, choiceVars, reqId, calls>>

Submit == Reset /\ Analyze(link, playlist) /\ UNCHANGED <<formVars, choiceVars>>

\* The Cancel button, Escape.
CancelLookup ==
  Reset /\ loading /\ Cancel /\ UNCHANGED <<formVars, info, error, choiceVars, calls>>

\* The Clear button; Escape while nothing is looked up.
Clear ==
  /\ Reset /\ (link # None \/ info # NoInfo \/ error)
  /\ Cancel /\ link' = None /\ info' = NoInfo /\ error' = FALSE /\ playlist' = FALSE
  /\ UNCHANGED <<choiceVars, calls>>

\* With an answer shown, it is looked up again.
SetPlaylist ==
  /\ Reset /\ HasList(link) /\ playlist' = ~playlist
  /\ IF info # NoInfo THEN Analyze(link, playlist') ELSE UNCHANGED <<info, loading, error, reqId, calls>>
  /\ UNCHANGED <<link, choiceVars>>

\* A link is handed over: the screen is shown and the link looked up.
Prefilled(l, whole) ==
  /\ link' = l /\ playlist' = whole
  /\ IF l # None THEN Analyze(l, whole) ELSE UNCHANGED <<info, loading, error, reqId, calls>>

OpenMedia(l) ==
  /\ open' = TRUE /\ prefill' = l
  /\ IF l = None /\ open THEN UNCHANGED <<formVars, info, loading, error, reqId, calls>>
     ELSE Prefilled(l, l \in ListOnly)
  /\ UNCHANGED <<choiceVars, menu, busy, sent>>

\* Shown again, the screen starts afresh, with the link handed over last.
Show == ~open /\ OpenMedia(prefill)

\* What the screen held is gone; nobody takes the answers.
Leave ==
  /\ open /\ open' = FALSE /\ link' = None /\ playlist' = FALSE
  /\ info' = NoInfo /\ loading' = FALSE /\ error' = FALSE
  /\ mode' = "video" /\ height' = 0 /\ items' = {} /\ option' = FALSE
  /\ calls' = {} /\ menu' = NoRequest /\ busy' = FALSE /\ UNCHANGED <<prefill, reqId, sent>>

\* Mutated form: the choice made for an earlier answer stays.
AnsweredKeeps(c) ==
  /\ info' = c /\ loading' = FALSE /\ UNCHANGED <<error, items, option>>
  /\ height' = IF height = 0 THEN PickDefault(c.link) ELSE height
  /\ mode' = IF Heights[c.link] = <<>> /\ c.link \in Audio THEN "audio" ELSE mode

Answered(c) ==
  /\ info' = c /\ loading' = FALSE /\ UNCHANGED <<error, option>>
  /\ height' = PickDefault(c.link)
  /\ items' = IF IsPlaylist(c) THEN Entries[c.link] ELSE {}
  /\ mode' = IF Heights[c.link] = <<>> /\ c.link \in Audio THEN "audio" ELSE mode

AnswerComes(c, ok) ==
  /\ calls' = calls \ {c}
  /\ IF c.id # reqId THEN UNCHANGED <<info, loading, error, choiceVars>>
     ELSE IF ok THEN Answered(c)
     ELSE error' = TRUE /\ loading' = FALSE /\ UNCHANGED <<info, choiceVars>>
  /\ UNCHANGED <<open, prefill, formVars, reqId, menu, busy, sent>>

-----------------------------------------------------------------------------
(* Choosing and downloading *)

Choose == Reset /\ info # NoInfo /\ UNCHANGED <<formVars, info, loading, error, reqId, calls>>

SetMode == Choose /\ mode' = (IF mode = "video" THEN "audio" ELSE "video") /\ UNCHANGED <<height, items, option>>

SetHeight ==
  /\ Choose /\ mode = "video" /\ \E i \in DOMAIN Heights[info.link] : height' = Heights[info.link][i]
  /\ UNCHANGED <<mode, items, option>>

SetOption == Choose /\ option' = ~option /\ UNCHANGED <<mode, height, items>>

\* An entry is ticked or not; all of them, or none.
Tick(new) == Choose /\ IsPlaylist(info) /\ items' = new /\ UNCHANGED <<mode, height, option>>

TickEntry(e) == info # NoInfo /\ e \in Entries[info.link] /\ Tick(IF e \in items THEN items \ {e} ELSE items \cup {e})

\* The entries are named unless all of them are wanted.  The link is the page the
\* answer names, which is the link looked up when the site names none (ytdlp.rs,
\* parse_info): never what was typed since.
Request ==
  [link |-> info.link, whole |-> IsPlaylist(info),
   height |-> IF mode = "video" THEN height ELSE 0,
   items |-> IF IsPlaylist(info) /\ Cardinality(items) < Cardinality(Entries[info.link]) THEN items ELSE {},
   ticked |-> items]

CanDownload == open /\ info # NoInfo /\ ~busy /\ ~(IsPlaylist(info) /\ items = {})

Sending(request) ==
  /\ sent' = request /\ busy' = TRUE /\ menu' = NoRequest
  /\ UNCHANGED <<open, prefill, formVars, info, loading, error, choiceVars, reqId, calls>>

\* To the only queue, or at once.
Download == CanDownload /\ Sending(Request)

\* The menu keeps what was chosen when it was opened.
OpenQueueMenu ==
  /\ CanDownload /\ menu = NoRequest /\ menu' = Request
  /\ UNCHANGED <<open, prefill, formVars, info, loading, error, choiceVars, reqId, calls, busy, sent>>

AddToQueue == open /\ menu # NoRequest /\ Sending(menu)

\* The core took it, or not.
Downloaded ==
  /\ busy /\ busy' = FALSE
  /\ UNCHANGED <<open, prefill, formVars, info, loading, error, choiceVars, reqId, calls, menu, sent>>

VsNext ==
  \/ Submit \/ CancelLookup \/ Clear \/ SetPlaylist \/ Show \/ Leave
  \/ \E l \in Links \cup {None} : Type(l) \/ OpenMedia(l)
  \/ \E c \in calls : \E ok \in BOOLEAN : AnswerComes(c, ok)
  \/ SetMode \/ SetHeight \/ SetOption
  \/ info # NoInfo /\ (Tick({}) \/ Tick(Entries[info.link]) \/ \E e \in Entries[info.link] : TickEntry(e))
  \/ Download \/ OpenQueueMenu \/ AddToQueue \/ Downloaded

VsSpec == VsInit /\ [][VsNext]_vsVars

-----------------------------------------------------------------------------
VsTypeOK ==
  /\ link \in Links \cup {None} /\ prefill \in Links \cup {None} /\ {playlist, loading, error, busy} \subseteq BOOLEAN
  /\ mode \in {"video", "audio"} /\ reqId \in 0 .. MaxLookups
  /\ \A c \in calls : c.link \in Links /\ c.id \in 1 .. reqId

\* The screen waits exactly as long as the newest lookup is not answered, and
\* what it shows is the newest lookup's answer: whatever was cancelled or
\* replaced never comes up.
LookupIsCurrent ==
  /\ loading <=> \E c \in calls : c.id = reqId
  /\ info # NoInfo => ~loading /\ info.id = reqId

\* What is sent to the core is a quality and a set of entries that the link has,
\* and a playlist is taken as a whole only if every entry was ticked.
RequestFits ==
  sent # NoRequest =>
    /\ sent.height # 0 => \E i \in DOMAIN Heights[sent.link] : Heights[sent.link][i] = sent.height
    /\ sent.whole =>
         sent.ticked # {} /\ sent.ticked \subseteq Entries[sent.link]
           /\ sent.ticked = IF sent.items = {} THEN Entries[sent.link] ELSE sent.items
===============================================================================
