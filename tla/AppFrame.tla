------------------------------- MODULE AppFrame -------------------------------
(***************************************************************************)
(* The main window around its screens (app/src/App.tsx, Shell.tsx and      *)
(* context.tsx in app/src/app): which screen is shown and what the list is  *)
(* filtered by, the tree of categories and queues with its counts, the     *)
(* menus, the shortcuts, what other windows and the core hand over to a    *)
(* screen, and the dialogs laid over everything.                           *)
(*                                                                         *)
(* rows, queues and onboarded are what the store shows of the core; how    *)
(* they change is external here (module Store).  The screens themselves    *)
(* have modules of their own.  Bounds: MaxChanges changes of the store,    *)
(* MaxSteps navigations, MaxPastes reads of the clipboard or of a torrent. *)
(***************************************************************************)
EXTENDS Naturals, FiniteSets, Sequences

CONSTANTS Ids, CategoryOf, QueueOf, Categories, MaxChanges, MaxSteps, MaxPastes

AppFrameAssumption ==
  /\ CategoryOf \in [Ids -> Categories] /\ QueueOf \in [Ids -> {"main", "q1"}]
  /\ {MaxChanges, MaxSteps, MaxPastes} \subseteq Nat

VARIABLES
  rows, queues, onboarded, changes,      \* the store
  view, filter, selection, inspector,    \* AppContext
  add, media, grab, section,             \* what is handed to a dialog or a screen
  narrow, open,                          \* the sidebar
  menu, welcome, about, power,           \* over the screens
  asked,                                 \* notices and copied links still on show
  pastes, toRead, steps

storeVars == <<rows, queues, onboarded, changes>>
screenVars == <<view, filter, selection, inspector>>
handVars == <<add, media, grab, section>>
overVars == <<menu, welcome, about, power, asked>>
barVars == <<narrow, open>>
afVars == <<storeVars, screenVars, handVars, overVars, barVars, pastes, toRead, steps>>

Scopes == {"all", "unfinished", "finished", "queue"}
Views == {"downloads", "scheduled", "browser", "media", "video", "grabber", "batch", "airsend", "settings"}
ListFilter == [scope : Scopes, category : Categories \cup {""}, queueId : {"", "main", "q1"}]
Filter(s, c, q) == [scope |-> s, category |-> c, queueId |-> q]

\* The state of the window when it opens.
AfInit ==
  /\ rows \in {[id \in Ids |-> "downloading"], [id \in Ids |-> "absent"]} /\ queues = <<"main", "q1">> /\ onboarded \in BOOLEAN /\ changes = 0
  /\ view = "downloads" /\ filter = Filter("all", "", "") /\ selection = {} /\ inspector = FALSE
  /\ add = "none" /\ media = "none" /\ grab = "none" /\ section = "general"
  /\ narrow \in BOOLEAN /\ open = {"all"}
  /\ menu = <<>> /\ welcome = ~onboarded /\ about = FALSE /\ power = FALSE /\ asked = {}
  /\ pastes = 0 /\ toRead = {} /\ steps = 0

-----------------------------------------------------------------------------
(* The list and the tree beside it *)

Finished(id) == rows[id] \in {"completed", "seeding"}

\* What the list shows under a filter, nothing searched for.
Listed(f) == {id \in Ids :
  /\ rows[id] # "absent"
  /\ f.scope = "unfinished" => ~Finished(id)
  /\ f.scope = "finished" => Finished(id)
  /\ f.scope = "queue" => QueueOf[id] = (IF f.queueId = "" THEN "main" ELSE f.queueId) /\ ~Finished(id)
  /\ f.category # "" => CategoryOf[id] = f.category}

CountUnseeded(s) == Cardinality({id \in Ids : rows[id] # "absent" /\ (rows[id] = "completed") = (s = "finished")})

\* The counts beside the tree's entries.
Count(s) == Cardinality({id \in Ids : rows[id] # "absent" /\ Finished(id) = (s = "finished")})

\* The screens the tree leads to, and which entry is the current one.
Screens == {"grabber", "video", "batch", "airsend"}
IsList(f) == view = "downloads" /\ filter = f
Entry(v, f, c) == [view |-> v, list |-> f, current |-> c]
List(f) == Entry("downloads", f, IsList(f))
Screen(v) == Entry(v, Filter("all", "", ""), view = v)

FirstQueue == IF queues = <<>> THEN "main" ELSE queues[1]

\* The wide sidebar: a root is followed by its children when it is open.
Tree ==
  {List(Filter(s, "", "")) : s \in {"all", "unfinished", "finished"}}
  \cup {List(Filter(s, c, "")) : s \in open \cap {"all", "unfinished", "finished"}, c \in Categories}
  \cup {Entry("downloads", Filter("queue", "", FirstQueue), view = "downloads" /\ filter.scope = "queue")}
  \cup (IF "queues" \in open THEN {List(Filter("queue", "", queues[i])) : i \in 1 .. Len(queues)} ELSE {})
  \cup {Screen(v) : v \in Screens}

\* The narrow one: the lists as icons.
Icons ==
  {List(Filter(s, "", IF s = "queue" THEN "main" ELSE "")) : s \in Scopes} \cup {Screen(v) : v \in Screens}

\* The screen a view is shown by; older names of the list still lead to it.
Content(v) == IF v \in {"downloads", "finished", "torrents", "queue"} THEN "DownloadsView" ELSE v

Entries == IF narrow THEN Icons ELSE Tree

Step == steps < MaxSteps /\ steps' = steps + 1

Toggle(k) ==
  /\ ~narrow /\ Step /\ open' = IF k \in open THEN open \ {k} ELSE open \cup {k}
  /\ UNCHANGED <<storeVars, screenVars, handVars, overVars, narrow, pastes, toRead>>

Resize ==
  /\ Step /\ narrow' = ~narrow
  /\ UNCHANGED <<storeVars, screenVars, handVars, overVars, open, pastes, toRead>>

-----------------------------------------------------------------------------
(* Navigation *)

NavigateKeeps(v) == view' = v /\ UNCHANGED <<filter, selection, inspector>>

Navigate(v) == view' = v /\ selection' = {} /\ UNCHANGED <<filter, inspector>>

ToList(f) == view' = "downloads" /\ filter' = f /\ selection' = {}

\* showList with parts of a filter keeps nothing of the filter before.
ShowListKept(s, c, q) == ToList(Filter(s, c, IF q = "" THEN filter.queueId ELSE q)) /\ UNCHANGED inspector

ShowList(s, c, q) == ToList(Filter(s, c, q)) /\ UNCHANGED inspector

OpenSettings(s) == section' = s /\ Navigate("settings") /\ UNCHANGED <<add, media, grab>>

OpenAdd(req) == add' = req /\ UNCHANGED <<media, grab, section>>

OpenMedia(req) == media' = req /\ Navigate("video") /\ UNCHANGED <<add, grab, section>>

OpenGrabber(req) == grab' = req /\ Navigate("grabber") /\ UNCHANGED <<add, media, section>>

Go(v) == Navigate(v) /\ UNCHANGED handVars

GoList(s, c, q) == ShowList(s, c, q) /\ UNCHANGED handVars

Stay == UNCHANGED <<screenVars, handVars>>

\* What the window shows: a screen, the banner above it, the dialogs over it.
Window == [screen |-> Content(view), bar |-> Entries, banner |-> power,
           over |-> {d \in {"add", "welcome", "about"} :
                      \/ d = "add" /\ add # "none"
                      \/ d = "welcome" /\ welcome
                      \/ d = "about" /\ about}]

\* Whether a dialog is open: its backdrop takes the clicks.
Modal == Window.over # {}

Enter(e) ==
  /\ ~Modal /\ Step /\ e \in Entries
  /\ IF e.view \in Screens THEN Go(e.view) ELSE GoList(e.list.scope, e.list.category, e.list.queueId)
  /\ menu' = <<>> /\ UNCHANGED <<storeVars, barVars, welcome, about, power, asked, pastes, toRead>>

-----------------------------------------------------------------------------
(* The menu bar.  The items are made when the menu opens: Details panel     *)
(* sets the opposite of what was shown then.                                *)

Items(name) ==
  CASE name = "File" -> {<<"torrent">>, <<"core">>}
    [] name = "Tasks" -> {<<"add">>, <<"paste">>, <<"go", "batch">>, <<"video">>, <<"go", "grabber">>, <<"go", "scheduled">>}
    [] name = "Downloads" -> {<<"core">>, <<"settings", "downloads">>}
    [] name = "View" -> {<<"core">>, <<"panel", IF inspector THEN "hide" ELSE "show">>, <<"go", "browser">>, <<"go", "media">>}
    [] name = "Help" -> {<<"welcome">>, <<"go", "browser">>, <<"settings", "general">>, <<"about">>}

ShowMenu(name) ==
  /\ ~Modal /\ Step
  /\ menu' = <<name, Items(name)>>
  /\ UNCHANGED <<storeVars, screenVars, handVars, barVars, welcome, about, power, asked, pastes, toRead>>

\* Reading the clipboard, or picking and reading a torrent file, takes a while.
Read(kind) == pastes < MaxPastes /\ pastes' = pastes + 1 /\ toRead' = toRead \cup {<<pastes, kind>>}
PasteLink == Read("clipboard")
PickTorrent == Read("torrent")

\* The dialog opens with the link the clipboard holds, or empty.
ClipboardRead(r, req) ==
  /\ r \in toRead /\ r[2] = "clipboard" /\ toRead' = toRead \ {r} /\ OpenAdd(req)
  /\ UNCHANGED <<storeVars, screenVars, overVars, barVars, pastes, steps>>

\* It opens with the torrent, or not at all: no file chosen, or not a torrent.
TorrentRead(r) ==
  /\ r \in toRead /\ r[2] = "torrent" /\ toRead' = toRead \ {r}
  /\ OpenAdd("torrent") \/ UNCHANGED handVars
  /\ UNCHANGED <<storeVars, screenVars, overVars, barVars, pastes, steps>>

Choose(i) ==
  /\ menu # <<>> /\ i \in menu[2] /\ menu' = <<>>
  /\ CASE i[1] = "add" -> OpenAdd("empty") /\ UNCHANGED screenVars
       [] i[1] = "video" -> OpenMedia("none")
       [] i[1] = "go" -> Go(i[2])
       [] i[1] = "settings" -> OpenSettings(i[2])
       [] i[1] = "panel" -> inspector' = (i[2] = "show") /\ UNCHANGED <<view, filter, selection, handVars>>
       [] i[1] \in {"core", "welcome", "about", "paste", "torrent"} -> Stay
  /\ CASE i[1] = "paste" -> PasteLink
       [] i[1] = "torrent" -> PickTorrent
       [] OTHER -> UNCHANGED <<pastes, toRead>>
  /\ welcome' = (welcome \/ i[1] = "welcome") /\ about' = (about \/ i[1] = "about")
  /\ UNCHANGED <<storeVars, barVars, power, asked, steps>>

-----------------------------------------------------------------------------
(* Shortcuts.  None works behind a dialog.                                  *)

\* Ctrl 1 .. 4
NavOrder == [k \in {"1", "2", "3", "4"} |->
  CASE k = "1" -> Filter("all", "", "") [] k = "2" -> Filter("unfinished", "", "")
    [] k = "3" -> Filter("finished", "", "") [] k = "4" -> Filter("queue", "", "main")]

OnKey(k) ==
  /\ ~Modal /\ Step
  /\ \/ k = "n" /\ OpenAdd("empty") /\ UNCHANGED <<screenVars, pastes, toRead>>
     \/ k = "f" /\ (IF view # "downloads" THEN ShowList("all", "", "") ELSE UNCHANGED screenVars)
                /\ UNCHANGED <<handVars, pastes, toRead>>
     \/ k = "," /\ Go("settings") /\ UNCHANGED <<pastes, toRead>>
     \/ k = "i" /\ inspector' = ~inspector /\ UNCHANGED <<view, filter, selection, handVars, pastes, toRead>>
     \/ k \in DOMAIN NavOrder /\ GoList(NavOrder[k].scope, "", NavOrder[k].queueId) /\ UNCHANGED <<pastes, toRead>>
     \/ k = "v" /\ PasteLink /\ Stay
  /\ UNCHANGED <<storeVars, barVars, overVars>>

\* Ctrl Shift O shows the folder of what is selected, wherever it is selected.
OpensFolder == {id \in selection : Cardinality(selection) = 1}

-----------------------------------------------------------------------------
(* The list, as far as the frame is concerned (module DownloadsScreen)      *)

\* A click in the list selects a row.
Select(id) ==
  /\ ~Modal /\ Step /\ menu = <<>> /\ Content(view) = "DownloadsView" /\ id \in Listed(filter) /\ selection' = {id}
  /\ UNCHANGED <<storeVars, view, filter, inspector, handVars, overVars, barVars, pastes, toRead>>

\* What is not listed any more is not selected any more, while the list is shown.
Prune(r) == selection' = IF Content(view) = "DownloadsView" THEN selection \cap r ELSE selection

-----------------------------------------------------------------------------
(* Events of the core, and the toasts and dialogs they open *)

HandleEvent(e) ==
  /\ Step
  /\ \/ e = "promptAdd" /\ OpenAdd("handed") /\ UNCHANGED <<screenVars, asked, power>>
     \/ e = "promptMedia" /\ OpenMedia("handed") /\ UNCHANGED <<asked, power>>
     \/ e = "grab" /\ OpenGrabber("handed") /\ UNCHANGED <<asked, power>>
     \/ e = "clipboardUrl" /\ asked' = asked \cup {"copied"} /\ Stay /\ UNCHANGED power
     \/ e \in Ids /\ rows[e] # "absent" /\ asked' = asked \cup {e} /\ Stay /\ UNCHANGED power
     \/ e \in {"powerCountdown", "powerCancelled"} /\ power' = (e = "powerCountdown") /\ Stay /\ UNCHANGED asked
  /\ UNCHANGED <<storeVars, barVars, menu, welcome, about, pastes, toRead>>

\* Show, on a notice about a download: toasts lie over dialogs.  The row is
\* selected in the same click, if the list shows it.
Show(id) ==
  /\ id \in asked /\ Step /\ asked' = asked \ {id}
  /\ view' = "downloads" /\ filter' = Filter("all", "", "") /\ inspector' = TRUE
  /\ selection' = {id} \cap Listed(Filter("all", "", ""))
  /\ UNCHANGED <<storeVars, handVars, barVars, menu, welcome, about, power, pastes, toRead>>

DownloadCopied ==
  /\ "copied" \in asked /\ Step /\ asked' = asked \ {"copied"} /\ OpenAdd("copied")
  /\ UNCHANGED <<storeVars, screenVars, barVars, menu, welcome, about, power, pastes, toRead>>

CloseAdd ==
  /\ add # "none" /\ add' = "none"
  /\ UNCHANGED <<storeVars, screenVars, media, grab, section, overVars, barVars, pastes, toRead, steps>>

CloseOver ==
  /\ \/ welcome /\ welcome' = FALSE /\ UNCHANGED about
     \/ ~welcome /\ about /\ about' = FALSE /\ UNCHANGED welcome
  /\ UNCHANGED <<storeVars, screenVars, handVars, menu, power, asked, barVars, pastes, toRead, steps>>

CancelPower ==
  /\ ~Modal /\ power /\ power' = FALSE
  /\ UNCHANGED <<storeVars, screenVars, handVars, menu, welcome, about, asked, barVars, pastes, toRead, steps>>

-----------------------------------------------------------------------------
(* The store *)

Change == changes < MaxChanges /\ changes' = changes + 1

RowChanges(id, s) ==
  /\ Change /\ rows[id] # s /\ rows' = [rows EXCEPT ![id] = s] /\ UNCHANGED <<queues, onboarded>>
  /\ view' = view /\ filter' = filter /\ Prune(Listed(filter)')
  /\ UNCHANGED <<inspector, handVars, overVars, barVars, pastes, toRead, steps>>

QueueChanges ==
  /\ Change /\ queues' \in {<<"main">>, <<"main", "q1">>} \ {queues}
  /\ UNCHANGED <<rows, onboarded, screenVars, handVars, overVars, barVars, pastes, toRead, steps>>

-----------------------------------------------------------------------------
(* Properties *)

AfTypeOK ==
  /\ rows \in [Ids -> {"downloading", "completed", "seeding", "absent"}] /\ Len(queues) <= 2
  /\ onboarded \in BOOLEAN /\ changes \in 0 .. MaxChanges
  /\ view \in Views /\ filter \in ListFilter /\ selection \subseteq Ids /\ inspector \in BOOLEAN
  /\ add \in {"none", "empty", "pasted", "handed", "copied", "torrent"} /\ media \in {"none", "handed"} /\ grab \in {"none", "handed"}
  /\ section \in {"general", "downloads"} /\ narrow \in BOOLEAN /\ open \subseteq {"all", "unfinished", "finished", "queues"}
  /\ Len(menu) \in {0, 2} /\ {welcome, about, power} \subseteq BOOLEAN /\ asked \subseteq Ids \cup {"copied"}
  /\ pastes \in 0 .. MaxPastes /\ toRead \subseteq (0 .. MaxPastes) \X {"clipboard", "torrent"} /\ steps \in 0 .. MaxSteps

\* The branch of the filter is open, and its queue is one of the list.
InBranch ==
  /\ filter.category # "" => filter.scope \in open
  /\ filter.scope = "queue" => "queues" \in open /\ \E i \in 1 .. Len(queues) : queues[i] = filter.queueId

\* However the list was reached (tree, icons, shortcut, notice, menu), the tree
\* marks an entry that leads to just this list, unless its queue was deleted or
\* its branch is closed; and no second one but the root of the queues.
EntryCurrent ==
  view = "downloads" /\ ~narrow =>
    LET marked == {e \in Tree : e.current} IN
      /\ InBranch => \E e \in marked : e.list = filter
      /\ \A e \in marked : e.list = filter \/ (filter.scope = "queue" /\ e.list.scope = "queue")

\* The tree counts what its entries list.
CountsOfLists == \A s \in {"unfinished", "finished"} : Count(s) = Cardinality(Listed(Filter(s, "", "")))

\* Nothing is selected that the screen does not show as selected: a shortcut
\* that acts on the selection works on every screen.
SelectionShown == selection # {} => view = "downloads" /\ selection \subseteq Listed(filter)

NextFrame ==
  \/ \E k \in {"all", "unfinished", "finished", "queues"} : Toggle(k)
  \/ Resize \/ CloseAdd \/ CloseOver \/ CancelPower \/ DownloadCopied \/ QueueChanges
  \/ \E e \in Entries : Enter(e)
  \/ \E name \in {"File", "Tasks", "Downloads", "View", "Help"} : ShowMenu(name)
  \/ menu # <<>> /\ \E i \in menu[2] : Choose(i)
  \/ \E k \in {"n", "f", ",", "i", "v", "1", "2", "3", "4"} : OnKey(k)
  \/ \E r \in toRead : TorrentRead(r) \/ \E req \in {"empty", "pasted"} : ClipboardRead(r, req)
  \/ \E e \in {"promptAdd", "promptMedia", "grab", "clipboardUrl", "powerCountdown", "powerCancelled"} \cup Ids : HandleEvent(e)
  \/ \E id \in Ids : \/ Select(id) \/ Show(id)
                     \/ \E s \in {"downloading", "completed", "seeding", "absent"} : RowChanges(id, s)

AfSpec == AfInit /\ [][NextFrame]_afVars

=============================================================================
