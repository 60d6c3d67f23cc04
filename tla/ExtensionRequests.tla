--------------------------- MODULE ExtensionRequests ---------------------------
(***************************************************************************)
(* What the user asks of the extension by its menus and its pop-up         *)
(* (contextMenus.onClicked, onMessage and collectLinks of                  *)
(* extension/src/background.js, popup/popup.js): the worker reads the      *)
(* links of the tab, hands them or an address to the application through   *)
(* native messaging and says what failed.  Every await is a step between   *)
(* which the tab may go to another page.                                   *)
(*                                                                         *)
(* A page is a number; its elements are in document order.  All requests   *)
(* that hand over an address (a link, a media file, a page to look for     *)
(* videos in) or only show the application go one way, kind "address". The *)
(* application is external: it takes a request or refuses it.  What the    *)
(* pop-up lists of the media found is MediaDetection's; names that cannot  *)
(* be decoded, which end its script early, are left out.                   *)
(* Bounds: MaxMoves pages gone to, MaxCalls requests, MaxPopups pop-ups    *)
(* opened; MaxLinks stands for the 20000 of the code.                      *)
(***************************************************************************)
EXTENDS Naturals, Sequences
LOCAL INSTANCE SequencesExt

CONSTANTS
  Elements,    \* of each page, [url, media, selected] in document order
  Good,        \* addresses of a scheme the application takes
  WebPages,    \* pages of http or https, others cannot be read
  MaxMoves, MaxCalls, MaxPopups, MaxLinks

Pages == DOMAIN Elements
RequestsAssumption ==
  /\ WebPages \subseteq Pages /\ {MaxMoves, MaxCalls, MaxPopups, MaxLinks} \subseteq Nat
  /\ \A p \in Pages : \A e \in Range(Elements[p]) : {e.media, e.selected} \subseteq BOOLEAN

VARIABLES
  tab, moves,
  popup,    \* the pop-up: which one, the page it was opened over, what it says
  calls,    \* the requests
  got,      \* what the application took
  notices   \* the requests that ended in a notification

erVars == <<tab, moves, popup, calls, got, notices>>

Closed == [open |-> FALSE, nr |-> 0, page |-> 1, answered |-> FALSE, wired |-> FALSE, problem |-> 0]

ErInit ==
  tab \in Pages /\ moves = 0 /\ popup = Closed /\ calls = <<>> /\ got = <<>> /\ notices = {}

-----------------------------------------------------------------------------
(* The links of a page *)

FirstOnly(s) ==
  FoldLeft(LAMBDA out, a : IF a \in Range(out) \/ Len(out) = MaxLinks THEN out ELSE Append(out, a), <<>>, s)

Addresses(s) == [i \in DOMAIN s |-> s[i].url]

\* Mutated form: all links of the page, selected or not.
CollectLinksAll(p, onlySelection) ==
  LET links == SelectSeq(Elements[p], LAMBDA e : ~e.media /\ e.url \in Good) IN
    FirstOnly(Addresses(links))

\* collectLinks: the links, or those selected; with all of them the media after them.
CollectLinks(p, onlySelection) ==
  LET links == SelectSeq(Elements[p], LAMBDA e : ~e.media /\ e.url \in Good /\ (onlySelection => e.selected))
      media == IF onlySelection THEN <<>> ELSE SelectSeq(Elements[p], LAMBDA e : e.media /\ e.url \in Good)
  IN FirstOnly(Addresses(links \o media))

-----------------------------------------------------------------------------
(* Requests *)

Grabs == {"all", "selection"}
MenuItems == {"address"} \cup Grabs
PopupItems == {"address"} \cup Grabs

\* onMessage: what a request begins with.
FirstStep(kind) == IF kind \in Grabs THEN "links" ELSE "app"

\* moved: the tab is, or was before it was read, at another page than the one it names.
Call(from, kind, page, step) ==
  [from |-> from, kind |-> kind, page |-> page, step |-> step, links |-> <<>>, moved |-> page # tab]

Ask(c) == Len(calls) < MaxCalls /\ calls' = Append(calls, c)

\* contextMenus.onClicked: an item of the page; it loads the configuration first.
ClickMenu(kind) ==
  /\ ~popup.open /\ Ask(Call(0, kind, tab, "config"))
  /\ UNCHANGED <<tab, moves, popup, got, notices>>

ConfigLoaded(i) ==
  /\ calls[i].step = "config"
  /\ calls' = [calls EXCEPT ![i].step = IF calls[i].kind \in Grabs THEN "links" ELSE "app"]
  /\ UNCHANGED <<tab, moves, popup, got, notices>>

\* What failed is said in a notification, or by the pop-up that asked, if it is there.
Fail(i) ==
  /\ calls' = [calls EXCEPT ![i].step = "failed"]
  /\ IF calls[i].from = 0
     THEN notices' = notices \cup {i} /\ UNCHANGED popup
     ELSE /\ popup' = IF popup.open /\ popup.nr = calls[i].from THEN [popup EXCEPT !.problem = i] ELSE popup
          /\ UNCHANGED notices
  /\ UNCHANGED <<tab, moves, got>>

\* Mutated form: a menu's request without links ends quietly.
NoLinksQuiet(i) ==
  IF calls[i].from # 0 THEN Fail(i)
  ELSE calls' = [calls EXCEPT ![i].step = "failed"] /\ UNCHANGED <<tab, moves, popup, got, notices>>

NoLinks(i) == Fail(i)

\* The tab is read as it is now.
Collected(i) ==
  LET links == CollectLinks(tab, calls[i].kind = "selection") IN
    /\ calls[i].step = "links"
    /\ IF tab \in WebPages /\ links # <<>>
       THEN /\ calls' = [calls EXCEPT ![i].step = "app", ![i].links = links]
            /\ UNCHANGED <<tab, moves, popup, got, notices>>
       ELSE NoLinks(i)

\* The pop-up closes on success.
Taken(i) ==
  /\ calls[i].step = "app" /\ calls' = [calls EXCEPT ![i].step = "taken"]
  /\ got' = Append(got, [call |-> i, kind |-> calls[i].kind, page |-> calls[i].page, links |-> calls[i].links])
  /\ popup' = IF popup.open /\ popup.nr = calls[i].from THEN [Closed EXCEPT !.nr = popup.nr] ELSE popup
  /\ UNCHANGED <<tab, moves, notices>>

Refused(i) == calls[i].step = "app" /\ Fail(i)

-----------------------------------------------------------------------------
(* The pop-up *)

\* It takes the address of the tab once.
OpenPopup ==
  /\ ~popup.open /\ popup.nr < MaxPopups
  /\ popup' = [Closed EXCEPT !.open = TRUE, !.nr = popup.nr + 1, !.page = tab]
  /\ UNCHANGED <<tab, moves, calls, got, notices>>

\* The connection: the host answers, with or without the application, or does not.
StatusAnswered ==
  /\ popup.open /\ ~popup.answered /\ popup' = [popup EXCEPT !.answered = TRUE]
  /\ UNCHANGED <<tab, moves, calls, got, notices>>

\* The media found are listed; then the buttons get their handlers.
Listed ==
  /\ popup.open /\ popup.answered /\ ~popup.wired /\ popup' = [popup EXCEPT !.wired = TRUE]
  /\ UNCHANGED <<tab, moves, calls, got, notices>>

\* Its buttons: read the links of a web page, or hand over an address.
ClickPopup(kind) ==
  /\ popup.open /\ popup.wired
  /\ kind \in Grabs => popup.page \in WebPages
  /\ Ask(Call(popup.nr, kind, popup.page, FirstStep(kind)))
  /\ UNCHANGED <<tab, moves, popup, got, notices>>

ClosePopup ==
  /\ popup.open /\ popup' = [Closed EXCEPT !.nr = popup.nr]
  /\ UNCHANGED <<tab, moves, calls, got, notices>>

\* The tab goes to another page, also while a request is under way.
Navigate ==
  /\ moves < MaxMoves /\ moves' = moves + 1 /\ tab' \in Pages \ {tab}
  /\ calls' = [i \in DOMAIN calls |-> [calls[i] EXCEPT !.moved = @ \/ calls[i].step \in {"config", "links"}]]
  /\ UNCHANGED <<popup, got, notices>>

ErNext ==
  \/ \E kind \in MenuItems : ClickMenu(kind)
  \/ \E i \in DOMAIN calls : ConfigLoaded(i) \/ Collected(i) \/ Taken(i) \/ Refused(i)
  \/ OpenPopup \/ StatusAnswered \/ Listed \/ ClosePopup \/ Navigate
  \/ \E kind \in PopupItems : ClickPopup(kind)

ErSpec == ErInit /\ [][ErNext]_erVars

-----------------------------------------------------------------------------
(* Properties *)

ErTypeOK ==
  /\ tab \in Pages /\ notices \subseteq DOMAIN calls /\ Len(got) <= Len(calls)
  /\ popup.problem \in {0} \cup DOMAIN calls
  /\ \A i \in DOMAIN calls : calls[i].step \in {"config", "links", "app", "taken", "failed"}

Smallest(S) == CHOOSE i \in S : \A j \in S : i <= j

\* The places of an address among the elements asked for, media after all links.
Places(p, kind, a) ==
  LET at(media) == {i \in DOMAIN Elements[p] : Elements[p][i].url = a /\ Elements[p][i].media = media}
  IN IF kind = "selection" THEN {i \in at(FALSE) : Elements[p][i].selected}
     ELSE at(FALSE) \cup {Len(Elements[p]) + i : i \in at(TRUE)}

\* The links handed over are those of the page named as their source, each once, in
\* the order of the page and none outside a selection, unless the tab went elsewhere
\* between the click, or the opening of the pop-up, and the reading.
GrabbedAsAsked ==
  \A g \in Range(got) : g.kind \in Grabs /\ ~calls[g.call].moved =>
    LET places == [k \in DOMAIN g.links |-> Places(g.page, g.kind, g.links[k])] IN
      /\ \A k \in DOMAIN places : places[k] # {}
      /\ \A k, l \in DOMAIN places : k < l => Smallest(places[k]) < Smallest(places[l])
      /\ Len(g.links) < MaxLinks =>
           \A e \in Range(Elements[g.page]) :
             e.url \in Good /\ Places(g.page, g.kind, e.url) # {} => e.url \in Range(g.links)

\* What a user asked for reaches the application once or its failure is said: by a
\* notification for a menu, by the pop-up that asked while it is open.
Told ==
  \A i \in DOMAIN calls :
    /\ calls[i].step = "taken" => \E k \in DOMAIN got : got[k].call = i /\ \A l \in DOMAIN got : got[l].call = i => l = k
    /\ calls[i].step = "failed" => calls[i].from # 0 \/ i \in notices
    /\ i \in notices => calls[i].step = "failed"
    /\ popup.open /\ popup.nr = calls[i].from => calls[i].step # "taken" /\ (calls[i].step = "failed" => popup.problem # 0)
================================================================================
