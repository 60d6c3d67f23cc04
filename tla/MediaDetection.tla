---------------------------- MODULE MediaDetection ----------------------------
(***************************************************************************)
(* Media found in the responses of one tab, the badge that counts it and   *)
(* the pop-up that lists it (extension/src/background.js, popup/popup.js). *)
(* The list is kept in the worker's memory and copied to storage.session,  *)
(* which outlives the worker.  The calls to the browser (storage, badge)   *)
(* are asynchronous but take effect in the order they are made.            *)
(*                                                                         *)
(* Abstracted: a media item is its address and the page (1, 2, ...) whose  *)
(* request it was; Media are the addresses whose response passes the tests *)
(* of type, length and path.                                               *)
(*                                                                         *)
(* Bounds: MaxSize stands for the 50 of the code; MaxPages navigations,    *)
(* MaxKills ends of the worker, MaxCalls calls under way at a time.        *)
(***************************************************************************)
EXTENDS Naturals, FiniteSets, Sequences

CONSTANTS Media, MaxSize, MaxPages, MaxKills, MaxCalls

MediaAssumption ==
  MaxSize \in Nat /\ MaxPages \in Nat \ {0} /\ MaxKills \in Nat /\ MaxCalls \in Nat \ {0}

VARIABLES
  page,     \* the tab's page, 0 when the tab is closed
  wanted,   \* mediaDetection of the config in memory
  detected, \* the tab's entry in the map, Absent when there is none
  session,  \* "media:" + tabId in storage.session
  saves,    \* saveDetected calls whose storage.set is under way
  badges,   \* those whose badge is still to be set: the numbers to set
  badge,
  popup,    \* the pop-up: what it reads and shows
  cut,      \* the worker ended with calls under way, and no badge was set since
  kills

mdVars == <<page, wanted, detected, session, saves, badges, badge, popup, cut, kills>>

Items == Media \X (1 .. MaxPages)
Absent == {<<"absent", 0>>}
Shown(d) == IF d = Absent THEN {} ELSE d
Closed == [pc |-> "closed", list |-> {}, page |-> 0]

MdInit ==
  /\ page = 1 /\ wanted = TRUE /\ detected = Absent /\ session = {}
  /\ saves = <<>> /\ badges = <<>> /\ badge = 0 /\ popup = Closed /\ cut = FALSE /\ kills = 0

MayCall == Len(saves) + Len(badges) < MaxCalls

\* Mutated form: the number is that of the list stored before.
SaveDetectedLate(list) ==
  MayCall /\ saves' = Append(saves, [list |-> list, n |-> Cardinality(session)])

\* saveDetected: list and number are taken now.
SaveDetected(list) == MayCall /\ saves' = Append(saves, [list |-> list, n |-> Cardinality(list)])

HasRoom(d) == Cardinality(d) <= MaxSize

\* Mutated form: an address of another page is another item.
KnownHere(d, u, p) == <<u, p>> \in d

Known(d, u, p) == \E i \in d : i[1] = u

\* onHeadersReceived: a response of the page, or of the one before it whose
\* answer was under way.
HeadersReceived(u, p) ==
  /\ page # 0 /\ wanted /\ p \in {page - 1, page} \cap 1 .. MaxPages
  /\ HasRoom(Shown(detected)) /\ ~Known(Shown(detected), u, p)
  /\ detected' = Shown(detected) \cup {<<u, p>>}
  /\ SaveDetected(detected')
  /\ UNCHANGED <<page, wanted, session, badges, badge, popup, cut, kills>>

\* tabs.onUpdated, loading another address.
Navigate ==
  /\ page \in 1 .. MaxPages - 1 /\ page' = page + 1
  /\ detected' = Absent /\ SaveDetected({})
  /\ UNCHANGED <<wanted, session, badges, badge, popup, cut, kills>>

\* tabs.onRemoved; storage.remove follows the writes made before it.
CloseTab ==
  /\ page # 0 /\ page' = 0 /\ detected' = Absent
  /\ saves' = Append(saves, [list |-> {}, n |-> 0])
  /\ UNCHANGED <<wanted, session, badges, badge, popup, cut, kills>>

StorageSet ==
  /\ saves # <<>> /\ session' = Head(saves).list
  /\ saves' = Tail(saves) /\ badges' = Append(badges, Head(saves).n)
  /\ UNCHANGED <<page, wanted, detected, badge, popup, cut, kills>>

SetBadge ==
  /\ badges # <<>> /\ badge' = Head(badges) /\ badges' = Tail(badges) /\ cut' = FALSE
  /\ UNCHANGED <<page, wanted, detected, session, saves, popup, kills>>

\* The pop-up opens and asks for the list: the one in memory, else the stored.
OpenPopup ==
  /\ popup.pc = "closed" /\ page # 0
  /\ popup' = IF detected # Absent THEN [pc |-> "open", list |-> detected, page |-> page]
              ELSE [pc |-> "reading", list |-> {}, page |-> page]
  /\ UNCHANGED <<page, wanted, detected, session, saves, badges, badge, cut, kills>>

StorageGet ==
  /\ popup.pc = "reading" /\ popup' = [popup EXCEPT !.pc = "read", !.list = session]
  /\ UNCHANGED <<page, wanted, detected, session, saves, badges, badge, cut, kills>>

\* Mutated form: what was found meanwhile is kept, too.
LoadDetectedBoth ==
  /\ popup.pc = "read" /\ popup' = [popup EXCEPT !.pc = "open"]
  /\ detected' = popup.list \cup Shown(detected)
  /\ UNCHANGED <<page, wanted, session, saves, badges, badge, cut, kills>>

\* loadDetected's continuation puts what it read into the map.
LoadDetected ==
  /\ popup.pc = "read" /\ popup' = [popup EXCEPT !.pc = "open"]
  /\ detected' = popup.list
  /\ UNCHANGED <<page, wanted, session, saves, badges, badge, cut, kills>>

\* A click on an entry sends it and closes the pop-up, as a click elsewhere does.
ClosePopup ==
  /\ popup.pc # "closed" /\ popup' = Closed
  /\ UNCHANGED <<page, wanted, detected, session, saves, badges, badge, cut, kills>>

ConfigLoaded(on) ==
  /\ wanted' = on /\ wanted # on
  /\ UNCHANGED <<page, detected, session, saves, badges, badge, popup, cut, kills>>

\* The worker ends: calls already made take effect, nothing follows them; the
\* default config detects media.
Kill ==
  /\ kills < MaxKills /\ kills' = kills + 1
  /\ detected' = Absent /\ wanted' = TRUE
  /\ session' = IF saves = <<>> THEN session ELSE saves[Len(saves)].list
  /\ saves' = <<>> /\ badges' = <<>> /\ cut' = (cut \/ saves # <<>> \/ badges # <<>>)
  /\ popup' = IF popup.pc \in {"reading", "read"} THEN [popup EXCEPT !.pc = "open", !.list = {}] ELSE popup
  /\ UNCHANGED <<page, badge>>

MdNext ==
  \/ \E u \in Media, p \in 1 .. MaxPages : HeadersReceived(u, p)
  \/ Navigate \/ CloseTab \/ StorageSet \/ SetBadge \/ OpenPopup \/ StorageGet
  \/ LoadDetected \/ ClosePopup \/ Kill \/ \E on \in BOOLEAN : ConfigLoaded(on)

MdSpec == MdInit /\ [][MdNext]_mdVars

-----------------------------------------------------------------------------
MdTypeOK ==
  /\ page \in 0 .. MaxPages /\ Shown(detected) \subseteq Items /\ session \subseteq Items
  /\ badge \in Nat /\ popup.pc \in {"closed", "reading", "read", "open"}

\* The limit holds however saves, loads and restarts interleave: never more
\* than one above the 50 of the test.
Bounded == \A list \in {Shown(detected), session, popup.list} : Cardinality(list) <= MaxSize + 1

\* Once the calls are done the badge shows the number of stored items, unless
\* the worker ended between storing and counting and nothing was found since.
BadgeCountsStored == saves = <<>> /\ badges = <<>> /\ ~cut => badge = Cardinality(session)

\* An address is listed once.
ListedOnce == \A i, j \in session : i[1] = j[1] => i = j
===============================================================================
