---------------------------- MODULE DownloadsScreen ----------------------------
(***************************************************************************)
(* The list of downloads in the main window (app/src/App.tsx,              *)
(* app/downloads/DownloadsView.tsx and DownloadList.tsx): which downloads  *)
(* are listed, which are selected, the cursor of the keyboard, the context *)
(* menu and the question before downloads are removed.  Rows change, come  *)
(* and go underneath.                                                      *)
(*                                                                         *)
(* A row is its status: "active" can be paused, "paused" (or failed) can   *)
(* be resumed, "done" is finished.  Positions count from 0; -1 is none.  A *)
(* step includes the rendering and the effects it sets off.  The core is   *)
(* external: rows change in any way, so that what it does with a call is   *)
(* among it.                                                               *)
(*                                                                         *)
(* Bound: MaxChanges changes of rows.                                      *)
(***************************************************************************)
EXTENDS Integers, FiniteSets, Sequences

LOCAL INSTANCE SequencesExt

CONSTANTS
  Ids,        \* a greater number was added later
  QueuedIds,  \* are in the queue
  FoundIds,   \* match the search
  DoneIds,    \* are finished at first
  MaxChanges

ScreenAssumption ==
  Ids \subseteq Nat /\ QueuedIds \subseteq Ids /\ FoundIds \subseteq Ids /\ DoneIds \subseteq Ids /\ MaxChanges \in Nat

VARIABLES
  rows, changes,
  view, filter, searching, dir,  \* what is shown, in which order
  selection, cursor, anchor,
  menu,                          \* the downloads the open context menu is for
  removing, deleteFiles, ticked, \* the question; ticked: by the user, for this question
  call                           \* sent to the core by the last step

listVars == <<view, filter, searching, dir>>
selVars == <<selection, cursor, anchor>>
askVars == <<removing, deleteFiles, ticked>>
dsVars == <<rows, changes, listVars, selVars, menu, askVars, call>>

Scopes == {"all", "unfinished", "finished", "queue"}
NoCall == [kind |-> "none", ids |-> {}]

CanPause(id) == rows[id] = "active"
CanResume(id) == rows[id] = "paused"

-----------------------------------------------------------------------------
(* What is listed *)

FilterFn(id) ==
  /\ rows[id] # "absent"
  /\ CASE filter = "all" -> TRUE
       [] filter = "unfinished" -> rows[id] # "done"
       [] filter = "finished" -> rows[id] = "done"
       [] filter = "queue" -> id \in QueuedIds /\ rows[id] # "done"
  /\ searching => id \in FoundIds

Listed == {id \in Ids : FilterFn(id)}

\* By the date it was added; "all" lists unfinished downloads first.
Order(a, b) ==
  LET late(id) == filter = "all" /\ rows[id] = "done" IN
    IF late(a) # late(b) THEN late(b) ELSE IF dir = 1 THEN a < b ELSE b < a

Shown == IF view = "downloads" THEN SetToSortSeq(Listed, Order) ELSE <<>>
Len0 == Cardinality(Listed)
At(i) == Shown[i + 1]

DsInit ==
  /\ rows = [id \in Ids |-> IF id \in DoneIds THEN "done" ELSE "active"] /\ changes = 0
  /\ view = "downloads" /\ filter = "all" /\ searching = FALSE /\ dir = -1
  /\ selection = {} /\ cursor = -1 /\ anchor = -1
  /\ menu = {}
  /\ removing = {} /\ deleteFiles = FALSE /\ ticked = FALSE /\ call = NoCall

\* Mutated form: a row that is gone stays selected.
PruneNothing(sel) == sel

\* The effect that follows each rendering of the list: only listed rows are
\* selected.  It does follow each: compareBy makes a new order, and with it a
\* new array of ids, every time, also when just the selection changed.
Prune(sel) == sel \cap Listed'

\* Mutated form: the cursor stays below the last row.
ClampNot(cur) == cur

\* ... and the cursor is on one of them.
Clamp(cur) == IF cur >= Cardinality(Listed') THEN Cardinality(Listed') - 1 ELSE cur

\* What a step leaves selected.
Select(sel, cur, anch) == selection' = Prune(sel) /\ cursor' = Clamp(cur) /\ anchor' = anch

-----------------------------------------------------------------------------
(* Rows change *)

RowChanges(id, status) ==
  /\ changes < MaxChanges /\ changes' = changes + 1
  /\ rows[id] # status /\ rows' = [rows EXCEPT ![id] = status]
  /\ call' = NoCall /\ UNCHANGED <<listVars, menu, askVars>>
  /\ IF view = "downloads" THEN Select(selection, cursor, anchor) ELSE UNCHANGED selVars

-----------------------------------------------------------------------------
(* The list: mouse, check boxes, keys.  Under an open dialog none of it is  *)
(* reached; a press outside the menu closes it, keys go to the menu.        *)

Reachable == removing = {} /\ view = "downloads"
ByMouse == Reachable /\ menu' = {}
ByKey == Reachable /\ menu = {} /\ menu' = {}
SameList == UNCHANGED <<rows, changes, listVars>>
JustSelect == call' = NoCall /\ SameList /\ UNCHANGED askVars

Toggled(id) == IF id \in selection THEN selection \ {id} ELSE selection \cup {id}
Position(id) == CHOOSE i \in 0 .. Len(Shown) - 1 : At(i) = id

\* selectRange: an anchor below the last row adds undefined, which Prune takes
\* out again in the same step.
Range0(from, to) == {At(i) : i \in {i \in 0 .. Len(Shown) - 1 : (from <= i /\ i <= to) \/ (to <= i /\ i <= from)}}
SelectRange(from, to, additive) == Range0(from, to) \cup IF additive THEN selection ELSE {}

OnMouseDown(id, shift, ctrl) ==
  LET i == Position(id) IN
    /\ ByMouse /\ JustSelect
    /\ CASE shift /\ anchor >= 0 -> Select(SelectRange(anchor, i, ctrl), i, anchor)
         [] ~(shift /\ anchor >= 0) /\ ctrl -> Select(Toggled(id), i, i)
         [] ~(shift /\ anchor >= 0) /\ ~ctrl -> Select({id}, i, i)

OnCheck(id) == ByMouse /\ JustSelect /\ Select(Toggled(id), Position(id), Position(id))

\* The check box of the header; Ctrl A only selects.
SelectAll ==
  /\ JustSelect
  /\ \/ ByMouse /\ Select(IF Listed # {} /\ Listed \subseteq selection THEN {} ELSE Listed, cursor, anchor)
     \/ ByKey /\ Listed # {} /\ Select(Listed, cursor, anchor)

\* Escape, or a press below the rows.
ClearSelection == ByMouse /\ JustSelect /\ Select({}, cursor, anchor)

\* The arrows, Page Up and Down, Home, End.
Move(i, shift) ==
  LET n == IF i < 0 THEN 0 ELSE IF i >= Len0 THEN Len0 - 1 ELSE i IN
    /\ ByKey /\ JustSelect /\ Listed # {}
    /\ IF shift THEN Select(SelectRange(IF anchor < 0 THEN n ELSE anchor, n, FALSE), n, anchor)
       ELSE Select({At(n)}, n, n)

OnKeyMove == \E i \in {cursor + 1, cursor - 1, 0, Len0 - 1}, shift \in BOOLEAN : Move(i, shift)

Send(kind, ids) == call' = [kind |-> kind, ids |-> ids] /\ UNCHANGED askVars /\ SameList

\* Space: whatever can be paused is paused first.
Space ==
  /\ ByKey /\ UNCHANGED selVars
  /\ \/ (\E id \in selection : CanPause(id)) /\ Send("pause", selection)
     \/ (\E id \in selection : CanResume(id)) /\ ~ (\E id \in selection : CanPause(id)) /\ Send("resume", selection)

\* Enter or a double click: a finished download is opened, another one gets
\* a progress window (ProgressWindow).
OnDoubleClick(id) ==
  /\ ByMouse /\ selection = {id} /\ UNCHANGED selVars
  /\ Send(IF rows[id] = "done" THEN "open" ELSE "window", {id})

\* The toolbar's Resume and Stop.
Resume == ByMouse /\ (\E id \in selection : CanResume(id)) /\ UNCHANGED selVars /\ Send("resume", selection)
Stop == ByMouse /\ (\E id \in Ids : CanPause(id)) /\ UNCHANGED selVars /\ Send("pause", selection)

\* A right click: on a row that is not selected, that row is.
OnContextMenu(id) ==
  LET i == Position(id) IN
    /\ Reachable /\ JustSelect
    /\ IF id \in selection THEN menu' = selection /\ UNCHANGED selVars
       ELSE menu' = {id} /\ Select({id}, i, i)

\* An item of the menu acts on the downloads it was opened for.
MenuCall(kind) ==
  /\ removing = {} /\ menu # {} /\ menu' = {} /\ UNCHANGED selVars /\ Send(kind, menu)

-----------------------------------------------------------------------------
(* Removing *)

\* Mutated form: the box keeps what it was in the last question.
ConfirmRemoveKeeps(ids) == removing' = ids /\ ticked' = FALSE /\ UNCHANGED deleteFiles

ConfirmRemove(ids) == removing' = ids /\ deleteFiles' = FALSE /\ ticked' = FALSE

\* The toolbar, the Delete key, the details panel.
AskRemove ==
  /\ ByMouse /\ selection # {} /\ ConfirmRemove(selection)
  /\ call' = NoCall /\ SameList /\ UNCHANGED selVars

MenuRemove ==
  /\ removing = {} /\ menu # {} /\ menu' = {} /\ ConfirmRemove(menu)
  /\ call' = NoCall /\ SameList /\ UNCHANGED selVars

TickFiles ==
  /\ removing # {} /\ deleteFiles' = ~deleteFiles /\ ticked' = ~deleteFiles
  /\ call' = NoCall /\ SameList /\ UNCHANGED <<selVars, menu, removing>>

CancelRemove ==
  /\ removing # {} /\ removing' = {}
  /\ call' = NoCall /\ SameList /\ UNCHANGED <<selVars, menu, deleteFiles, ticked>>

RemoveConfirmed ==
  /\ removing # {} /\ removing' = {}
  /\ call' = [kind |-> IF deleteFiles THEN "delete" ELSE "remove", ids |-> removing]
  /\ selection' = {} /\ SameList /\ UNCHANGED <<cursor, anchor, menu, deleteFiles, ticked>>

-----------------------------------------------------------------------------
(* Getting about *)

\* The list is made anew when its view comes back, and keeps its cursor
\* when only the filter changes.
ToList(scope, sel) ==
  /\ view' = "downloads" /\ filter' = scope
  /\ dir' = IF view = "downloads" /\ scope = filter THEN dir ELSE IF scope = "queue" THEN 1 ELSE -1
  /\ call' = NoCall /\ UNCHANGED <<rows, changes, searching, askVars>>
  /\ IF view = "downloads" THEN Select(sel, cursor, anchor) ELSE Select(sel, -1, -1)

\* The sidebar, and Ctrl 1 to 4, which leave an open menu open.
ShowList(scope) ==
  removing = {} /\ menu' \in {menu, {}} /\ ToList(scope, {})

\* Every other screen.
Navigate ==
  /\ removing = {} /\ menu' \in {menu, {}} /\ view' = "other" /\ selection' = {} /\ cursor' = -1 /\ anchor' = -1
  /\ call' = NoCall /\ UNCHANGED <<rows, changes, filter, searching, dir, askVars>>

\* "Show" in a notice about a download, which is above every dialog.
NoticeShow(id) == menu' = {} /\ ToList("all", {id})

\* The text of the search changes, or Escape clears it.
SetSearch ==
  /\ ByMouse /\ searching' = ~searching
  /\ call' = NoCall /\ UNCHANGED <<rows, changes, view, filter, dir, askVars>>
  /\ Select(selection, cursor, anchor)

\* A press on the head of a column.
OnSort ==
  /\ ByMouse /\ dir' = -dir
  /\ call' = NoCall /\ UNCHANGED <<rows, changes, view, filter, searching, askVars>>
  /\ Select(selection, cursor, anchor)

DsNext ==
  \/ \E id \in Ids, status \in {"active", "paused", "done", "absent"} : RowChanges(id, status)
  \/ \E id \in ToSet(Shown) :
       \/ \E shift, ctrl \in BOOLEAN : OnMouseDown(id, shift, ctrl)
       \/ OnCheck(id) \/ OnDoubleClick(id) \/ OnContextMenu(id)
  \/ SelectAll \/ ClearSelection \/ OnKeyMove \/ Space \/ Resume \/ Stop
  \/ \E kind \in {"pause", "resume", "other"} : MenuCall(kind)
  \/ AskRemove \/ MenuRemove \/ TickFiles \/ CancelRemove \/ RemoveConfirmed
  \/ \E scope \in Scopes : ShowList(scope)
  \/ Navigate \/ (\E id \in Ids : NoticeShow(id)) \/ SetSearch \/ OnSort

DsSpec == DsInit /\ [][DsNext]_dsVars

-----------------------------------------------------------------------------
DsTypeOK ==
  /\ view \in {"downloads", "other"} /\ filter \in Scopes /\ dir \in {1, -1}
  /\ anchor \in -1 .. Cardinality(Ids) - 1 /\ menu \subseteq Ids /\ removing \subseteq Ids

\* Nothing the user does not see is selected, whatever rows, filter or search
\* did since it was: Stop, Space and Delete act on what is seen.
SelectionListed == selection \subseteq IF view = "downloads" THEN Listed ELSE {}

\* The keyboard's cursor is on a row.
CursorInList == view = "downloads" => cursor < Len0

\* Files are deleted only if the box was ticked in this very question.
FilesOnlyIfTicked == call'.kind = "delete" => ticked
================================================================================
