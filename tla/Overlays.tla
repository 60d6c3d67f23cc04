-------------------------------- MODULE Overlays --------------------------------
(***************************************************************************)
(* What lies over the main window (app/ui/overlays.tsx): toasts, which go  *)
(* by themselves after a while, the one open menu with its submenu, and    *)
(* the dialog that keeps the keyboard focus.  The toasts come from         *)
(* anywhere; the one of a newer release (app/src/App.tsx useUpdateCheck)   *)
(* stays until it is closed.                                               *)
(*                                                                         *)
(* Positions count from 0, -1 is none.  The controls of a dialog are       *)
(* numbered in tab order; one is disabled while its call runs.             *)
(* Bound: MaxToasts toasts.                                                *)
(***************************************************************************)
EXTENDS Integers, Sequences, FiniteSets

LOCAL INSTANCE SequencesExt

CONSTANTS
  Texts, MaxToasts,
  Menus,      \* of menus: the kinds of their items
  Controls    \* how many controls the dialog has

OverlaysAssumption == MaxToasts \in Nat /\ Controls \in Nat \ {0}

VARIABLES
  toasts, timers, nextId,
  checking,                  \* the check for a newer release
  menu, active, sub, chosen, \* chosen: the item whose onSelect ran last
  dialog, disabled, focus, lost

toastVars == <<toasts, timers, nextId, checking>>
menuVars == <<menu, active, sub, chosen>>
dialogVars == <<dialog, disabled, focus, lost>>
ovVars == <<toastVars, menuVars, dialogVars>>

OvInit ==
  /\ toasts = <<>> /\ timers = {} /\ nextId = 1 /\ checking = "off"
  /\ menu = <<>> /\ active = -1 /\ sub = -1 /\ chosen = "none"
  /\ dialog = FALSE /\ disabled = {} /\ focus = -1 /\ lost = FALSE

-----------------------------------------------------------------------------
(* Toasts *)

\* Mutated form: a toast like one that is shown has its timer already.
StartTimerNew(new) ==
  timers' = IF new.lasting \/ \E i \in DOMAIN toasts : toasts[i].text = new.text THEN timers ELSE timers \cup {new.id}

StartTimer(new) == timers' = IF new.lasting THEN timers ELSE timers \cup {new.id}

\* Mutated form: only the toast before is collapsed.
KeptLast(text) ==
  IF toasts # <<>> /\ toasts[Len(toasts)].text = text THEN SubSeq(toasts, 1, Len(toasts) - 1) ELSE toasts

\* Identical toasts are collapsed.
Kept(text) == SelectSeq(toasts, LAMBDA t : t.text # text)

\* Mutated form: nothing is pushed out.
KeptAll(toastsKept) == toastsKept

\* The last three stay.
LastThree(toastsKept) == IF Len(toastsKept) > 3 THEN SubSeq(toastsKept, Len(toastsKept) - 2, Len(toastsKept)) ELSE toastsKept

Toast(text, lasting) ==
  LET new == [id |-> nextId, text |-> text, lasting |-> lasting] IN
    /\ nextId <= MaxToasts /\ nextId' = nextId + 1
    /\ toasts' = Append(LastThree(Kept(text)), new)
    /\ StartTimer(new)

ShowToast(text) == Toast(text, FALSE) /\ UNCHANGED <<checking, menuVars, dialogVars>>

\* The button of a toast closes it, too.
DismissToast(id) ==
  /\ toasts' = SelectSeq(toasts, LAMBDA t : t.id # id)
  /\ UNCHANGED <<timers, nextId, checking, menuVars, dialogVars>>

TimerFires(id) ==
  /\ id \in timers /\ timers' = timers \ {id}
  /\ toasts' = SelectSeq(toasts, LAMBDA t : t.id # id)
  /\ UNCHANGED <<nextId, checking, menuVars, dialogVars>>

\* settings.checkUpdates is read or switched on: some seconds later the check
\* is made, unless it is switched off before.
SetCheckUpdates(on) ==
  /\ checking' = IF on THEN (IF checking = "off" THEN "timer" ELSE checking)
                 ELSE IF checking = "asking" THEN checking ELSE "off"
  /\ checking' # checking /\ UNCHANGED <<toasts, timers, nextId, menuVars, dialogVars>>

CheckUpdate ==
  /\ checking = "timer" /\ checking' = "asking" /\ UNCHANGED <<toasts, timers, nextId, menuVars, dialogVars>>

UpdateArrives(newer) ==
  /\ checking = "asking" /\ checking' = "done" /\ UNCHANGED <<menuVars, dialogVars>>
  /\ IF newer THEN Toast("release", TRUE) ELSE UNCHANGED <<toasts, timers, nextId>>

-----------------------------------------------------------------------------
(* The menu *)

Item(i) == menu[i + 1]
Actionable == {i \in 0 .. Len(menu) - 1 : Item(i) \in {"act", "sub"}}
InOrder == SetToSortSeq(Actionable, <)
Place == CHOOSE i \in 0 .. Len(InOrder) : IF active \in Actionable THEN InOrder[i + 1] = active ELSE i = 0

ShowMenu(m) ==
  /\ menu = <<>> /\ menu' = m /\ active' = -1 /\ sub' = -1 /\ UNCHANGED <<chosen, toastVars, dialogVars>>

\* By Escape, a press elsewhere, the window losing the focus or its size.
CloseMenu ==
  /\ menu # <<>> /\ menu' = <<>> /\ active' = -1 /\ sub' = -1 /\ UNCHANGED <<chosen, toastVars, dialogVars>>

\* Mutated form: the keys go over every item.
MovedAny(up) == LET n == Len(menu) IN IF up THEN (active - 1 + n) % n ELSE (active + 1) % n

\* The arrow keys go round the items that can be chosen; up from none of them is
\* to the last but one.
Moved(up) ==
  LET n == Cardinality(Actionable)
      idx == IF active \in Actionable THEN Place ELSE -1
  IN IF n = 0 THEN -1 ELSE InOrder[(IF up THEN (idx - 1 + n) % n ELSE (idx + 1) % n) + 1]

ArrowKey(up) ==
  /\ menu # <<>> /\ active' = Moved(up) /\ UNCHANGED <<menu, sub, chosen, toastVars, dialogVars>>

\* Choosing an item opens its submenu, or closes the menu and then runs it.
Select(i) ==
  IF Item(i) = "sub" THEN sub' = i /\ UNCHANGED <<menu, chosen>>
  ELSE menu' = <<>> /\ chosen' = Item(i) /\ sub' = -1

EnterItem ==
  /\ active >= 0 /\ Select(active) /\ active' = (IF menu' = <<>> THEN -1 ELSE active)
  /\ UNCHANGED <<toastVars, dialogVars>>

Click(i) ==
  /\ i \in Actionable /\ Select(i) /\ active' = (IF menu' = <<>> THEN -1 ELSE i)
  /\ UNCHANGED <<toastVars, dialogVars>>

\* The mouse goes over an item: its submenu opens, another closes.
Over(i) ==
  /\ i \in Actionable /\ active' = i /\ sub' = (IF Item(i) = "sub" THEN i ELSE -1)
  /\ UNCHANGED <<menu, chosen, toastVars, dialogVars>>

\* An item of the submenu closes all.
ClickSub ==
  /\ sub >= 0 /\ menu' = <<>> /\ active' = -1 /\ sub' = -1 /\ chosen' = "act" /\ UNCHANGED <<toastVars, dialogVars>>

-----------------------------------------------------------------------------
(* The dialog *)

Enabled == (0 .. Controls - 1) \ disabled
FirstControl == CHOOSE i \in Enabled : \A j \in Enabled : i <= j
LastControl == CHOOSE i \in Enabled : \A j \in Enabled : j <= i
After(i) == {j \in Enabled : j > i}
Before(i) == {j \in Enabled : j < i}

OpenDialog ==
  /\ ~dialog /\ dialog' = TRUE /\ focus' \in Enabled /\ lost' = FALSE
  /\ UNCHANGED <<disabled, toastVars, menuVars>>

\* Mutated form: the last control lets the focus out.
TabOut(back) ==
  LET to == IF back THEN Before(focus) ELSE After(focus) IN
    IF back /\ (focus = -1 \/ to = {}) THEN LastControl
    ELSE IF to = {} THEN -1
    ELSE IF back THEN CHOOSE j \in to : \A k \in to : k <= j ELSE CHOOSE j \in to : \A k \in to : j <= k

\* Past the last control comes the first, and the other way round; between
\* them, and from elsewhere, the browser moves the focus.
Tab(back) ==
  LET to == IF back THEN Before(focus) ELSE After(focus) IN
    IF back /\ (focus = -1 \/ to = {}) THEN LastControl
    ELSE IF to = {} THEN FirstControl
    ELSE IF back THEN CHOOSE j \in to : \A k \in to : k <= j ELSE CHOOSE j \in to : \A k \in to : j <= k

TabKey(back) ==
  /\ dialog /\ Enabled # {} /\ focus >= 0 /\ focus' = Tab(back)
  /\ UNCHANGED <<dialog, disabled, lost, toastVars, menuVars>>

\* A call begins, or ends.  The control that has the focus loses it.
SetDisabled(i) ==
  /\ dialog /\ disabled' = (IF i \in disabled THEN disabled \ {i} ELSE disabled \cup {i})
  /\ disabled' # 0 .. Controls - 1
  /\ focus' = (IF focus = i /\ i \notin disabled THEN -1 ELSE focus)
  /\ lost' = (lost \/ (focus = i /\ i \notin disabled)) /\ UNCHANGED <<dialog, toastVars, menuVars>>

CloseDialog ==
  /\ dialog /\ dialog' = FALSE /\ focus' = -1 /\ lost' = FALSE /\ disabled' = {}
  /\ UNCHANGED <<toastVars, menuVars>>

NextToasts ==
  \/ \E t \in Texts : ShowToast(t)
  \/ \E i \in DOMAIN toasts : DismissToast(toasts[i].id)
  \/ \E id \in timers : TimerFires(id)
  \/ CheckUpdate
  \/ \E b \in BOOLEAN : SetCheckUpdates(b) \/ UpdateArrives(b)

NextMenu ==
  \/ \E m \in Menus : ShowMenu(m)
  \/ CloseMenu \/ EnterItem \/ ClickSub
  \/ \E b \in BOOLEAN : ArrowKey(b)
  \/ \E i \in Actionable : Over(i) \/ Click(i)

NextDialog ==
  \/ OpenDialog \/ CloseDialog
  \/ \E b \in BOOLEAN : TabKey(b)
  \/ \E i \in 0 .. Controls - 1 : SetDisabled(i)

OvNext == NextToasts \/ NextMenu \/ NextDialog

OvSpec == OvInit /\ [][OvNext]_ovVars

-----------------------------------------------------------------------------
OvTypeOK ==
  /\ Len(toasts) <= 4 /\ timers \subseteq 1 .. nextId - 1 /\ chosen \in {"none", "act"}
  /\ checking \in {"off", "timer", "asking", "done"} /\ menu \in Menus \cup {<<>>}
  /\ disabled \subseteq 0 .. Controls - 1 /\ focus \in -1 .. Controls - 1

\* Every toast that goes by itself still has its timer, and no two toasts say the
\* same: none is shown for ever, whatever was collapsed or pushed out.
ToastsGo ==
  /\ \A i \in DOMAIN toasts : toasts[i].lasting \/ toasts[i].id \in timers
  /\ \A i, j \in DOMAIN toasts : toasts[i].text = toasts[j].text => i = j

\* The highlighted item can be chosen, and the open submenu belongs to its item:
\* Enter never does nothing.
MenuFits == (active # -1 => active \in Actionable) /\ (sub # -1 => Item(sub) = "sub")

\* The keyboard stays in the dialog, unless the control that had the focus was
\* disabled.
FocusInside == dialog /\ ~lost => focus \in Enabled
===============================================================================
