------------------------------- MODULE Settings -------------------------------
(***************************************************************************)
(* The settings as a window knows them (settingsStore and updateSettings   *)
(* in app/src/lib/store.ts) and the controls that edit them (app/prefs.tsx,*)
(* views/SettingsView.tsx, SpeedPopover.tsx, AirSettings).                 *)
(*                                                                         *)
(* A setting's value is the number of the write it comes from.  One key    *)
(* stands for each kind of control: "text" is typed and saved on leaving   *)
(* the field, "list" is a table (categories, profiles) edited as a copy,   *)
(* "choice" is saved at once, "active" is the profile in use.              *)
(*                                                                         *)
(* The core (save_settings and set_profile of core.rs) takes the saves of  *)
(* the window in any order, answers when it likes, also with an error, and *)
(* sends an event with each change; a change of the profile reads the      *)
(* settings first and saves all of them.  Others change settings as well.  *)
(* get_settings is answered in order.                                      *)
(* Abstracted: the event leaves with the change; it leaves only after the  *)
(* engines were told, and before the answer.                               *)
(* Bounds: MaxWrites values, MaxLeaves changes of the section.             *)
(***************************************************************************)
EXTENDS Naturals, FiniteSets, Sequences

CONSTANTS MaxWrites, MaxLeaves

SettingsAssumption == MaxWrites \in Nat /\ MaxLeaves \in Nat

VARIABLES
  core, wanted,     \* the core's settings; the last write of each
  events,           \* changed events on their way
  loaded, store,    \* the window's copy
  refreshes,        \* get_settings calls, in order
  calls,            \* saves and changes of the profile under way
  section, leaves, draft,
  writes,
  met,              \* keys that were changed while a save that did not know of it was under way
  late              \* keys that were changed while the answer to a save was on its way

seVars == <<core, wanted, events, loaded, store, refreshes, calls, section, leaves, draft, writes, met, late>>

Keys == {"text", "list", "choice", "active"}
Drafted == {"text", "list"}
Blank == [k \in Keys |-> 0]

\* The fields of a section, when it is shown.
Fields == IF section = "fields" /\ loaded THEN Drafted ELSE {}

SeInit ==
  /\ core = Blank /\ wanted = Blank /\ events = 0 /\ loaded = FALSE /\ store = Blank
  /\ refreshes = <<[done |-> FALSE, value |-> Blank]>>
  /\ calls = {} /\ section = "fields" /\ leaves = 0
  /\ draft = [k \in Drafted |-> 0] /\ writes = 0 /\ met = {} /\ late = {}

-----------------------------------------------------------------------------
(* The store *)

\* Mutated form: every rendering of new settings resets every field.
FreshAlways(k, v) == TRUE

\* What resets a field: its own value; for a table, any new copy of it.
Fresh(k, v) == k = "list" \/ ~loaded \/ v[k] # store[k]

\* The listeners render; fields follow what they edit.
Set(v) ==
  /\ loaded' = TRUE /\ store' = v
  /\ draft' = [k \in Drafted |-> IF Fresh(k, v) THEN v[k] ELSE draft[k]]

Refresh(queue) == Append(queue, [done |-> FALSE, value |-> Blank])

\* Mutated form: settings the window has already are not asked for again.
EventArrivesLoaded ==
  /\ events > 0 /\ events' = events - 1
  /\ refreshes' = IF loaded THEN refreshes ELSE Refresh(refreshes)
  /\ UNCHANGED <<core, wanted, loaded, store, calls, section, leaves, draft, writes, met, late>>

EventArrives ==
  /\ events > 0 /\ events' = events - 1 /\ refreshes' = Refresh(refreshes)
  /\ UNCHANGED <<core, wanted, loaded, store, calls, section, leaves, draft, writes, met, late>>

\* get_settings, at the first call not answered.
GetSettings ==
  \E i \in DOMAIN refreshes :
    /\ ~refreshes[i].done /\ \A j \in 1 .. i - 1 : refreshes[j].done
    /\ refreshes' = [refreshes EXCEPT ![i] = [done |-> TRUE, value |-> core]]
    /\ UNCHANGED <<core, wanted, events, loaded, store, calls, section, leaves, draft, writes, met, late>>

Refreshed ==
  /\ refreshes # <<>> /\ Head(refreshes).done
  /\ refreshes' = Tail(refreshes) /\ Set(Head(refreshes).value)
  /\ UNCHANGED <<core, wanted, events, calls, section, leaves, writes, met, late>>

Busy == events > 0 \/ refreshes # <<>> \/ calls # {}

\* Mutated form: what other fields hold is saved as well.
PatchedDrafts(patch) == [k \in Keys |-> IF k \in DOMAIN patch THEN patch[k]
                                        ELSE IF k \in Drafted THEN draft[k] ELSE store[k]]

\* updateSettings saves the whole of the window's copy with the patch.
Patched(patch) == [k \in Keys |-> IF k \in DOMAIN patch THEN patch[k] ELSE store[k]]

\* Saves the core has not taken: all they were not about is as the window
\* knew it.
Unsaved == {c \in calls : c.phase \in {"sent", "read"}}

Call(kind, patch) ==
  /\ loaded
  /\ calls' = calls \cup {[kind |-> kind, phase |-> "sent", no |-> writes', keys |-> DOMAIN patch,
                           value |-> IF kind = "save" THEN Patched(patch) ELSE store]}
  /\ wanted' = [k \in Keys |-> IF k \in DOMAIN patch THEN patch[k] ELSE wanted[k]]
  /\ met' = met \cup {k \in DOMAIN patch : Unsaved # {}}
                \cup {k \in Keys \ DOMAIN patch : kind = "save" /\ store[k] # wanted[k]}
  /\ UNCHANGED <<core, events, loaded, store, refreshes, section, leaves, late>>

-----------------------------------------------------------------------------
(* The controls *)


\* Typing in a text field or in a cell of a table.
Type(k) ==
  /\ k \in Fields /\ writes < MaxWrites /\ writes' = writes + 1
  /\ draft' = [draft EXCEPT ![k] = writes']
  /\ UNCHANGED <<core, wanted, events, loaded, store, refreshes, calls, section, leaves, met, late>>

\* Leaving a text field saves it if it changed.
Commit(k) ==
  /\ k \in Fields /\ draft[k] # store[k] /\ writes < MaxWrites /\ writes' = writes + 1
  /\ Call("save", [x \in {k} |-> draft[k]]) /\ UNCHANGED draft

\* A button of the table: a row is added to the copy, or taken out of it,
\* and the copy saved.
EditRows ==
  /\ "list" \in Fields /\ writes < MaxWrites /\ writes' = writes + 1
  /\ Call("save", [x \in {"list"} |-> writes']) /\ UNCHANGED draft

\* A switch, a list to choose from, a folder.
Choose ==
  /\ writes < MaxWrites /\ writes' = writes + 1
  /\ Call("save", [x \in {"choice"} |-> writes']) /\ UNCHANGED draft

\* SpeedControl: a limit of one's own is a profile, in use at once.
ApplyCustom ==
  /\ writes < MaxWrites /\ writes' = writes + 1
  /\ Call("save", [x \in {"list", "active"} |-> writes']) /\ UNCHANGED draft

\* "Use", and the profiles of the speed button: the core changes the profile.
SetProfile ==
  /\ writes < MaxWrites /\ writes' = writes + 1
  /\ Call("profile", [x \in {"active"} |-> writes']) /\ UNCHANGED draft

\* Another section: its fields start from the store.
ShowSection ==
  /\ loaded /\ leaves < MaxLeaves /\ leaves' = leaves + 1
  /\ section' = IF section = "fields" THEN "other" ELSE "fields"
  /\ draft' = [k \in Drafted |-> store[k]]
  /\ UNCHANGED <<core, wanted, events, loaded, store, refreshes, calls, writes, met, late>>

-----------------------------------------------------------------------------
(* Answers *)

Next1(c, phase) == calls' = (calls \ {c}) \cup {[c EXCEPT !.phase = phase]}

\* An answer to a save that has yet to arrive does not know of a change now.
Outdated(v) == late' = late \cup {k \in Keys : v[k] # core[k] /\ \E d \in calls : d.kind = "save" /\ d.phase = "done"}

\* set_profile: the settings are read, and saved with the profile changed.
CoreReads(c) ==
  /\ c.kind = "profile" /\ c.phase = "sent"
  /\ calls' = (calls \ {c}) \cup {[c EXCEPT !.phase = "read", !.value = [core EXCEPT !["active"] = c.no]]}
  /\ met' = met \cup {k \in Keys \ c.keys : core[k] # wanted[k]}
  /\ UNCHANGED <<core, wanted, events, loaded, store, refreshes, section, leaves, draft, writes, late>>

\* The core takes the settings; every key of a save is written.
CoreTakes(c) ==
  /\ c.phase = IF c.kind = "save" THEN "sent" ELSE "read"
  /\ Next1(c, "done") /\ events' = events + 1
  /\ core' = c.value /\ Outdated(c.value)
  /\ UNCHANGED <<wanted, loaded, store, refreshes, section, leaves, draft, writes, met>>

\* The window's own write is refused: nothing is left to want.
CoreRefuses(c) ==
  /\ c \in Unsaved /\ Next1(c, "failed")
  /\ wanted' = [k \in Keys |-> IF k \in c.keys THEN core[k] ELSE wanted[k]]
  /\ UNCHANGED <<core, events, loaded, store, refreshes, section, leaves, draft, writes, met, late>>

\* updateSettings sets the answer; a change of the profile asks again.
Saved(c) ==
  /\ c.phase = "done" /\ calls' = calls \ {c}
  /\ IF c.kind = "save" THEN Set(c.value) /\ UNCHANGED refreshes
     ELSE refreshes' = Refresh(refreshes) /\ UNCHANGED <<loaded, store, draft>>
  /\ UNCHANGED <<core, wanted, events, section, leaves, writes, met, late>>

\* A message is shown; the speed button asks again all the same.
SaveFailed(c) ==
  /\ c.phase = "failed" /\ calls' = calls \ {c}
  /\ refreshes' = IF c.kind = "profile" THEN Refresh(refreshes) ELSE refreshes
  /\ UNCHANGED <<core, wanted, events, loaded, store, section, leaves, draft, writes, met, late>>

\* Another window, the tray, the command line.
Outside(k) ==
  /\ writes < MaxWrites /\ writes' = writes + 1
  /\ core' = [core EXCEPT ![k] = writes'] /\ wanted' = [wanted EXCEPT ![k] = writes'] /\ Outdated(core')
  /\ events' = events + 1 /\ met' = met \cup {x \in {k} : Unsaved # {}}
  /\ UNCHANGED <<loaded, store, refreshes, calls, section, leaves, draft>>

SeNext ==
  \/ EventArrives \/ GetSettings \/ Refreshed \/ ShowSection
  \/ EditRows \/ Choose \/ ApplyCustom \/ SetProfile
  \/ \E k \in Drafted : Type(k) \/ Commit(k)
  \/ \E k \in Keys : Outside(k)
  \/ \E c \in calls : CoreReads(c) \/ CoreTakes(c) \/ CoreRefuses(c) \/ Saved(c) \/ SaveFailed(c)

SeSpec == SeInit /\ [][SeNext]_seVars

-----------------------------------------------------------------------------
SeTypeOK ==
  /\ core \in [Keys -> Nat] /\ wanted \in [Keys -> Nat] /\ events \in Nat /\ met \subseteq Keys /\ late \subseteq Keys
  /\ loaded \in BOOLEAN /\ store \in [Keys -> Nat]
  /\ draft \in [Drafted -> Nat] /\ Cardinality(calls) <= writes

\* Once everything under way has arrived, the window shows each setting as
\* the core has it, although answers to saves and to refreshes overtake each
\* other, except one that was changed while the answer to a save was on its
\* way: that answer may come last.
WindowFollows == ~Busy => \A k \in Keys \ late : store[k] = core[k]

\* A save writes all settings, and still changes only those it is about:
\* what anybody changed stays, unless it was changed while a save that did
\* not know of it was under way.
NothingLost == ~Busy => \A k \in Keys \ met : core[k] = wanted[k]

\* What is typed in a text field stays when other settings arrive.
TypingStays == (calls' # calls \/ refreshes' # refreshes) /\ loaded
                   => draft'["text"] = draft["text"] \/ store'["text"] # store["text"]
===============================================================================
