-------------------------------- MODULE Store --------------------------------
(***************************************************************************)
(* The downloads as a window of the desktop application knows them         *)
(* (app/src/lib/store.ts): a first list, then events of the core, with two *)
(* levels of subscription.  Lists (the ids that pass a filter) are         *)
(* computed again only when the structure changes; rows follow each event. *)
(*                                                                         *)
(* Between the two: the core changes a download under its lock and emits   *)
(* the event after it (core.rs); its events go through a broadcast channel *)
(* that forgets the oldest of them when its reader is late, and the shell  *)
(* (forward_events, src-tauri/main.rs) passes them on, but keeps prompts   *)
(* and drops everything else until the window has called app_ready, and    *)
(* drops progress that nobody would see.                                   *)
(*                                                                         *)
(* Abstracted: a row is its status and one number for all the rest.  Left  *)
(* out: the other kinds of events, and prompts of the browser, which get a *)
(* window of their own.                                                    *)
(* Bounds: MaxChanges changes in the core, MaxPrompts prompts, Capacity    *)
(* events in the channel (2048).                                           *)
(***************************************************************************)
EXTENDS Naturals, FiniteSets, Sequences

LOCAL INSTANCE SequencesExt

CONSTANTS Ids, MaxChanges, MaxPrompts, Capacity

StoreAssumption == MaxChanges \in Nat /\ MaxPrompts \in Nat /\ Capacity \in Nat \ {0}

VARIABLES
  core,     \* the core's downloads
  unsent,   \* events made under the lock and not emitted yet
  bus,      \* the broadcast channel
  uiReady,  \* the shell sends events
  hidden,   \* no window is visible
  early,    \* prompts that forward_events took before the window was ready
  pending,  \* the prompts the shell keeps
  events,   \* sent to the window and not handled yet
  start,    \* how far startStore is
  listing,  \* the answer to api.list, on its way
  answer,   \* the answer to app_ready
  rows,     \* the window's copy
  shown,    \* the ids a list of unfinished downloads shows
  speed,    \* the speed graph draws something
  prompts,  \* prompts the window showed, in order
  stale,    \* downloads whose last event was lost or overtaken by an older one
  behind,   \* downloads whose last progress was
  dropped,  \* prompts the channel forgot
  asked, changes

coreVars == <<core, unsent, asked, changes>>
shellVars == <<bus, uiReady, hidden, early, pending, stale, behind, dropped>>
windowVars == <<events, start, listing, answer, rows, shown, speed, prompts>>
stVars == <<coreVars, shellVars, windowVars>>

Statuses == {"downloading", "completed"}
Absent == [status |-> "absent", n |-> 0]
Row(status, n) == [status |-> status, n |-> n]
Nobody == [id \in Ids |-> Absent]

Have(r) == {id \in Ids : r[id] # Absent}
IsTransferring(r) == r.status = "downloading"

\* useDownloadIds: the rows that pass the filter.
DownloadIds(r) == {id \in Have(r) : r[id].status # "completed"}

StInit ==
  /\ core = Nobody /\ unsent = {} /\ bus = <<>>
  /\ uiReady = FALSE /\ hidden \in BOOLEAN /\ early = <<>> /\ pending = <<>> /\ events = <<>>
  /\ start = "new" /\ listing = Nobody /\ answer = <<>> /\ rows = Nobody /\ shown = {} /\ speed = FALSE
  /\ prompts = <<>> /\ stale = {} /\ behind = {} /\ dropped = {} /\ asked = 0 /\ changes = 0

-----------------------------------------------------------------------------
(* The core *)

Change(e) ==
  /\ changes < MaxChanges /\ changes' = changes + 1
  /\ unsent' = unsent \cup {e}
  /\ UNCHANGED <<asked, shellVars, windowVars>>

CoreUpsert(id, status) ==
  /\ core[id] # Row(status, core[id].n)
  /\ core' = [core EXCEPT ![id] = Row(status, core[id].n + 1)]
  /\ Change([type |-> "upsert", ids |-> {id}, rows |-> core'])

CoreRemove(id) ==
  /\ core[id] # Absent /\ core' = [core EXCEPT ![id] = Absent]
  /\ Change([type |-> "removed", ids |-> {id}, rows |-> core'])

\* The ticker: the progress of everything that transfers, in one event.
CoreProgress ==
  LET active == {id \in Ids : IsTransferring(core[id])} IN
    /\ active # {} /\ \A e \in unsent : e.type # "progress"
    /\ core' = [id \in Ids |-> IF id \in active THEN [core[id] EXCEPT !.n = @ + 1] ELSE core[id]]
    /\ Change([type |-> "progress", ids |-> active, rows |-> core'])

-----------------------------------------------------------------------------
(* The channel and the shell *)

Whole(e) == e.type \in {"upsert", "removed"}

\* What a lost event e leaves untold when these follow it.
Untold(e, later) == IF Whole(e) THEN e.ids \ UNION {d.ids : d \in {d \in ToSet(later) : Whole(d)}} ELSE {}
Unpainted(e) == IF e.type = "progress" THEN e.ids ELSE {}
Unasked(e) == IF e.type = "prompt" THEN {e.number} ELSE {}

\* An event enters the channel.  A full one forgets its oldest.
Broadcast(e) ==
  LET full == Len(bus) >= Capacity
      late == {id \in e.ids : core[id] # e.rows[id]}
  IN  /\ bus' = Append(IF full THEN Tail(bus) ELSE bus, e)
      /\ stale' = (IF Whole(e) THEN (stale \ e.ids) \cup late ELSE stale)
                  \cup IF full THEN Untold(Head(bus), bus') ELSE {}
      /\ behind' = (IF e.type = "progress" THEN (behind \ e.ids) \cup late ELSE behind \ e.ids)
                   \cup IF full THEN Unpainted(Head(bus)) ELSE {}
      /\ dropped' = dropped \cup IF full THEN Unasked(Head(bus)) ELSE {}

\* Two threads may emit in another order than they changed the core.
Emit(e) ==
  /\ unsent' = unsent \ {e} /\ Broadcast(e)
  /\ UNCHANGED <<core, asked, changes, uiReady, hidden, early, pending, windowVars>>

CorePrompt ==
  /\ asked < MaxPrompts /\ asked' = asked + 1
  /\ Broadcast([type |-> "prompt", ids |-> {}, rows |-> Nobody, number |-> asked'])
  /\ UNCHANGED <<core, unsent, changes, uiReady, hidden, early, pending, windowVars>>

\* forward_events, up to where it reads ui_ready.
Forward ==
  /\ bus # <<>> /\ early = <<>> /\ bus' = Tail(bus)
  /\ LET e == Head(bus)
         unseen == e.type = "progress" /\ hidden
         sent == uiReady /\ ~unseen
     IN  /\ events' = IF sent THEN Append(events, e) ELSE events
         /\ early' = IF ~sent /\ e.type = "prompt" THEN <<e>> ELSE <<>>
         /\ stale' = IF sent THEN stale ELSE stale \cup Untold(e, Tail(bus))
         /\ behind' = IF sent THEN behind ELSE behind \cup Unpainted(e)
  /\ UNCHANGED <<coreVars, uiReady, hidden, pending, dropped,
                 start, listing, answer, rows, shown, speed, prompts>>

\* ... and the prompt is kept, also if the window has called app_ready since.
Keep ==
  /\ early # <<>> /\ pending' = pending \o early /\ early' = <<>>
  /\ UNCHANGED <<coreVars, bus, uiReady, hidden, stale, behind, dropped, windowVars>>

ShowOrHide ==
  /\ hidden' = ~hidden
  /\ UNCHANGED <<coreVars, bus, uiReady, early, pending, stale, behind, dropped, windowVars>>

-----------------------------------------------------------------------------
(* applyEvent *)

\* Mutated form: a progress event never changes lists.
StructuralByUpsert(r, s) == Have(r) # Have(s)

\* put: rows and, when a change shows in lists, the structure.
Structural(r, s) == Have(r) # Have(s) \/ \E id \in Have(r) : r[id].status # s[id].status

\* bumpStructure: lists are computed again.
Applied(r) == rows' = r /\ shown' = IF Structural(rows, r) THEN DownloadIds(r) ELSE shown

With(e, ids) == [id \in Ids |-> IF id \in ids THEN e.rows[id] ELSE rows[id]]

Upsert(e) ==
  e.type = "upsert" /\ Applied(With(e, e.ids)) /\ UNCHANGED <<speed, prompts>>

\* Mutated form: only the lists forget the download.
RemovedShown(e) ==
  e.type = "removed" /\ shown' = shown \ e.ids /\ UNCHANGED <<rows, speed, prompts>>

Removed(e) ==
  e.type = "removed" /\ Applied([id \in Ids |-> IF id \in e.ids THEN Absent ELSE rows[id]])
  /\ UNCHANGED <<speed, prompts>>

\* Rows the window does not know are left out.
Progress(e) ==
  e.type = "progress" /\ Applied(With(e, e.ids \cap Have(rows))) /\ speed' = TRUE /\ UNCHANGED prompts

Numbers(s) == [i \in DOMAIN s |-> s[i].number]

\* App: a prompt opens its dialog or screen.
Prompt(e) ==
  e.type = "prompt" /\ prompts' = prompts \o Numbers(<<e>>) /\ UNCHANGED <<rows, shown, speed>>

ApplyEvent ==
  /\ events # <<>> /\ start # "new"
  /\ events' = Tail(events)
  /\ LET e == Head(events) IN Upsert(e) \/ Removed(e) \/ Progress(e) \/ Prompt(e)
  /\ UNCHANGED <<coreVars, shellVars, start, listing, answer>>

-----------------------------------------------------------------------------
(* startStore *)

\* listen, then api.list.
Listen ==
  /\ start = "new" /\ start' = "listing"
  /\ UNCHANGED <<coreVars, shellVars, events, listing, answer, rows, shown, speed, prompts>>

\* The core answers: whatever was lost before is in the list, and only what
\* still waits in the channel may undo it.
List ==
  /\ start = "listing" /\ start' = "listed" /\ listing' = core
  /\ LET waiting == UNION {e.ids : e \in ToSet(bus)} IN
       stale' = stale \cap waiting /\ behind' = behind \cap waiting
  /\ UNCHANGED <<coreVars, bus, uiReady, hidden, early, pending, dropped,
                 events, answer, rows, shown, speed, prompts>>

\* The rows of the answer are set, others left.
Listed ==
  /\ start = "listed" /\ start' = "ready"
  /\ rows' = [id \in Ids |-> IF listing[id] # Absent THEN listing[id] ELSE rows[id]]
  /\ shown' = DownloadIds(rows')
  /\ UNCHANGED <<coreVars, shellVars, events, listing, answer, speed, prompts>>

\* Mutated form: the prompts that are the answer stay with the shell.
AppReadyKeeps ==
  /\ start = "ready" /\ start' = "called" /\ uiReady' = TRUE
  /\ answer' = Numbers(pending) /\ events' = events \o pending /\ pending' = <<>>
  /\ UNCHANGED <<coreVars, bus, hidden, early, stale, behind, dropped, listing, rows, shown, speed, prompts>>

\* app_ready: from now on events are sent; the prompts kept are the answer,
Answer ==
  /\ start = "ready" /\ start' = "called" /\ uiReady' = TRUE
  /\ answer' = Numbers(pending) /\ pending' = <<>>
  /\ UNCHANGED <<coreVars, bus, hidden, early, stale, behind, dropped, events, listing, rows, shown, speed, prompts>>

\* which the window shows when it comes.
AppReady ==
  /\ start = "called" /\ start' = "started"
  /\ prompts' = prompts \o answer /\ answer' = <<>>
  /\ UNCHANGED <<coreVars, shellVars, events, listing, rows, shown, speed>>

\* The interval: nothing transfers, the graph goes flat.
SpeedDecays ==
  /\ start \in {"ready", "called", "started"} /\ speed /\ ~ \E id \in Ids : IsTransferring(rows[id])
  /\ speed' = FALSE
  /\ UNCHANGED <<coreVars, shellVars, events, start, listing, answer, rows, shown, prompts>>

StNext ==
  \/ \E id \in Ids : CoreRemove(id) \/ \E s \in Statuses : CoreUpsert(id, s)
  \/ CoreProgress \/ (\E e \in unsent : Emit(e)) \/ CorePrompt \/ Forward \/ Keep \/ ShowOrHide
  \/ ApplyEvent \/ Listen \/ List \/ Listed \/ Answer \/ AppReady \/ SpeedDecays

StSpec == StInit /\ [][StNext]_stVars

-----------------------------------------------------------------------------
StTypeOK ==
  /\ DOMAIN rows = Ids /\ shown \subseteq Ids
  /\ start \in {"new", "listing", "listed", "ready", "called", "started"}
  /\ \A id \in Ids : rows[id].status \in Statuses \cup {"absent"} /\ rows[id].n \in Nat

Quiet == start = "started" /\ unsent = {} /\ bus = <<>> /\ early = <<>> /\ events = <<>>

\* Rows follow the core: once every event is handled the window shows what
\* the core has, of every download but those whose last event was dropped
\* (before app_ready, by a full channel, or unseen progress) or came after a
\* newer one.
RowsFollow == Quiet => \A id \in Ids \ (stale \cup behind) : rows[id] = core[id]

\* Lists follow rows although they are computed only on structural changes.
ListsFollow == start \in {"ready", "called", "started"} => shown = DownloadIds(rows)

\* Every prompt is shown once, whether it came before or after the window was
\* ready, but for one the channel forgot and one the shell put aside just
\* after app_ready had collected them.
PromptsOnce ==
  /\ IsInjective(prompts)
  /\ Quiet => 1 .. asked = ToSet(prompts) \cup ToSet(Numbers(pending)) \cup dropped
===============================================================================
