----------------------------- MODULE PowerActions -----------------------------
(***************************************************************************)
(* What happens when a queue or all downloads are finished (core.rs        *)
(* check_drained, begin_power, cancel_power) and how the window warns of   *)
(* it (app/src/App.tsx PowerBanner).  Each countdown is a task that waits  *)
(* for its 60 seconds or for a signal; a new one signals the last.  The    *)
(* window shows a banner from powerCountdown to powerCancelled and lets    *)
(* the user cancel.                                                        *)
(*                                                                         *)
(* work is what runs: downloads of the queue, other downloads.  How        *)
(* downloads start and end is external here (module DownloadLifecycle).    *)
(* Bounds: MaxStarts starts of work, MaxSets settings of an action.        *)
(***************************************************************************)
EXTENDS Naturals, FiniteSets, Sequences

CONSTANTS MaxStarts, MaxSets

PowerAssumption == MaxStarts \in Nat /\ MaxSets \in Nat

VARIABLES
  work, starts, queueBusy, anyBusy,    \* the core's view of what runs
  afterAll, queueAfter, sets,          \* what to do then
  toBegin, replaced,                   \* begin_power: to come; between its two steps
  power, tasks, due, signalled, last,  \* the task that can be cancelled; all of them
  performed, quit,
  events, banner, cancels,             \* the window; calls of cancel_power on their way
  allSets, allBegun,                   \* how often the action for all was set, and begun
  crossed                              \* a cancelled countdown was reported after the next began

coreVars == <<work, starts, queueBusy, anyBusy, afterAll, queueAfter, sets, allSets, allBegun>>
taskVars == <<power, tasks, due, signalled, last, performed, quit>>
paVars == <<coreVars, toBegin, replaced, taskVars, events, banner, cancels, crossed>>

Actions == {"none", "shutdown", "quit"}

PaInit ==
  /\ work = {} /\ starts = 0 /\ queueBusy = FALSE /\ anyBusy = FALSE
  /\ afterAll = "none" /\ queueAfter = "none" /\ sets = 0 /\ allSets = 0 /\ allBegun = 0
  /\ toBegin = <<>> /\ replaced = FALSE
  /\ power = 0 /\ tasks = {} /\ due = {} /\ signalled = {} /\ last = 0 /\ performed = {} /\ quit = FALSE
  /\ events = <<>> /\ banner = FALSE /\ cancels = 0 /\ crossed = FALSE

-----------------------------------------------------------------------------
(* Work comes and goes; the actions are set in the settings (AfterAll) and  *)
(* with the queue.                                                          *)

StartWork(w) ==
  /\ starts < MaxStarts /\ starts' = starts + 1 /\ work' = work \cup {w}
  /\ queueBusy' = (queueBusy \/ w = "queue") /\ anyBusy' = TRUE
  /\ UNCHANGED <<afterAll, queueAfter, sets, allSets, allBegun, toBegin, replaced, taskVars, events, banner, cancels, crossed>>

EndWork(w) ==
  /\ w \in work /\ work' = work \ {w}
  /\ UNCHANGED <<starts, queueBusy, anyBusy, afterAll, queueAfter, sets, allSets, allBegun, toBegin, replaced, taskVars,
                 events, banner, cancels, crossed>>

SetAfterAll(a) ==
  /\ sets < MaxSets /\ sets' = sets + 1 /\ afterAll' = a /\ allSets' = allSets + 1
  /\ UNCHANGED <<work, starts, queueBusy, anyBusy, queueAfter, allBegun, toBegin, replaced, taskVars, events, banner,
                 cancels, crossed>>

SetQueueAfter(a) ==
  /\ sets < MaxSets /\ sets' = sets + 1 /\ queueAfter' = a
  /\ UNCHANGED <<work, starts, queueBusy, anyBusy, afterAll, allSets, allBegun, toBegin, replaced, taskVars, events, banner,
                 cancels, crossed>>

Wanted(a) == IF a = "none" THEN <<>> ELSE <<a>>

\* Mutated form: the action stays set for the next time.
AfterAllUsedKeeps == UNCHANGED afterAll

AfterAllUsed == afterAll' = "none"

\* check_drained, at each tick of the main loop: the action of the queue, then
\* that for all.
CheckDrained ==
  LET drained == queueBusy /\ "queue" \notin work
      allDone == anyBusy /\ work = {}
      ofQueue == IF drained THEN Wanted(queueAfter) ELSE <<>>
      ofAll == IF allDone THEN Wanted(afterAll) ELSE <<>>
  IN /\ toBegin = <<>> /\ (drained \/ allDone)
     /\ queueBusy' = (queueBusy /\ ~drained) /\ anyBusy' = (work # {})
     /\ queueAfter' = IF drained THEN "none" ELSE queueAfter
     /\ IF ofAll # <<>> THEN AfterAllUsed /\ allBegun' = allBegun + 1 ELSE UNCHANGED <<afterAll, allBegun>>
     /\ toBegin' = ofQueue \o ofAll
     /\ UNCHANGED <<work, starts, sets, allSets, replaced, taskVars, events, banner, cancels, crossed>>

-----------------------------------------------------------------------------
(* begin_power *)

\* Mutated form: the countdown before goes on.
SignalNobody == UNCHANGED signalled

SignalLast == signalled' = IF power # 0 THEN signalled \cup {power} ELSE signalled

\* The new countdown takes the place of the last, which is signalled ...
ReplaceCountdown ==
  /\ toBegin # <<>> /\ Head(toBegin) # "quit" /\ ~replaced /\ replaced' = TRUE
  /\ SignalLast /\ last' = last + 1 /\ power' = last'
  /\ UNCHANGED <<coreVars, toBegin, tasks, due, performed, quit, events, banner, cancels, crossed>>

\* ... and is reported and started.
StartCountdown ==
  /\ replaced /\ replaced' = FALSE /\ toBegin' = Tail(toBegin)
  /\ events' = Append(events, "powerCountdown") /\ tasks' = tasks \cup {last}
  /\ UNCHANGED <<coreVars, power, due, signalled, last, performed, quit, banner, cancels, crossed>>

Quit ==
  /\ toBegin # <<>> /\ Head(toBegin) = "quit" /\ ~replaced /\ quit' = TRUE /\ toBegin' = Tail(toBegin)
  /\ UNCHANGED <<coreVars, replaced, power, tasks, due, signalled, last, performed, events, banner, cancels, crossed>>

Due(id) ==
  /\ id \in tasks \ due /\ due' = due \cup {id}
  /\ UNCHANGED <<coreVars, toBegin, replaced, power, tasks, signalled, last, performed, quit, events, banner, cancels, crossed>>

\* The time is up, also if the signal came at the same time.  Whoever can be
\* cancelled by now loses its sender, which is a signal too.
Perform(id) ==
  /\ id \in tasks \cap due /\ tasks' = tasks \ {id} /\ performed' = performed \cup {id}
  /\ power' = 0 /\ signalled' = IF power \notin {0, id} THEN signalled \cup {power} ELSE signalled
  /\ UNCHANGED <<coreVars, toBegin, replaced, due, last, quit, events, banner, cancels, crossed>>

Cancelled(id) ==
  /\ id \in tasks \cap signalled /\ tasks' = tasks \ {id}
  /\ events' = Append(events, "powerCancelled")
  /\ crossed' = (crossed \/ \E n \in tasks : n > id)
  /\ UNCHANGED <<coreVars, toBegin, replaced, power, due, signalled, last, performed, quit, banner, cancels>>

CancelPower ==
  /\ cancels > 0 /\ cancels' = cancels - 1 /\ power' = 0
  /\ signalled' = IF power # 0 THEN signalled \cup {power} ELSE signalled
  /\ UNCHANGED <<coreVars, toBegin, replaced, tasks, due, last, performed, quit, events, banner, crossed>>

-----------------------------------------------------------------------------
(* The window *)

\* Mutated form: a cancelled countdown leaves its banner, a new one is shown only
\* without it.
HandleEventOnce ==
  /\ events # <<>> /\ events' = Tail(events)
  /\ banner' = (Head(events) = "powerCountdown" /\ ~banner)
  /\ UNCHANGED <<coreVars, toBegin, replaced, taskVars, cancels, crossed>>

HandleEvent ==
  /\ events # <<>> /\ events' = Tail(events) /\ banner' = (Head(events) = "powerCountdown")
  /\ UNCHANGED <<coreVars, toBegin, replaced, taskVars, cancels, crossed>>

\* Cancel closes the banner at once.
CancelBanner ==
  /\ banner /\ banner' = FALSE /\ cancels' = cancels + 1
  /\ UNCHANGED <<coreVars, toBegin, replaced, taskVars, events, crossed>>

PaNext ==
  \/ \E w \in {"queue", "other"} : StartWork(w) \/ EndWork(w)
  \/ \E a \in Actions : SetAfterAll(a) \/ SetQueueAfter(a)
  \/ CheckDrained \/ ReplaceCountdown \/ StartCountdown \/ Quit
  \/ \E id \in tasks : Due(id) \/ Perform(id) \/ Cancelled(id)
  \/ CancelPower \/ HandleEvent \/ CancelBanner

PaSpec == PaInit /\ [][PaNext]_paVars

-----------------------------------------------------------------------------
PaTypeOK ==
  /\ {afterAll, queueAfter} \subseteq Actions /\ power \in 0 .. last
  /\ tasks \cup due \cup signalled \cup performed \subseteq 1 .. last /\ cancels \in Nat

\* Two countdowns never run side by side: all but the last are told to stop.
OneCountdown == Cardinality(tasks \ signalled) <= 1

\* While a countdown runs, the window shows it and lets the user cancel, except
\* where the end of the countdown before was reported after it began.
Warned ==
  events = <<>> /\ cancels = 0 /\ ~crossed /\ tasks \ signalled # {} => banner

\* The action for all downloads is done once for each time it was set.
AfterAllOnce == allBegun <= allSets
===============================================================================
