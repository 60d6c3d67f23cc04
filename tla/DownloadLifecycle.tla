-------------------------- MODULE DownloadLifecycle --------------------------
(***************************************************************************)
(* Downloads in KuCore (core.rs) and their runs in the KuHTTP engine       *)
(* (kuhttp/mod.rs, core/kuhttp_bridge.rs): the list of entries, the pump   *)
(* that starts them, the tasks it spawns, the watchers that report how a   *)
(* run ended, the calls of the user, the database, and restarts.           *)
(*                                                                         *)
(* A thread changes an entry under the lock of the list but writes it to   *)
(* the database after it has let the lock go, and everything spawned runs  *)
(* when the runtime gets to it: each of these is a step here.              *)
(*                                                                         *)
(* Left out: queues (all entries are direct), positions (the pump takes    *)
(* any of the ready entries), seeding and the other engines, progress, and *)
(* Processing, which counts as Downloading everywhere below.               *)
(***************************************************************************)
EXTENDS Integers, FiniteSets, Bags, TLC

CONSTANTS
  Ids,           \* downloads
  Callers,       \* threads of the user interface and the local API
  MaxConcurrent, \* Settings::max_concurrent
  AutoRetry,     \* Settings::auto_retry
  MaxCalls,      \* bound: calls made in all
  MaxExits,      \* bound: how often the application ends and starts again
  Ops            \* the calls that are made

ASSUME LifecycleAssumption ==
  /\ MaxConcurrent \in Nat \ {0} /\ AutoRetry \in Nat
  /\ MaxCalls \in Nat /\ MaxExits \in Nat /\ IsFiniteSet(Ids)
  /\ Ops \subseteq {"pause", "resume", "remove", "clear", "redownload"}
VARIABLES
  entry,    \* State::downloads, in memory
  db,       \* the rows of the database
  retryAt,  \* State::retry_at: none, waiting, due
  run,      \* the engine's job table: the last run made for a download
  tasks,    \* the spawned tasks, and where each is
  call,     \* what each caller is doing
  closing,  \* Core::shutting_down
  calls, exits,
  met       \* history: the last start of a download found a run being stopped

vars == <<entry, db, retryAt, run, tasks, call, closing, calls, exits, met>>

Gone == [status |-> "Gone", retries |-> 0]
Fresh == [status |-> "Queued", retries |-> 0]
NoCall == [op |-> "none", ids |-> {}, pc |-> "idle", snap |-> Gone]

Outcomes == {"Completed", "Stopped", "DiskFull", "Recoverable", "Failed"}

Known(id) == entry[id] # Gone
Running == {id \in Ids : entry[id].status = "Downloading"}

Task(kind, id) == [kind |-> kind, id |-> id, out |-> "Stopped", snap |-> Gone, retry |-> FALSE]
Tasks(kind, id) == {t \in BagToSet(tasks) : t.kind = kind /\ t.id = id}
OnTheWay(id) == {t \in BagToSet(tasks) : t.id = id}

\* The task t goes on as u, or ends.
Becomes(t, u) == tasks' = (tasks (-) SetToBag({t})) (+) SetToBag({u})
Ends(t) == tasks' = tasks (-) SetToBag({t})

\* A run: its status is not terminal (going), is (ended), and its task is done.
NoRun == [state |-> "none", stop |-> FALSE, out |-> "Stopped"]
NewRun == [NoRun EXCEPT !.state = "going"]
Active(id) == run[id].state \in {"going", "ended"}

\* add has put the entry into the list and goes on to write its row.
Init ==
  /\ entry = [id \in Ids |-> Fresh] /\ db = [id \in Ids |-> Gone]
  /\ retryAt = [id \in Ids |-> "none"]
  /\ run = [id \in Ids |-> NoRun]
  /\ tasks = SetToBag({[Task("commit", id) EXCEPT !.snap = Fresh] : id \in Ids})
  /\ call = [c \in Callers |-> NoCall]
  /\ closing = FALSE /\ calls = 0 /\ exits = 0 /\ met = [id \in Ids |-> FALSE]

-----------------------------------------------------------------------------
(* pump *)

\* Mutated form: an entry whose backoff is over is not ready either.
ReadyUndelayed == {id \in Ids : entry[id].status = "Queued" /\ retryAt[id] = "none"}

Ready == {id \in Ids : entry[id].status = "Queued" /\ retryAt[id] # "waiting"}

\* Mutated form: what is running already is not counted.
SlotsUncounted == MaxConcurrent

Slots == IF Cardinality(Running) < MaxConcurrent THEN MaxConcurrent - Cardinality(Running) ELSE 0

\* The pump takes ready entries for its free slots, marks them, and then
\* writes and spawns one after the other.
Pump ==
  /\ ~closing /\ \A id \in Ids : Tasks("publish", id) = {}
  /\ \E chosen \in (SUBSET Ready) \ {{}} :
       /\ Cardinality(chosen) <= Slots
       /\ Cardinality(chosen) < Slots => chosen = Ready
       /\ entry' = [id \in Ids |-> IF id \in chosen THEN [entry[id] EXCEPT !.status = "Downloading"]
                                   ELSE entry[id]]
       /\ retryAt' = [id \in Ids |-> IF id \in chosen THEN "none" ELSE retryAt[id]]
       /\ tasks' = tasks (+) SetToBag({[Task("publish", id) EXCEPT !.snap = entry'[id]] : id \in chosen})
  /\ UNCHANGED <<db, run, call, calls, closing, exits, met>>

Publish(t) ==
  /\ t.kind = "publish"
  /\ db' = [db EXCEPT ![t.id] = t.snap]
  /\ Becomes(t, Task("start", t.id))
  /\ UNCHANGED <<entry, retryAt, run, call, calls, closing, exits, met>>

-----------------------------------------------------------------------------
(* start_kuhttp, and the watcher it spawns *)

\* Mutated form: only the first run of a download gets a watcher.
StartWatchedOnce(t) ==
  /\ t.kind = "start"
  /\ run' = IF Active(t.id) THEN run ELSE [run EXCEPT ![t.id] = NewRun]
  /\ IF run[t.id] = NoRun THEN Becomes(t, Task("watch", t.id)) ELSE Ends(t)
  /\ UNCHANGED <<entry, db, retryAt, call, calls, closing, exits, met>>

\* KuHttpEngine::download makes a run unless the last one is not done yet.
StartTask(t) ==
  /\ t.kind = "start"
  /\ run' = IF Active(t.id) THEN run ELSE [run EXCEPT ![t.id] = NewRun]
  /\ met' = [met EXCEPT ![t.id] = Active(t.id) /\ run[t.id].stop]
  /\ Becomes(t, Task("watch", t.id))
  /\ UNCHANGED <<entry, db, retryAt, call, calls, closing, exits>>

\* The folder cannot be created, the engine not be set up.
StartFails(t) ==
  /\ t.kind = "start"
  /\ IF Known(t.id)
     THEN /\ entry' = [entry EXCEPT ![t.id].status = "Error"]
          /\ Becomes(t, [Task("commit", t.id) EXCEPT !.snap = entry'[t.id]])
     ELSE Ends(t) /\ UNCHANGED entry
  /\ UNCHANGED <<db, retryAt, run, call, calls, closing, exits, met>>

\* The engine's own run ends.  A stop is honoured, or comes too late: a probe
\* under way may use up its retries, a file be finalized.
RunEnds(id) ==
  /\ run[id].state = "going"
  /\ \E out \in IF run[id].stop THEN Outcomes ELSE Outcomes \ {"Stopped"} :
       run' = [run EXCEPT ![id] = [@ EXCEPT !.state = "ended", !.out = out]]
  /\ UNCHANGED <<entry, db, retryAt, tasks, call, calls, closing, exits, met>>

Woken(id) == [Task("woken", id) EXCEPT !.out = run[id].out]

\* done_tx.send(true), after the terminal status was set: it wakes every
\* watcher that waits for this run.
RunDone(id) ==
  /\ run[id].state = "ended"
  /\ run' = [run EXCEPT ![id].state = "done"]
  /\ LET waiting == [t \in BagToSet(tasks) \cap {Task("wait", id)} |-> tasks[t]]
         woken == [u \in {Woken(id) : t \in DOMAIN waiting} |-> tasks[Task("wait", id)]]
     IN  tasks' = (tasks (-) waiting) (+) woken
  /\ UNCHANGED <<entry, db, retryAt, call, calls, closing, exits, met>>

\* The watcher looks its job up when it first runs.
Watch(t) ==
  /\ t.kind = "watch"
  /\ Becomes(t, IF Active(t.id) THEN Task("wait", t.id) ELSE Woken(t.id))
  /\ UNCHANGED <<entry, db, retryAt, run, call, calls, closing, exits, met>>

\* "A newer run for the same id replaced this one: ignore."
WatchEnds(t) ==
  /\ t.kind = "woken"
  /\ IF run[t.id].state = "going" THEN Ends(t) ELSE Becomes(t, [t EXCEPT !.kind = "report"])
  /\ UNCHANGED <<entry, db, retryAt, run, call, calls, closing, exits, met>>

-----------------------------------------------------------------------------
(* kuhttp_finished *)

\* Mutated form: retries have no limit.
RetriedAlways(e, out) == out = "Recoverable"

Retried(e, out) == out = "Recoverable" /\ e.retries < AutoRetry

\* Mutated form: a pause for want of space is taken for one by the user.
ReportedWithoutDiskFull(e, out) ==
  IF Retried(e, out) THEN [status |-> "Queued", retries |-> e.retries + 1]
  ELSE [e EXCEPT !.status = CASE out = "Completed" -> "Completed"
                              [] out \in {"DiskFull", "Stopped"} -> e.status
                              [] OTHER -> "Error"]

\* The entry after the report: whatever it was before.
Reported(e, out) ==
  IF Retried(e, out) THEN [status |-> "Queued", retries |-> e.retries + 1]
  ELSE [e EXCEPT !.status = CASE out = "Completed" -> "Completed"
                              [] out = "DiskFull" -> "Paused"
                              [] out = "Stopped" -> e.status
                              [] OTHER -> "Error"]

Report(t) ==
  /\ t.kind = "report"
  /\ IF Known(t.id)
     THEN /\ entry' = [entry EXCEPT ![t.id] = Reported(@, t.out)]
          /\ Becomes(t, [Task("commit", t.id) EXCEPT !.snap = entry'[t.id],
                                                     !.retry = Retried(entry[t.id], t.out)])
     ELSE Ends(t) /\ UNCHANGED entry
  /\ UNCHANGED <<db, retryAt, run, call, calls, closing, exits, met>>

\* Core::update writes its snapshot after the lock is released.
Commit(t) ==
  /\ t.kind = "commit"
  /\ db' = [db EXCEPT ![t.id] = t.snap]
  /\ IF t.retry THEN Becomes(t, Task("delay", t.id)) ELSE Ends(t)
  /\ UNCHANGED <<entry, retryAt, run, call, calls, closing, exits, met>>

Delay(t) ==
  /\ t.kind = "delay"
  /\ retryAt' = [retryAt EXCEPT ![t.id] = "waiting"]
  /\ Ends(t)
  /\ UNCHANGED <<entry, db, run, call, calls, closing, exits, met>>

BackoffElapses(id) ==
  /\ retryAt[id] = "waiting"
  /\ retryAt' = [retryAt EXCEPT ![id] = "due"]
  /\ UNCHANGED <<entry, db, run, tasks, call, calls, closing, exits, met>>

TaskStep(t) ==
  \/ Publish(t) \/ StartTask(t) \/ StartFails(t) \/ Watch(t) \/ WatchEnds(t)
  \/ Report(t) \/ Commit(t) \/ Delay(t)

-----------------------------------------------------------------------------
(* The calls of the user *)

\* A call may begin at any time, whatever is on its way for the download.
Begins(c, op, ids, pc, snap) ==
  /\ op \in Ops /\ call[c] = NoCall /\ calls < MaxCalls
  /\ call' = [call EXCEPT ![c] = [op |-> op, ids |-> ids, pc |-> pc, snap |-> snap]]
  /\ calls' = calls + 1

\* pause reads the entry first and acts on what it read.
PauseCall(c) ==
  /\ \E id \in Ids :
       \/ entry[id].status = "Downloading" /\ Begins(c, "pause", {id}, "stop", Gone)
       \/ entry[id].status = "Queued" /\ Begins(c, "pause", {id}, "pausing", Gone)
  /\ UNCHANGED <<entry, db, retryAt, run, tasks, closing, exits, met>>

\* stop_engine, or the cancel of remove: the run is told through its control
\* channel, if there is one.
StopRun(c) ==
  /\ call[c].pc = "stop"
  /\ run' = [id \in Ids |-> [run[id] EXCEPT !.stop = @ \/ (id \in call[c].ids /\ Active(id))]]
  /\ call' = [call EXCEPT ![c].pc = IF call[c].op = "pause" THEN "pausing" ELSE "forget"]
  /\ UNCHANGED <<entry, db, retryAt, tasks, calls, closing, exits, met>>

\* A call mutates its entry under the lock and keeps a snapshot to write.
Updates(c, id, e) ==
  IF Known(id)
  THEN /\ entry' = [entry EXCEPT ![id] = e]
       /\ call' = [call EXCEPT ![c].pc = "commit", ![c].snap = e]
  ELSE call' = [call EXCEPT ![c] = NoCall] /\ UNCHANGED entry

\* Whatever the entry has become since pause read it.
Pausing(c) ==
  /\ call[c].pc = "pausing"
  /\ \E id \in call[c].ids : Updates(c, id, [entry[id] EXCEPT !.status = "Paused"])
  /\ UNCHANGED <<db, retryAt, run, tasks, calls, closing, exits, met>>

ResumeCall(c) ==
  /\ \E id \in Ids :
       LET e == IF entry[id].status \in {"Paused", "Error", "Queued"}
                THEN [status |-> "Queued",
                      retries |-> IF entry[id].status = "Error" THEN 0 ELSE entry[id].retries]
                ELSE entry[id]
       IN  /\ Known(id)
           /\ Begins(c, "resume", {id}, "commit", e)
           /\ entry' = [entry EXCEPT ![id] = e]
  /\ UNCHANGED <<db, retryAt, run, tasks, closing, exits, met>>

\* redownload deletes the files of an entry it found not running ...
RedownloadCall(c) ==
  /\ \E id \in Ids : /\ Known(id) /\ id \notin Running
                    /\ Begins(c, "redownload", {id}, "requeue", Gone)
  /\ UNCHANGED <<entry, db, retryAt, run, tasks, closing, exits, met>>

\* ... and queues it again.
Requeue(c) ==
  /\ call[c].pc = "requeue"
  /\ \E id \in call[c].ids : Updates(c, id, Fresh)
  /\ UNCHANGED <<db, retryAt, run, tasks, calls, closing, exits, met>>

CallCommits(c) ==
  /\ call[c].pc = "commit"
  /\ db' = [id \in Ids |-> IF id \in call[c].ids THEN call[c].snap ELSE db[id]]
  /\ call' = [call EXCEPT ![c] = IF call[c].op = "pause" THEN NoCall ELSE [@ EXCEPT !.pc = "retryAt"]]
  /\ UNCHANGED <<entry, retryAt, run, tasks, calls, closing, exits, met>>

ClearRetryAt(c) ==
  /\ call[c].pc = "retryAt"
  /\ retryAt' = [id \in Ids |-> IF id \in call[c].ids THEN "none" ELSE retryAt[id]]
  /\ call' = [call EXCEPT ![c] = NoCall]
  /\ UNCHANGED <<entry, db, run, tasks, calls, closing, exits, met>>

RemoveCall(c) ==
  /\ \E id \in Ids : Known(id) /\ Begins(c, "remove", {id}, "stop", Gone)
  /\ UNCHANGED <<entry, db, retryAt, run, tasks, closing, exits, met>>

\* After 200 ms, in which the run may have ended or not.
Forget(c) ==
  /\ call[c].pc = "forget"
  /\ entry' = [id \in Ids |-> IF id \in call[c].ids THEN Gone ELSE entry[id]]
  /\ retryAt' = [id \in Ids |-> IF id \in call[c].ids THEN "none" ELSE retryAt[id]]
  /\ call' = [call EXCEPT ![c].pc = "delete"]
  /\ UNCHANGED <<db, run, tasks, calls, closing, exits, met>>

ClearFinishedCall(c) ==
  /\ \E finished \in {{id \in Ids : entry[id].status = "Completed"}} \ {{}} :
       /\ Begins(c, "clear", finished, "delete", Gone)
       /\ entry' = [id \in Ids |-> IF id \in finished THEN Gone ELSE entry[id]]
  /\ UNCHANGED <<db, retryAt, run, tasks, closing, exits, met>>

DeleteRows(c) ==
  /\ call[c].pc = "delete"
  /\ db' = [id \in Ids |-> IF id \in call[c].ids THEN Gone ELSE db[id]]
  /\ call' = [call EXCEPT ![c] = NoCall]
  /\ UNCHANGED <<entry, retryAt, run, tasks, calls, closing, exits, met>>

CallBegins(c) ==
  PauseCall(c) \/ ResumeCall(c) \/ RedownloadCall(c) \/ RemoveCall(c) \/ ClearFinishedCall(c)

CallStep(c) ==
  StopRun(c) \/ Pausing(c) \/ Requeue(c) \/ CallCommits(c) \/ ClearRetryAt(c) \/ Forget(c) \/ DeleteRows(c)

-----------------------------------------------------------------------------
(* The application ends, by shutdown or by a crash, and starts again *)

\* recover: what was running is queued again.
Recovered(e) == IF e.status = "Downloading" THEN [e EXCEPT !.status = "Queued"] ELSE e

\* kuhttp_shutdown: running downloads are told to stop but stay marked.
Shutdown ==
  /\ MaxExits > 0 /\ ~closing /\ closing' = TRUE
  /\ run' = [id \in Ids |-> [run[id] EXCEPT !.stop = @ \/ (id \in Running /\ Active(id))]]
  /\ UNCHANGED <<entry, db, retryAt, tasks, call, calls, exits, met>>

Restart ==
  /\ exits < MaxExits /\ exits' = exits + 1
  /\ entry' = [id \in Ids |-> Recovered(db[id])] /\ db' = entry'
  /\ retryAt' = [id \in Ids |-> "none"]
  /\ run' = [id \in Ids |-> NoRun]
  /\ tasks' = EmptyBag
  /\ call' = [c \in Callers |-> NoCall]
  /\ closing' = FALSE /\ met' = [id \in Ids |-> FALSE]
  /\ UNCHANGED calls

-----------------------------------------------------------------------------

Next ==
  \/ Pump
  \/ \E t \in BagToSet(tasks) : TaskStep(t)
  \/ \E id \in Ids : RunEnds(id) \/ RunDone(id) \/ BackoffElapses(id)
  \/ \E c \in Callers : CallBegins(c) \/ CallStep(c)
  \/ Shutdown \/ Restart

Spec == Init /\ [][Next]_vars

\* Downloads are alike, and so are callers.
Symmetry == Permutations(Ids) \cup Permutations(Callers)

-----------------------------------------------------------------------------
(* Properties *)

Statuses == {"Queued", "Downloading", "Paused", "Completed", "Error"}
Entry == [status : Statuses, retries : 0 .. AutoRetry] \cup {Gone}
RunType == [state : {"none", "going", "ended", "done"}, stop : BOOLEAN, out : Outcomes]
Kinds == {"publish", "start", "watch", "wait", "woken", "report", "commit", "delay"}
TaskType == [kind : Kinds, id : Ids, out : Outcomes, snap : Entry, retry : BOOLEAN]
CallType ==
  [op : Ops \cup {"none"}, ids : SUBSET Ids, snap : Entry,
   pc : {"idle", "stop", "pausing", "requeue", "commit", "retryAt", "forget", "delete"}]

\* The type of every variable.
TypeOK ==
  /\ entry \in [Ids -> Entry] /\ db \in [Ids -> Entry]
  /\ retryAt \in [Ids -> {"none", "waiting", "due"}]
  /\ run \in [Ids -> RunType]
  /\ IsABag(tasks) /\ BagToSet(tasks) \subseteq TaskType
  /\ call \in [Callers -> CallType]
  /\ closing \in BOOLEAN /\ calls \in 0 .. MaxCalls /\ exits \in 0 .. MaxExits
  /\ met \in [Ids -> BOOLEAN]

\* Never more entries run than the user allows, whichever threads pause,
\* requeue, report and start them meanwhile.
SlotsRespected == Cardinality(Running) <= MaxConcurrent

\* Every run that is not over has a watcher that will report it, also one
\* that was found already running.
EveryRunIsWatched ==
  \A id \in Ids : Active(id) => Tasks("watch", id) \cup Tasks("wait", id) # {}

\* Something will still act on an entry that is Downloading: its start, a
\* watcher of its run, a report, a call.  Otherwise it stays so forever.
LookedAfter(id) == OnTheWay(id) # {} \/ closing \/ \E c \in Callers : id \in call[c].ids

\* What a user expects, and the code does not keep.
Attended == \A id \in Running : LookedAfter(id)

\* There is one way to leave an entry behind: its start found the last run told
\* to stop but not done, and took it for its own (KuHttpEngine::download,
\* "already running").  Whatever else overlaps, pauses, resumes, removals,
\* retries, stale reports and doubled watchers, something still acts on it.
LeftOnlyByMeeting == \A id \in Running : LookedAfter(id) \/ met[id]

\* The next four are what a user expects and the code does not keep (README,
\* section 6).  A paused download stays paused until the user resumes it or fetches it
\* again, or a run that was finished all the same says so.
PauseHolds ==
  [][\A id \in Ids : entry[id].status = "Paused" /\ entry'[id].status = "Queued" =>
       exits' # exits \/ \E c \in Callers : call'[c] # call[c]]_vars

\* stop_engine stops the engine: once a pause is through, no run goes on.
PauseStopsTheRun ==
  \A id \in Ids : /\ entry[id].status = "Paused"
                  /\ \A c \in Callers : id \notin call[c].ids
                  /\ run[id].state = "going"
                  => run[id].stop

\* The main loop only keeps waking up each second for what is running or
\* queued.
IdleSleeps ==
  (\A id \in Ids : entry[id].status \notin {"Queued", "Downloading"}) /\ tasks = EmptyBag
  /\ (\A c \in Callers : call[c] = NoCall) => \A id \in Ids : retryAt[id] = "none"

\* When nothing is on its way the database has what memory has.
MemoryIsSaved ==
  (\A id \in Ids : \A t \in OnTheWay(id) : t.kind = "wait") /\ (\A c \in Callers : call[c] = NoCall)
    => \A id \in Ids : db[id].status = entry[id].status

\* What is queued gets its turn, after failures, retries and overlapping calls,
\* unless an entry was left behind in a slot.
QueuedStarts ==
  \A id \in Ids : entry[id].status = "Queued" ~>
                   entry[id].status # "Queued" \/ closing \/ \E other \in Ids : met[other]

\* What runs comes to an end that the user sees, unless it was left behind.
DownloadingEnds ==
  \A id \in Ids : entry[id].status = "Downloading" ~> entry[id].status # "Downloading" \/ closing \/ met[id]

\* The runtime runs every task, the main loop pumps, and a run ends
\* (KuHttpJob, RunEnds).
Fairness ==
  /\ WF_vars(Pump)
  /\ WF_vars(\E t \in BagToSet(tasks) : TaskStep(t))
  /\ \A id \in Ids : WF_vars(RunEnds(id)) /\ WF_vars(RunDone(id)) /\ WF_vars(BackoffElapses(id))
  /\ \A c \in Callers : WF_vars(CallStep(c))

FairSpec == Spec /\ Fairness
=============================================================================
