----------------------- MODULE DownloadLifecycleProofs -----------------------
(***************************************************************************)
(* Slots, watchers and entries left behind of DownloadLifecycle, for any   *)
(* number of downloads, callers, slots, retries, calls and restarts.       *)
(***************************************************************************)
EXTENDS DownloadLifecycle, FiniteSetTheorems, TLAPS

-----------------------------------------------------------------------------
(* Bags of tasks *)

\* As many copies of each member of a set.
LEMMA ConstantBag ==
  ASSUME NEW S, NEW n, S # {} => n \in Nat /\ n > 0
  PROVE  IsABag([x \in S |-> n])
BY DEF IsABag

\* The bag union of two bags is a bag.
LEMMA SumIsABag ==
  ASSUME NEW A, NEW B, IsABag(A), IsABag(B)
  PROVE  IsABag(A (+) B)
BY DEF IsABag, (+)

\* A task that goes on as another: it is in the bag, and so is every other.
LEMMA BecomesKeeps ==
  ASSUME NEW t \in BagToSet(tasks), NEW u, IsABag(tasks), Becomes(t, u)
  PROVE  /\ IsABag(tasks')
         /\ u \in BagToSet(tasks')
         /\ BagToSet(tasks') \subseteq BagToSet(tasks) \cup {u}
         /\ BagToSet(tasks) \ {t} \subseteq BagToSet(tasks')
BY DEF Becomes, IsABag, BagToSet, SetToBag, (+), (-)

\* A task that ends leaves every other.
LEMMA EndsKeeps ==
  ASSUME NEW t \in BagToSet(tasks), IsABag(tasks), Ends(t)
  PROVE  /\ IsABag(tasks')
         /\ BagToSet(tasks') \subseteq BagToSet(tasks)
         /\ BagToSet(tasks) \ {t} \subseteq BagToSet(tasks')
BY DEF Ends, IsABag, BagToSet, SetToBag, (-)

\* Tasks that are spawned come to those there are.
LEMMA AddsKeeps ==
  ASSUME NEW S, IsABag(tasks), tasks' = tasks (+) SetToBag(S)
  PROVE  /\ IsABag(tasks')
         /\ BagToSet(tasks') = BagToSet(tasks) \cup S
BY DEF IsABag, BagToSet, SetToBag, (+)

-----------------------------------------------------------------------------
(* Entries, tasks and calls have their types *)

\* What the actions make of an entry is an entry.
LEMMA EntryTyped ==
  /\ Gone \in Entry /\ Fresh \in Entry /\ Fresh # Gone
  /\ \A e \in Entry : e # Gone => e.status \in Statuses /\ e.retries \in 0 .. AutoRetry
  /\ \A e \in Entry, s \in Statuses : e # Gone =>
       [e EXCEPT !.status = s] \in Entry /\ [e EXCEPT !.status = s].status = s
BY LifecycleAssumption DEF Entry, Statuses, Gone, Fresh

\* kuhttp_finished: a report makes an entry of an entry, and never starts one.
LEMMA ReportedTyped ==
  ASSUME NEW e \in Entry, e # Gone, NEW out \in Outcomes
  PROVE  /\ Reported(e, out) \in Entry
         /\ Reported(e, out).status = "Downloading" => e.status = "Downloading"
<1>0. e.status \in Statuses /\ e.retries \in 0 .. AutoRetry /\ AutoRetry \in Nat
  BY EntryTyped, LifecycleAssumption
<1>1. CASE Retried(e, out)
  <2>1. e.retries + 1 \in 0 .. AutoRetry
    BY <1>0, <1>1 DEF Retried
  <2>2. QED
    BY <1>1, <2>1 DEF Reported, Entry, Statuses
<1>2. CASE ~Retried(e, out)
  <2>1. PICK s \in Statuses : /\ Reported(e, out) = [e EXCEPT !.status = s]
                              /\ s = "Downloading" => s = e.status
    BY <1>0, <1>2 DEF Reported, Statuses, Outcomes
  <2>2. QED
    BY <2>1, EntryTyped
<1>3. QED
  BY <1>1, <1>2

\* Only a report that the run was stopped leaves an entry running.
LEMMA ReportedStopped ==
  ASSUME NEW e \in Entry, e # Gone, NEW out \in Outcomes, Reported(e, out).status = "Downloading"
  PROVE  e.status = "Downloading" /\ out = "Stopped"
<1>0. e.status \in Statuses
  BY EntryTyped
<1>1. ~Retried(e, out)
  BY DEF Reported
<1>2. out = "Stopped"
  <2>1. ASSUME out # "Stopped" PROVE FALSE
    <3>1. PICK s \in {"Completed", "Paused", "Error"} : Reported(e, out) = [e EXCEPT !.status = s]
      BY <1>1, <2>1 DEF Reported, Outcomes
    <3>2. QED
      BY <3>1, EntryTyped DEF Statuses
  <2>2. QED
    BY <2>1
<1>3. QED
  BY <1>2, ReportedTyped

\* Whatever is spawned is a task.
LEMMA TaskTyped ==
  ASSUME NEW k \in Kinds, NEW id \in Ids
  PROVE  /\ Task(k, id) \in TaskType
         /\ Task(k, id).kind = k /\ Task(k, id).id = id
         /\ \A e \in Entry :
              LET u == [Task(k, id) EXCEPT !.snap = e]
              IN  u \in TaskType /\ u.kind = k /\ u.id = id
         /\ \A e \in Entry, b \in BOOLEAN :
              [Task(k, id) EXCEPT !.snap = e, !.retry = b] \in TaskType
         /\ \A o \in Outcomes : [Task(k, id) EXCEPT !.out = o] \in TaskType
BY EntryTyped DEF Task, TaskType, Outcomes

\* recover: what a restart finds in a row is an entry that does not run.
LEMMA RecoveredTyped ==
  ASSUME NEW e \in Entry
  PROVE  Recovered(e) \in Entry /\ Recovered(e).status # "Downloading"
BY EntryTyped DEF Recovered, Entry, Statuses, Gone

-----------------------------------------------------------------------------
(* The type invariant *)

\* pump: what is chosen is marked, and a task is spawned for each.
LEMMA PumpTyped == TypeOK /\ Pump => TypeOK'
<1> SUFFICES ASSUME TypeOK, Pump PROVE TypeOK'
  OBVIOUS
<1>1. PICK chosen \in SUBSET Ready :
        /\ entry' = [id \in Ids |-> IF id \in chosen THEN [entry[id] EXCEPT !.status = "Downloading"]
                                   ELSE entry[id]]
        /\ retryAt' = [id \in Ids |-> IF id \in chosen THEN "none" ELSE retryAt[id]]
        /\ tasks' = tasks (+) SetToBag({[Task("publish", id) EXCEPT !.snap = entry'[id]] : id \in chosen})
  BY DEF Pump
<1>2. \A id \in chosen : id \in Ids /\ entry[id] \in Entry /\ entry[id] # Gone
  BY DEF Ready, TypeOK, Gone
<1>3. entry' \in [Ids -> Entry]
  <2>1. \A id \in Ids : entry[id] \in Entry
    BY DEF TypeOK
  <2>2. \A id \in chosen : [entry[id] EXCEPT !.status = "Downloading"] \in Entry
    BY <1>2, EntryTyped DEF Statuses
  <2>3. QED
    BY <1>1, <2>1, <2>2
<1>4. retryAt' \in [Ids -> {"none", "waiting", "due"}]
  BY <1>1 DEF TypeOK
<1> DEFINE S == {[Task("publish", id) EXCEPT !.snap = entry'[id]] : id \in chosen}
<1>5. S \subseteq TaskType
  <2> SUFFICES ASSUME NEW id \in chosen PROVE [Task("publish", id) EXCEPT !.snap = entry'[id]] \in TaskType
    OBVIOUS
  <2>1. entry'[id] \in Entry /\ "publish" \in Kinds
    BY <1>2, <1>3 DEF Kinds
  <2>2. QED
    BY <1>2, <2>1, TaskTyped
<1>6. tasks' = tasks (+) SetToBag(S)
  BY <1>1
<1> HIDE DEF S
<1>7. IsABag(tasks') /\ BagToSet(tasks') \subseteq TaskType
  BY <1>5, <1>6, AddsKeeps DEF TypeOK
<1>8. QED
  BY <1>3, <1>4, <1>7 DEF TypeOK, Pump

\* Everything that was spawned: its next step.
LEMMA TaskStepTyped ==
  ASSUME TypeOK, NEW t \in BagToSet(tasks), TaskStep(t)
  PROVE  TypeOK'
<1>0. /\ IsABag(tasks) /\ t \in TaskType /\ t.kind \in Kinds /\ t.id \in Ids /\ t.out \in Outcomes
      /\ t.snap \in Entry /\ entry[t.id] \in Entry /\ run[t.id] \in RunType
      /\ entry \in [Ids -> Entry] /\ db \in [Ids -> Entry] /\ run \in [Ids -> RunType]
  BY DEF TypeOK, TaskType
<1>k. /\ Task("start", t.id) \in TaskType /\ Task("watch", t.id) \in TaskType
      /\ Task("wait", t.id) \in TaskType /\ Task("delay", t.id) \in TaskType
  <2>1. \A k \in Kinds : Task(k, t.id) \in TaskType
    BY <1>0, TaskTyped
  <2>2. QED
    BY <2>1 DEF Kinds
<1>c. /\ \A e \in Entry : [Task("commit", t.id) EXCEPT !.snap = e] \in TaskType
      /\ \A e \in Entry, b \in BOOLEAN :
           [Task("commit", t.id) EXCEPT !.snap = e, !.retry = b] \in TaskType
  <2>1. "commit" \in Kinds
    BY DEF Kinds
  <2>2. QED
    BY <1>0, <2>1, TaskTyped
<1>1. ASSUME NEW u \in TaskType, Becomes(t, u) PROVE IsABag(tasks') /\ BagToSet(tasks') \subseteq TaskType
  BY <1>0, <1>1, BecomesKeeps DEF TypeOK
<1>2. ASSUME Ends(t) PROVE IsABag(tasks') /\ BagToSet(tasks') \subseteq TaskType
  BY <1>0, <1>2, EndsKeeps DEF TypeOK
<1>3. CASE Publish(t)
  <2>1. IsABag(tasks') /\ BagToSet(tasks') \subseteq TaskType
    BY <1>1, <1>3, <1>k DEF Publish
  <2>2. db' \in [Ids -> Entry]
    BY <1>0, <1>3 DEF Publish
  <2>3. QED
    BY <1>3, <2>1, <2>2 DEF Publish, TypeOK
<1>4. CASE StartTask(t)
  <2>1. IsABag(tasks') /\ BagToSet(tasks') \subseteq TaskType
    BY <1>1, <1>4, <1>k DEF StartTask
  <2>2. NewRun \in RunType
    BY DEF NewRun, NoRun, RunType, Outcomes
  <2>3. run' \in [Ids -> RunType]
    BY <1>0, <1>4, <2>2 DEF StartTask
  <2>4. met' \in [Ids -> BOOLEAN]
    <3>1. (Active(t.id) /\ run[t.id].stop) \in BOOLEAN
      BY Zenon
    <3>2. met \in [Ids -> BOOLEAN]
      BY DEF TypeOK
    <3> DEFINE found == Active(t.id) /\ run[t.id].stop
    <3>3. met' = [met EXCEPT ![t.id] = found]
      BY <1>4 DEF StartTask
    <3> HIDE DEF found
    <3>4. QED
      BY <3>1, <3>2, <3>3 DEF found
  <2>5. QED
    BY <1>4, <2>1, <2>3, <2>4 DEF StartTask, TypeOK
<1>5. CASE StartFails(t)
  <2>1. CASE Known(t.id)
    <3>1. entry' = [entry EXCEPT ![t.id] = [entry[t.id] EXCEPT !.status = "Error"]]
      BY <1>5, <2>1 DEF StartFails
    <3>2. [entry[t.id] EXCEPT !.status = "Error"] \in Entry
      BY <1>0, <2>1, EntryTyped DEF Known, Statuses
    <3>3. entry' \in [Ids -> Entry] /\ entry'[t.id] \in Entry
      BY <1>0, <3>1, <3>2
    <3>4. Becomes(t, [Task("commit", t.id) EXCEPT !.snap = entry'[t.id]])
      BY <1>5, <2>1 DEF StartFails
    <3>5. IsABag(tasks') /\ BagToSet(tasks') \subseteq TaskType
      BY <1>1, <1>c, <3>3, <3>4
    <3>6. QED
      BY <1>5, <3>3, <3>5 DEF StartFails, TypeOK
  <2>2. CASE ~Known(t.id)
    BY <1>2, <1>5, <2>2 DEF StartFails, TypeOK
  <2>3. QED
    BY <2>1, <2>2
<1>6. CASE Watch(t)
  <2>1. Woken(t.id) \in TaskType
    <3>1. "woken" \in Kinds /\ run[t.id].out \in Outcomes
      BY <1>0 DEF Kinds, RunType
    <3>2. QED
      BY <1>0, <3>1, TaskTyped DEF Woken
  <2>2. IsABag(tasks') /\ BagToSet(tasks') \subseteq TaskType
    BY <1>1, <1>6, <1>k, <2>1 DEF Watch
  <2>3. QED
    BY <1>6, <2>2 DEF Watch, TypeOK
<1>7. CASE WatchEnds(t)
  <2>1. [t EXCEPT !.kind = "report"] \in TaskType
    BY <1>0 DEF TaskType, Kinds
  <2>2. IsABag(tasks') /\ BagToSet(tasks') \subseteq TaskType
    BY <1>1, <1>2, <1>7, <2>1 DEF WatchEnds
  <2>3. QED
    BY <1>7, <2>2 DEF WatchEnds, TypeOK
<1>8. CASE Report(t)
  <2>1. CASE Known(t.id)
    <3>1. entry' = [entry EXCEPT ![t.id] = Reported(entry[t.id], t.out)]
      BY <1>8, <2>1 DEF Report
    <3>2. Reported(entry[t.id], t.out) \in Entry
      BY <1>0, <2>1, ReportedTyped DEF Known
    <3>3. entry' \in [Ids -> Entry] /\ entry'[t.id] \in Entry
      BY <1>0, <3>1, <3>2
    <3>4. Becomes(t, [Task("commit", t.id) EXCEPT !.snap = entry'[t.id],
                                                  !.retry = Retried(entry[t.id], t.out)])
      BY <1>8, <2>1 DEF Report
    <3>5. Retried(entry[t.id], t.out) \in BOOLEAN
      BY Zenon DEF Retried
    <3>6. [Task("commit", t.id) EXCEPT !.snap = entry'[t.id],
                                       !.retry = Retried(entry[t.id], t.out)] \in TaskType
      BY <1>c, <3>3, <3>5
    <3>7. IsABag(tasks') /\ BagToSet(tasks') \subseteq TaskType
      BY <1>1, <3>4, <3>6
    <3>8. QED
      BY <1>8, <3>3, <3>7 DEF Report, TypeOK
  <2>2. CASE ~Known(t.id)
    BY <1>2, <1>8, <2>2 DEF Report, TypeOK
  <2>3. QED
    BY <2>1, <2>2
<1>9. CASE Commit(t)
  <2>1. IsABag(tasks') /\ BagToSet(tasks') \subseteq TaskType
    BY <1>1, <1>2, <1>9, <1>k DEF Commit
  <2>2. db' \in [Ids -> Entry]
    BY <1>0, <1>9 DEF Commit
  <2>3. QED
    BY <1>9, <2>1, <2>2 DEF Commit, TypeOK
<1>10. CASE Delay(t)
  BY <1>0, <1>2, <1>10 DEF Delay, TypeOK
<1>11. QED
  BY <1>3, <1>4, <1>5, <1>6, <1>7, <1>8, <1>9, <1>10 DEF TaskStep

\* The end of a run, and the watchers it wakes.
LEMMA RunStepTyped ==
  ASSUME TypeOK, NEW id \in Ids, RunEnds(id) \/ RunDone(id) \/ BackoffElapses(id)
  PROVE  TypeOK'
<1>0. /\ run \in [Ids -> RunType] /\ run[id] \in RunType /\ IsABag(tasks)
      /\ BagToSet(tasks) \subseteq TaskType
  BY DEF TypeOK
<1>1. CASE RunEnds(id)
  <2>1. PICK out \in Outcomes :
          run' = [run EXCEPT ![id] = [@ EXCEPT !.state = "ended", !.out = out]]
    BY <1>1 DEF RunEnds
  <2>2. [run[id] EXCEPT !.state = "ended", !.out = out] \in RunType
    BY <1>0 DEF RunType
  <2>3. run' \in [Ids -> RunType]
    BY <1>0, <2>1, <2>2
  <2>4. QED
    BY <1>1, <2>3 DEF RunEnds, TypeOK
<1>2. CASE RunDone(id)
  <2>1. [run[id] EXCEPT !.state = "done"] \in RunType
    BY <1>0 DEF RunType
  <2>2. run' \in [Ids -> RunType]
    BY <1>0, <1>2, <2>1 DEF RunDone
  <2>3. Woken(id) \in TaskType
    <3>1. "woken" \in Kinds /\ run[id].out \in Outcomes
      BY <1>0 DEF Kinds, RunType
    <3>2. QED
      BY <3>1, TaskTyped DEF Woken
  <2> DEFINE waiting == [t \in BagToSet(tasks) \cap {Task("wait", id)} |-> tasks[t]]
             woken == [u \in {Woken(id) : t \in DOMAIN waiting} |-> tasks[Task("wait", id)]]
  <2>4. tasks' = (tasks (-) waiting) (+) woken
    BY <1>2 DEF RunDone
  <2>5. DOMAIN waiting = BagToSet(tasks) \cap {Task("wait", id)}
    OBVIOUS
  <2>6. BagToSet(tasks') \subseteq TaskType
    <3>1. DOMAIN (tasks (-) waiting) \subseteq BagToSet(tasks)
      BY DEF (-), BagToSet
    <3>2. DOMAIN woken \subseteq {Woken(id)}
      OBVIOUS
    <3>3. DOMAIN tasks' = DOMAIN (tasks (-) waiting) \cup DOMAIN woken
      BY <2>4 DEF (+)
    <3>4. QED
      BY <1>0, <2>3, <3>1, <3>2, <3>3 DEF BagToSet
  <2>7. IsABag(tasks')
    <3>1. IsABag(tasks (-) waiting)
      BY <1>0, <2>5 DEF IsABag, (-), BagToSet
    <3>2. IsABag(woken)
      <4>1. DOMAIN woken # {} => tasks[Task("wait", id)] \in Nat /\ tasks[Task("wait", id)] > 0
        BY <1>0, <2>5 DEF IsABag, BagToSet
      <4>2. QED
        BY <4>1, ConstantBag
    <3> HIDE DEF waiting, woken
    <3>3. QED
      BY <2>4, <3>1, <3>2, SumIsABag
  <2>8. QED
    BY <1>2, <2>2, <2>6, <2>7 DEF RunDone, TypeOK
<1>3. CASE BackoffElapses(id)
  BY <1>3 DEF BackoffElapses, TypeOK
<1>4. QED
  BY <1>1, <1>2, <1>3

\* A call that begins: pause, redownload and remove only look at the entry,
\* resume and clear_finished change it at once.
LEMMA CallBeginsTyped ==
  ASSUME TypeOK, NEW c \in Callers, CallBegins(c)
  PROVE  TypeOK'
<1>0. /\ entry \in [Ids -> Entry] /\ call \in [Callers -> CallType] /\ Gone \in Entry
      /\ calls \in 0 .. MaxCalls /\ MaxCalls \in Nat
  BY EntryTyped, LifecycleAssumption DEF TypeOK
<1>1. ASSUME NEW op, NEW ids \in SUBSET Ids, NEW snap \in Entry,
             NEW pc \in {"stop", "pausing", "requeue", "commit", "delete"},
             Begins(c, op, ids, pc, snap)
      PROVE  call' \in [Callers -> CallType] /\ calls' \in 0 .. MaxCalls
  <2>1. [op |-> op, ids |-> ids, pc |-> pc, snap |-> snap] \in CallType
    BY <1>1 DEF Begins, CallType
  <2>2. QED
    BY <1>0, <1>1, <2>1 DEF Begins
<1>2. CASE PauseCall(c)
  <2>1. call' \in [Callers -> CallType] /\ calls' \in 0 .. MaxCalls
    BY <1>0, <1>1, <1>2 DEF PauseCall
  <2>2. QED
    BY <1>2, <2>1 DEF PauseCall, TypeOK
<1>3. CASE ResumeCall(c)
  <2> DEFINE Resumed(i) == IF entry[i].status \in {"Paused", "Error", "Queued"}
                           THEN [status |-> "Queued",
                                 retries |-> IF entry[i].status = "Error" THEN 0 ELSE entry[i].retries]
                           ELSE entry[i]
  <2>1. PICK id \in Ids : /\ Known(id)
                         /\ Begins(c, "resume", {id}, "commit", Resumed(id))
                         /\ entry' = [entry EXCEPT ![id] = Resumed(id)]
    BY <1>3 DEF ResumeCall
  <2>2. Resumed(id) \in Entry
    <3>1. entry[id].retries \in 0 .. AutoRetry /\ 0 \in 0 .. AutoRetry
      BY <1>0, <2>1, EntryTyped, LifecycleAssumption DEF Known
    <3>2. QED
      BY <1>0, <2>1, <3>1 DEF Entry, Statuses
  <2> HIDE DEF Resumed
  <2>3. call' \in [Callers -> CallType] /\ calls' \in 0 .. MaxCalls
    BY <1>1, <2>1, <2>2
  <2>4. entry' \in [Ids -> Entry]
    BY <1>0, <2>1, <2>2
  <2>5. QED
    BY <1>3, <2>3, <2>4 DEF ResumeCall, TypeOK
<1>4. CASE RedownloadCall(c)
  <2>1. call' \in [Callers -> CallType] /\ calls' \in 0 .. MaxCalls
    BY <1>0, <1>1, <1>4 DEF RedownloadCall
  <2>2. QED
    BY <1>4, <2>1 DEF RedownloadCall, TypeOK
<1>5. CASE RemoveCall(c)
  <2>1. call' \in [Callers -> CallType] /\ calls' \in 0 .. MaxCalls
    BY <1>0, <1>1, <1>5 DEF RemoveCall
  <2>2. QED
    BY <1>5, <2>1 DEF RemoveCall, TypeOK
<1>6. CASE ClearFinishedCall(c)
  <2>1. PICK finished \in SUBSET Ids :
          /\ Begins(c, "clear", finished, "delete", Gone)
          /\ entry' = [id \in Ids |-> IF id \in finished THEN Gone ELSE entry[id]]
    BY <1>6 DEF ClearFinishedCall
  <2>2. call' \in [Callers -> CallType] /\ calls' \in 0 .. MaxCalls
    BY <1>0, <1>1, <2>1
  <2>3. entry' \in [Ids -> Entry]
    BY <1>0, <2>1
  <2>4. QED
    BY <1>6, <2>2, <2>3 DEF ClearFinishedCall, TypeOK
<1>7. QED
  BY <1>2, <1>3, <1>4, <1>5, <1>6 DEF CallBegins

\* The later steps of a call.
LEMMA CallStepTyped ==
  ASSUME TypeOK, NEW c \in Callers, CallStep(c)
  PROVE  TypeOK'
<1>0. /\ entry \in [Ids -> Entry] /\ db \in [Ids -> Entry] /\ run \in [Ids -> RunType]
      /\ retryAt \in [Ids -> {"none", "waiting", "due"}]
      /\ call \in [Callers -> CallType] /\ call[c] \in CallType
      /\ call[c].ids \subseteq Ids /\ call[c].snap \in Entry
      /\ Gone \in Entry /\ Fresh \in Entry /\ NoCall \in CallType
  BY EntryTyped DEF TypeOK, CallType, NoCall
<1>1. ASSUME NEW pc \in {"pausing", "forget", "retryAt", "delete"}
      PROVE  [call[c] EXCEPT !.pc = pc] \in CallType
  BY <1>0 DEF CallType
<1>2. ASSUME NEW id \in Ids, NEW e, Known(id) => e \in Entry, Updates(c, id, e)
      PROVE  entry' \in [Ids -> Entry] /\ call' \in [Callers -> CallType]
  <2>1. CASE Known(id)
    <3>1. call' = [call EXCEPT ![c] = [call[c] EXCEPT !.pc = "commit", !.snap = e]]
      BY <1>0, <1>2, <2>1 DEF Updates
    <3>2. [call[c] EXCEPT !.pc = "commit", !.snap = e] \in CallType
      BY <1>0, <1>2, <2>1 DEF CallType
    <3>3. entry' = [entry EXCEPT ![id] = e]
      BY <1>2, <2>1 DEF Updates
    <3>4. QED
      BY <1>0, <1>2, <2>1, <3>1, <3>2, <3>3
  <2>2. CASE ~Known(id)
    BY <1>0, <1>2, <2>2 DEF Updates
  <2>3. QED
    BY <2>1, <2>2
<1>3. CASE StopRun(c)
  <2>1. call' \in [Callers -> CallType]
    <3>1. call' = [call EXCEPT ![c] = [call[c] EXCEPT !.pc = IF call[c].op = "pause" THEN "pausing" ELSE "forget"]]
      BY <1>0, <1>3 DEF StopRun
    <3>2. QED
      BY <1>0, <1>1, <3>1
  <2>2. run' \in [Ids -> RunType]
    <3>1. \A id \in Ids : (run[id].stop \/ (id \in call[c].ids /\ Active(id))) \in BOOLEAN
      BY Zenon
    <3>2. \A id \in Ids, b \in BOOLEAN : [run[id] EXCEPT !.stop = b] \in RunType
      BY <1>0 DEF RunType
    <3>3. QED
      BY <1>3, <3>1, <3>2 DEF StopRun
  <2>3. QED
    BY <1>3, <2>1, <2>2 DEF StopRun, TypeOK
<1>4. CASE Pausing(c)
  <2>1. PICK id \in Ids : Updates(c, id, [entry[id] EXCEPT !.status = "Paused"])
    BY <1>0, <1>4 DEF Pausing
  <2>2. Known(id) => [entry[id] EXCEPT !.status = "Paused"] \in Entry
    BY <1>0, EntryTyped DEF Known, Statuses
  <2>3. QED
    BY <1>2, <1>4, <2>1, <2>2 DEF Pausing, TypeOK
<1>5. CASE Requeue(c)
  <2>1. PICK id \in Ids : Updates(c, id, Fresh)
    BY <1>0, <1>5 DEF Requeue
  <2>2. QED
    BY <1>0, <1>2, <1>5, <2>1 DEF Requeue, TypeOK
<1>6. CASE CallCommits(c)
  <2>1. call' \in [Callers -> CallType]
    BY <1>0, <1>1, <1>6 DEF CallCommits
  <2>2. db' \in [Ids -> Entry]
    BY <1>0, <1>6 DEF CallCommits
  <2>3. QED
    BY <1>6, <2>1, <2>2 DEF CallCommits, TypeOK
<1>7. CASE ClearRetryAt(c)
  BY <1>0, <1>7 DEF ClearRetryAt, TypeOK
<1>8. CASE Forget(c)
  <2>1. call' \in [Callers -> CallType]
    <3>1. call' = [call EXCEPT ![c] = [call[c] EXCEPT !.pc = "delete"]]
      BY <1>0, <1>8 DEF Forget
    <3>2. QED
      BY <1>0, <1>1, <3>1
  <2>2. entry' \in [Ids -> Entry] /\ retryAt' \in [Ids -> {"none", "waiting", "due"}]
    BY <1>0, <1>8 DEF Forget
  <2>3. QED
    BY <1>8, <2>1, <2>2 DEF Forget, TypeOK
<1>9. CASE DeleteRows(c)
  BY <1>0, <1>9 DEF DeleteRows, TypeOK
<1>10. QED
  BY <1>3, <1>4, <1>5, <1>6, <1>7, <1>8, <1>9 DEF CallStep

\* At the start every added download has its commit under way.
LEMMA InitTyped == Init => TypeOK
<1> SUFFICES ASSUME Init PROVE TypeOK
  OBVIOUS
<1> DEFINE S == {[Task("commit", id) EXCEPT !.snap = Fresh] : id \in Ids}
<1>1. S \subseteq TaskType
  <2>1. "commit" \in Kinds /\ Fresh \in Entry
    BY EntryTyped DEF Kinds
  <2>2. ASSUME NEW id \in Ids PROVE [Task("commit", id) EXCEPT !.snap = Fresh] \in TaskType
    BY <2>1, TaskTyped
  <2>3. QED
    BY <2>2
<1>2. tasks = SetToBag(S)
  BY DEF Init
<1> HIDE DEF S
<1>3. IsABag(tasks) /\ BagToSet(tasks) \subseteq TaskType
  BY <1>1, <1>2 DEF IsABag, BagToSet, SetToBag
<1>4. NoRun \in RunType /\ NoCall \in CallType /\ Gone \in Entry /\ Fresh \in Entry
  BY EntryTyped DEF NoRun, RunType, Outcomes, NoCall, CallType
<1>5. /\ entry \in [Ids -> Entry] /\ db \in [Ids -> Entry] /\ run \in [Ids -> RunType]
      /\ call \in [Callers -> CallType] /\ retryAt \in [Ids -> {"none", "waiting", "due"}]
  BY <1>4 DEF Init
<1>6. calls \in 0 .. MaxCalls /\ exits \in 0 .. MaxExits
  BY LifecycleAssumption DEF Init
<1>7. closing \in BOOLEAN /\ met \in [Ids -> BOOLEAN]
  BY Zenon DEF Init
<1>8. QED
  BY <1>3, <1>5, <1>6, <1>7, Zenon DEF TypeOK

\* The end of the application and its next start.
LEMMA RestartTyped == TypeOK /\ (Shutdown \/ Restart) => TypeOK'
<1>1. ASSUME TypeOK, Shutdown PROVE TypeOK'
  <2>1. \A id \in Ids : (run[id].stop \/ (id \in Running /\ Active(id))) \in BOOLEAN
    BY Zenon
  <2>2. \A id \in Ids, b \in BOOLEAN : [run[id] EXCEPT !.stop = b] \in RunType
    BY <1>1 DEF TypeOK, RunType
  <2>3. run' \in [Ids -> RunType]
    BY <1>1, <2>1, <2>2 DEF Shutdown
  <2>4. QED
    BY <1>1, <2>3 DEF Shutdown, TypeOK
<1>2. ASSUME TypeOK, Restart PROVE TypeOK'
  <2>1. \A id \in Ids : Recovered(db[id]) \in Entry
    BY <1>2, RecoveredTyped DEF TypeOK
  <2>2. entry' \in [Ids -> Entry] /\ db' \in [Ids -> Entry]
    BY <1>2, <2>1 DEF Restart
  <2>3. NoRun \in RunType /\ NoCall \in CallType
    BY EntryTyped DEF NoRun, RunType, Outcomes, NoCall, CallType
  <2>4. /\ run' \in [Ids -> RunType] /\ call' \in [Callers -> CallType]
        /\ retryAt' \in [Ids -> {"none", "waiting", "due"}]
    BY <1>2, <2>3 DEF Restart
  <2>5. IsABag(tasks') /\ BagToSet(tasks') \subseteq TaskType
    BY <1>2 DEF Restart, IsABag, BagToSet, EmptyBag, SetToBag
  <2>6. calls' \in 0 .. MaxCalls /\ exits' \in 0 .. MaxExits
    BY <1>2, LifecycleAssumption DEF Restart, TypeOK
  <2>7. closing' \in BOOLEAN /\ met' \in [Ids -> BOOLEAN]
    BY <1>2, Zenon DEF Restart
  <2>8. QED
    BY <2>2, <2>4, <2>5, <2>6, <2>7, Zenon DEF TypeOK
<1>3. QED
  BY <1>1, <1>2

LEMMA StepTyped == TypeOK /\ [Next]_vars => TypeOK'
<1> SUFFICES ASSUME TypeOK, [Next]_vars PROVE TypeOK'
  OBVIOUS
<1>1. CASE UNCHANGED vars
  BY <1>1 DEF vars, TypeOK
<1>2. CASE Next
  BY <1>2, PumpTyped, TaskStepTyped, RunStepTyped, CallBeginsTyped, CallStepTyped, RestartTyped DEF Next
<1>3. QED
  BY <1>1, <1>2

\* Every variable keeps its type; in particular no entry is retried more often
\* than Settings::auto_retry says (kuhttp_finished).
THEOREM LifecycleTypeOK == Spec => []TypeOK
BY InitTyped, StepTyped, PTL DEF Spec

-----------------------------------------------------------------------------
(* Only the pump makes an entry run *)

\* A call that updates an entry does not start it.
LEMMA UpdatesStartNothing ==
  ASSUME TypeOK, NEW c, NEW id \in Ids, NEW e, Known(id) => e.status # "Downloading",
         Updates(c, id, e)
  PROVE  Running' \subseteq Running
BY DEF Updates, Running, TypeOK

\* Neither do the other steps: a report leaves an entry running at most, a
\* restart finds none running.
LEMMA OnlyPumpStarts == TypeOK /\ [Next]_vars /\ ~Pump => Running' \subseteq Running
<1> SUFFICES ASSUME TypeOK, [Next]_vars, ~Pump PROVE Running' \subseteq Running
  OBVIOUS
<1>0. entry \in [Ids -> Entry] /\ db \in [Ids -> Entry]
  BY DEF TypeOK
<1>1. CASE UNCHANGED entry
  BY <1>1 DEF Running
<1>2. ASSUME NEW t \in BagToSet(tasks), TaskStep(t) PROVE Running' \subseteq Running
  <2>1. t.id \in Ids /\ t.out \in Outcomes /\ entry[t.id] \in Entry
    BY DEF TypeOK, TaskType
  <2>2. CASE StartFails(t) /\ Known(t.id)
    <3>1. entry' = [entry EXCEPT ![t.id] = [entry[t.id] EXCEPT !.status = "Error"]]
      BY <2>2 DEF StartFails
    <3>2. [entry[t.id] EXCEPT !.status = "Error"].status = "Error"
      BY <2>1, <2>2, EntryTyped DEF Known, Statuses
    <3>3. QED
      BY <1>0, <2>1, <3>1, <3>2 DEF Running
  <2>3. CASE Report(t) /\ Known(t.id)
    <3>1. entry' = [entry EXCEPT ![t.id] = Reported(entry[t.id], t.out)]
      BY <2>3 DEF Report
    <3>2. Reported(entry[t.id], t.out).status = "Downloading" => entry[t.id].status = "Downloading"
      BY <2>1, <2>3, ReportedTyped DEF Known
    <3>3. QED
      BY <1>0, <2>1, <3>1, <3>2 DEF Running
  <2>4. CASE UNCHANGED entry
    BY <2>4, <1>1
  <2>5. QED
    BY <1>2, <2>2, <2>3, <2>4
       DEF TaskStep, Publish, StartTask, StartFails, Watch, WatchEnds, Report, Commit, Delay
<1>3. ASSUME NEW c \in Callers, CallBegins(c) PROVE Running' \subseteq Running
  <2>1. CASE ResumeCall(c)
    <3> DEFINE Resumed(i) == IF entry[i].status \in {"Paused", "Error", "Queued"}
                             THEN [status |-> "Queued",
                                   retries |-> IF entry[i].status = "Error" THEN 0 ELSE entry[i].retries]
                             ELSE entry[i]
    <3>1. PICK id \in Ids : entry' = [entry EXCEPT ![id] = Resumed(id)]
      BY <2>1 DEF ResumeCall
    <3>2. Resumed(id).status = "Downloading" => entry[id].status = "Downloading"
      OBVIOUS
    <3> HIDE DEF Resumed
    <3>3. QED
      BY <1>0, <3>1, <3>2 DEF Running
  <2>2. CASE ClearFinishedCall(c)
    BY <1>0, <2>2 DEF ClearFinishedCall, Running, Gone
  <2>3. CASE UNCHANGED entry
    BY <2>3, <1>1
  <2>4. QED
    BY <1>3, <2>1, <2>2, <2>3 DEF CallBegins, PauseCall, RedownloadCall, RemoveCall
<1>4. ASSUME NEW c \in Callers, CallStep(c) PROVE Running' \subseteq Running
  <2>0. call[c].ids \subseteq Ids
    BY DEF TypeOK, CallType
  <2>1. CASE Pausing(c)
    <3>1. PICK id \in Ids : Updates(c, id, [entry[id] EXCEPT !.status = "Paused"])
      BY <2>0, <2>1 DEF Pausing
    <3>2. Known(id) => [entry[id] EXCEPT !.status = "Paused"].status # "Downloading"
      BY <1>0, EntryTyped DEF Known, Statuses
    <3>3. QED
      BY <3>1, <3>2, UpdatesStartNothing
  <2>2. CASE Requeue(c)
    <3>1. PICK id \in Ids : Updates(c, id, Fresh)
      BY <2>0, <2>2 DEF Requeue
    <3>2. Fresh.status # "Downloading"
      BY DEF Fresh
    <3>3. QED
      BY <3>1, <3>2, UpdatesStartNothing
  <2>3. CASE Forget(c)
    BY <1>0, <2>3 DEF Forget, Running, Gone
  <2>4. CASE UNCHANGED entry
    BY <2>4, <1>1
  <2>5. QED
    BY <1>4, <2>1, <2>2, <2>3, <2>4 DEF CallStep, StopRun, CallCommits, ClearRetryAt, DeleteRows
<1>5. CASE Restart
  <2>1. \A id \in Ids : entry'[id].status # "Downloading"
    BY <1>0, <1>5, RecoveredTyped DEF Restart
  <2>2. QED
    BY <2>1 DEF Running
<1>6. QED
  BY <1>1, <1>2, <1>3, <1>4, <1>5 DEF Next, vars, RunEnds, RunDone, BackoffElapses, Shutdown

\* What the pump chooses fits into the free slots.
LEMMA PumpRespectsSlots == TypeOK /\ SlotsRespected /\ Pump => SlotsRespected'
<1> SUFFICES ASSUME TypeOK, SlotsRespected, Pump PROVE SlotsRespected'
  OBVIOUS
<1>1. PICK chosen \in SUBSET Ready :
        /\ Cardinality(chosen) <= Slots
        /\ entry' = [id \in Ids |-> IF id \in chosen THEN [entry[id] EXCEPT !.status = "Downloading"]
                                   ELSE entry[id]]
  BY DEF Pump
<1>2. Running' \subseteq Running \cup chosen
  BY <1>1 DEF Running
<1>3. IsFiniteSet(Running) /\ IsFiniteSet(chosen)
  <2>1. Running \in SUBSET Ids /\ chosen \in SUBSET Ids
    BY DEF Running, Ready
  <2>2. QED
    BY <2>1, FS_Subset, LifecycleAssumption
<1>4. /\ Cardinality(Running) \in Nat /\ Cardinality(chosen) \in Nat
      /\ Cardinality(Running \cap chosen) \in Nat
      /\ IsFiniteSet(Running \cup chosen) /\ Cardinality(Running \cup chosen) \in Nat
      /\ Cardinality(Running \cup chosen) =
           Cardinality(Running) + Cardinality(chosen) - Cardinality(Running \cap chosen)
  BY <1>3, FS_Union, FS_Intersection, FS_CardinalityType
<1>5. Cardinality(Running) + Cardinality(chosen) <= MaxConcurrent
  BY <1>1, <1>4, LifecycleAssumption DEF Slots, SlotsRespected
<1>6. IsFiniteSet(Running') /\ Cardinality(Running') <= Cardinality(Running \cup chosen)
  BY <1>2, <1>4, FS_Subset
<1>7. Cardinality(Running') \in Nat
  BY <1>6, FS_CardinalityType
<1>8. QED
  BY <1>4, <1>5, <1>6, <1>7, LifecycleAssumption DEF SlotsRespected

\* Never more downloads run than Settings::max_concurrent allows, for any
\* number of downloads, callers, retries and restarts (pump, core.rs).
THEOREM LifecycleSlots == Spec => []SlotsRespected
<1>1. Init => SlotsRespected
  <2>1. Init => Running = {}
    BY DEF Init, Running, Fresh
  <2>2. QED
    BY <2>1, FS_EmptySet, LifecycleAssumption DEF SlotsRespected
<1>2. TypeOK /\ SlotsRespected /\ [Next]_vars => SlotsRespected'
  <2> SUFFICES ASSUME TypeOK, SlotsRespected, [Next]_vars, ~Pump PROVE SlotsRespected'
    BY PumpRespectsSlots
  <2>1. Running' \subseteq Running
    BY OnlyPumpStarts
  <2>2. IsFiniteSet(Running)
    <3>1. Running \in SUBSET Ids
      BY DEF Running
    <3>2. QED
      BY <3>1, FS_Subset, LifecycleAssumption
  <2>3. /\ Cardinality(Running') \in Nat /\ Cardinality(Running) \in Nat
        /\ Cardinality(Running') <= Cardinality(Running)
    BY <2>1, <2>2, FS_Subset, FS_CardinalityType
  <2>4. QED
    BY <2>3, LifecycleAssumption DEF SlotsRespected
<1>3. QED
  BY <1>1, <1>2, LifecycleTypeOK, PTL DEF Spec

-----------------------------------------------------------------------------
(* A run that is not over is watched *)

\* The watchers of a run, before and while they wait for it.
Watchers(id) == Tasks("watch", id) \cup Tasks("wait", id)

\* A watcher that is still there after a step.
LEMMA WatcherStays ==
  ASSUME NEW id, Watchers(id) # {},
         \A w \in BagToSet(tasks) : w \in Watchers(id) => w \in BagToSet(tasks')
  PROVE  Watchers(id)' # {}
BY DEF Watchers, Tasks

\* A task of another kind goes on or ends: the watchers stay.
LEMMA OthersKeepWatchers ==
  ASSUME TypeOK, NEW t \in BagToSet(tasks), t.kind \notin {"watch", "wait"},
         (\E u : Becomes(t, u)) \/ Ends(t), NEW id, Watchers(id) # {}
  PROVE  Watchers(id)' # {}
<1>1. BagToSet(tasks) \ {t} \subseteq BagToSet(tasks')
  BY BecomesKeeps, EndsKeeps DEF TypeOK
<1>2. \A w \in Watchers(id) : w # t
  BY DEF Watchers, Tasks
<1>3. QED
  BY <1>1, <1>2, WatcherStays

\* start_kuhttp makes a run and its watcher in one; the watcher of a run that
\* goes on waits for it.
LEMMA TaskStepWatched ==
  ASSUME TypeOK, EveryRunIsWatched, NEW t \in BagToSet(tasks), TaskStep(t)
  PROVE  EveryRunIsWatched'
<1> SUFFICES ASSUME NEW id \in Ids, Active(id)' PROVE Watchers(id)' # {}
  BY DEF EveryRunIsWatched, Watchers
<1>0. /\ IsABag(tasks) /\ t.id \in Ids /\ run \in [Ids -> RunType]
      /\ \A k \in Kinds, i \in Ids : Task(k, i).kind = k /\ Task(k, i).id = i
      /\ "watch" \in Kinds /\ "wait" \in Kinds
  <2>1. IsABag(tasks) /\ t.id \in Ids /\ run \in [Ids -> RunType]
    BY DEF TypeOK, TaskType
  <2>2. \A k \in Kinds, i \in Ids : Task(k, i).kind = k /\ Task(k, i).id = i
    BY DEF Task
  <2>3. "watch" \in Kinds /\ "wait" \in Kinds
    BY DEF Kinds
  <2>4. QED
    BY <2>1, <2>2, <2>3
<1>1. Active(id) => Watchers(id) # {}
  BY DEF EveryRunIsWatched, Watchers
<1>2. CASE StartTask(t)
  <2>1. Task("watch", t.id) \in BagToSet(tasks') /\ Becomes(t, Task("watch", t.id))
    BY <1>0, <1>2, BecomesKeeps DEF StartTask
  <2>2. CASE id = t.id
    BY <1>0, <2>1, <2>2 DEF Watchers, Tasks
  <2>3. CASE id # t.id
    <3>1. Active(id)
      BY <1>0, <1>2, <2>3 DEF StartTask, Active
    <3>2. QED
      BY <1>1, <1>2, <2>1, <3>1, OthersKeepWatchers DEF StartTask
  <2>4. QED
    BY <2>2, <2>3
<1>3. CASE Watch(t)
  <2>1. Active(id)
    BY <1>3 DEF Watch, Active
  <2>2. CASE id = t.id
    <3>1. Becomes(t, Task("wait", id))
      BY <1>3, <2>1, <2>2 DEF Watch
    <3>2. Task("wait", id) \in BagToSet(tasks')
      BY <1>0, <3>1, BecomesKeeps
    <3>3. QED
      BY <1>0, <3>2 DEF Watchers, Tasks
  <2>3. CASE id # t.id
    <3>1. PICK u : Becomes(t, u)
      BY <1>3 DEF Watch
    <3>2. BagToSet(tasks) \ {t} \subseteq BagToSet(tasks')
      BY <1>0, <3>1, BecomesKeeps
    <3>3. t \notin Watchers(id)
      BY <2>3 DEF Watchers, Tasks
    <3>4. QED
      BY <1>1, <2>1, <3>2, <3>3, WatcherStays
  <2>4. QED
    BY <2>2, <2>3
<1>4. CASE Publish(t) \/ StartFails(t) \/ WatchEnds(t) \/ Report(t) \/ Commit(t) \/ Delay(t)
  <2>1. t.kind \notin {"watch", "wait"} /\ UNCHANGED run
    BY <1>4 DEF Publish, StartFails, WatchEnds, Report, Commit, Delay
  <2>2. (\E u : Becomes(t, u)) \/ Ends(t)
    BY <1>4 DEF Publish, StartFails, WatchEnds, Report, Commit, Delay
  <2>3. Active(id)
    BY <2>1 DEF Active
  <2>4. QED
    BY <1>1, <2>1, <2>2, <2>3, OthersKeepWatchers
<1>5. QED
  BY <1>2, <1>3, <1>4 DEF TaskStep

\* done_tx wakes the watchers of this run only.
LEMMA RunDoneWatched ==
  ASSUME TypeOK, EveryRunIsWatched, NEW done \in Ids, RunDone(done)
  PROVE  EveryRunIsWatched'
<1> SUFFICES ASSUME NEW id \in Ids, Active(id)' PROVE Watchers(id)' # {}
  BY DEF EveryRunIsWatched, Watchers
<1>1. id # done /\ Active(id)
  BY DEF RunDone, Active, TypeOK, RunType
<1>2. Watchers(id) # {}
  BY <1>1 DEF EveryRunIsWatched, Watchers
<1> DEFINE waiting == [t \in BagToSet(tasks) \cap {Task("wait", done)} |-> tasks[t]]
           woken == [u \in {Woken(done) : t \in DOMAIN waiting} |-> tasks[Task("wait", done)]]
<1>3. tasks' = (tasks (-) waiting) (+) woken
  BY DEF RunDone
<1>4. \A w \in BagToSet(tasks) : w # Task("wait", done) => w \in DOMAIN (tasks (-) waiting)
  BY DEF BagToSet, (-), TypeOK, IsABag
<1>5. DOMAIN (tasks (-) waiting) \subseteq BagToSet(tasks')
  BY <1>3 DEF BagToSet, (+)
<1>6. Task("wait", done).id = done
  BY DEF Task
<1>7. \A w \in Watchers(id) : w # Task("wait", done)
  BY <1>1, <1>6 DEF Watchers, Tasks
<1>8. QED
  BY <1>2, <1>4, <1>5, <1>7, WatcherStays

\* Whatever else happens, the watchers stay and no run is made.
LEMMA StepWatched == TypeOK /\ EveryRunIsWatched /\ [Next]_vars => EveryRunIsWatched'
<1> SUFFICES ASSUME TypeOK, EveryRunIsWatched, [Next]_vars PROVE EveryRunIsWatched'
  OBVIOUS
<1>0. run \in [Ids -> RunType]
  BY DEF TypeOK
<1>1. ASSUME BagToSet(tasks) \subseteq BagToSet(tasks'), \A id \in Ids : Active(id)' => Active(id)
      PROVE  EveryRunIsWatched'
  BY <1>1 DEF EveryRunIsWatched, Tasks
<1>2. CASE Pump
  <2>1. PICK S : tasks' = tasks (+) SetToBag(S)
    BY <1>2 DEF Pump
  <2>2. BagToSet(tasks) \subseteq BagToSet(tasks')
    BY <2>1, AddsKeeps DEF TypeOK
  <2>3. QED
    BY <1>1, <1>2, <2>2 DEF Pump, Active
<1>3. CASE UNCHANGED <<tasks, run>>
  BY <1>1, <1>3 DEF Active
<1>4. ASSUME NEW id \in Ids, RunEnds(id) PROVE EveryRunIsWatched'
  <2>1. UNCHANGED tasks /\ \A i \in Ids : Active(i)' => Active(i)
    BY <1>0, <1>4 DEF RunEnds, Active
  <2>2. QED
    BY <1>1, <2>1
<1>5. ASSUME NEW c \in Callers, CallStep(c) PROVE EveryRunIsWatched'
  <2>1. CASE StopRun(c)
    <3>1. UNCHANGED tasks /\ \A i \in Ids : run'[i].state = run[i].state
      BY <1>0, <2>1 DEF StopRun, RunType
    <3>2. QED
      BY <1>1, <3>1 DEF Active
  <2>2. CASE UNCHANGED <<tasks, run>>
    BY <1>3, <2>2
  <2>3. QED
    BY <1>5, <2>1, <2>2 DEF CallStep, Pausing, Updates, Requeue, CallCommits, ClearRetryAt, Forget, DeleteRows
<1>6. CASE Shutdown
  <2>1. UNCHANGED tasks /\ \A i \in Ids : run'[i].state = run[i].state
    BY <1>0, <1>6 DEF Shutdown, RunType
  <2>2. QED
    BY <1>1, <2>1 DEF Active
<1>7. CASE Restart
  BY <1>7 DEF Restart, NoRun, EveryRunIsWatched, Active
<1>8. QED
  BY <1>2, <1>3, <1>4, <1>5, <1>6, <1>7, TaskStepWatched, RunDoneWatched
     DEF Next, vars, BackoffElapses, CallBegins, PauseCall, ResumeCall, RedownloadCall, RemoveCall,
         ClearFinishedCall

\* Every run that is not over has a watcher that will report how it ended
\* (start_kuhttp), for any number of downloads and callers.
THEOREM LifecycleWatched == Spec => []EveryRunIsWatched
<1>1. Init => EveryRunIsWatched
  BY DEF Init, EveryRunIsWatched, Active, NoRun
<1>2. QED
  BY <1>1, StepWatched, LifecycleTypeOK, PTL DEF Spec
-----------------------------------------------------------------------------
(* An entry that runs is left behind only where its start met a stopped run *)

\* The tasks that lead from the pump to the watcher, and the reports.
CareKinds == {"publish", "start", "watch", "woken", "report"}
Starts(id) == Tasks("publish", id) \cup Tasks("start", id)

\* A call that will pause or forget the download next.
Held(id) == \E c \in Callers : id \in call[c].ids /\ call[c].pc \in {"pausing", "forget"}

\* A watcher that will find, or has found, that the run was not stopped: its
\* report changes the entry.
Reporting(id) ==
  \/ Tasks("watch", id) # {} /\ run[id].out # "Stopped"
  \/ \E t \in Tasks("woken", id) \cup Tasks("report", id) : t.out # "Stopped"

\* Who will act on the entry next, in each state of its run.
Cared(id) ==
  \/ Starts(id) # {}
  \/ Held(id)
  \/ run[id].state = "going" /\ ~run[id].stop
  \/ run[id].state = "ended" /\ run[id].out # "Stopped"
  \/ run[id].state = "done" /\ Reporting(id)

Minded(id) == entry[id].status = "Downloading" => met[id] \/ Cared(id)

\* A run ends as stopped only if it was told to stop.
Told(id) == run[id].state = "ended" /\ run[id].out = "Stopped" => run[id].stop

PlainWaits == \A t \in BagToSet(tasks) : t.kind = "wait" => t = Task("wait", t.id)

\* A call that stops or pauses is about one download.
CallsSingle == \A c \in Callers : call[c].pc \in {"stop", "pausing"} =>
                                    \A i, j \in call[c].ids : i = j

MetInv == closing \/ (CallsSingle /\ PlainWaits /\ \A id \in Ids : Told(id) /\ Minded(id))

\* What a step leaves alone goes on minding the entry.
LEMMA CaredStays ==
  ASSUME NEW id, Cared(id), run'[id] = run[id], Held(id) => Held(id)',
         \A t \in BagToSet(tasks) : t.id = id /\ t.kind \in CareKinds => t \in BagToSet(tasks')
  PROVE  Cared(id)'
<1>1. \A k \in CareKinds : Tasks(k, id) \subseteq Tasks(k, id)'
  BY DEF Tasks
<1>2. Starts(id) # {} => Starts(id)' # {}
  BY <1>1 DEF Starts, CareKinds
<1>3. Reporting(id) => Reporting(id)'
  BY <1>1 DEF Reporting, CareKinds
<1>4. QED
  BY <1>2, <1>3 DEF Cared

\* The same for an entry that the step does not make run.
LEMMA MindedStays ==
  ASSUME NEW id, Minded(id), entry'[id].status = "Downloading" => entry[id].status = "Downloading",
         met'[id] = met[id], run'[id] = run[id], Held(id) => Held(id)',
         \A t \in BagToSet(tasks) : t.id = id /\ t.kind \in CareKinds => t \in BagToSet(tasks')
  PROVE  Minded(id)'
BY CaredStays DEF Minded

\* Only a watcher that found its run active waits, and nothing else.
LEMMA PlainWaitsStay == TypeOK /\ PlainWaits /\ [Next]_vars => PlainWaits'
<1> SUFFICES ASSUME TypeOK, PlainWaits, [Next]_vars PROVE PlainWaits'
  OBVIOUS
<1>0. IsABag(tasks) /\ \A k, i : Task(k, i).kind = k /\ Task(k, i).id = i
  BY DEF TypeOK, Task
<1>1. ASSUME \A u \in BagToSet(tasks') : u \in BagToSet(tasks) \/ u.kind # "wait" \/ u = Task("wait", u.id)
      PROVE  PlainWaits'
  BY <1>1 DEF PlainWaits
<1>2. CASE UNCHANGED tasks
  BY <1>1, <1>2
<1>3. CASE Pump
  <2> DEFINE S(chosen) == {[Task("publish", i) EXCEPT !.snap = entry'[i]] : i \in chosen}
  <2>1. PICK chosen : tasks' = tasks (+) SetToBag(S(chosen))
    BY <1>3 DEF Pump
  <2>2. \A u \in S(chosen) : u.kind = "publish"
    BY DEF Task
  <2> HIDE DEF S
  <2>3. QED
    BY <1>0, <1>1, <2>1, <2>2, AddsKeeps
<1>4. ASSUME NEW t \in BagToSet(tasks), TaskStep(t) PROVE PlainWaits'
  <2>1. ASSUME NEW u, Becomes(t, u), u.kind # "wait" \/ u = Task("wait", u.id) PROVE PlainWaits'
    BY <1>0, <1>1, <2>1, BecomesKeeps
  <2>2. CASE Ends(t)
    BY <1>0, <1>1, <2>2, EndsKeeps
  <2>3. CASE Watch(t)
    <3>1. Woken(t.id).kind = "woken"
      BY DEF Woken, Task
    <3>2. QED
      BY <1>0, <2>1, <2>3, <3>1 DEF Watch
  <2>4. CASE WatchEnds(t)
    <3>1. t \in TaskType
      BY DEF TypeOK
    <3>2. [t EXCEPT !.kind = "report"].kind = "report"
      BY <3>1 DEF TaskType
    <3>3. QED
      BY <2>1, <2>2, <2>4, <3>2 DEF WatchEnds
  <2>5. CASE StartFails(t) \/ Report(t)
    <3>1. \A e, b : /\ [Task("commit", t.id) EXCEPT !.snap = e].kind = "commit"
                    /\ [Task("commit", t.id) EXCEPT !.snap = e, !.retry = b].kind = "commit"
      BY DEF Task
    <3>2. QED
      BY <2>1, <2>2, <2>5, <3>1 DEF StartFails, Report
  <2>6. CASE Publish(t) \/ StartTask(t) \/ Commit(t) \/ Delay(t)
    BY <1>0, <2>1, <2>2, <2>6 DEF Publish, StartTask, Commit, Delay
  <2>7. QED
    BY <1>4, <2>3, <2>4, <2>5, <2>6 DEF TaskStep
<1>5. ASSUME NEW id \in Ids, RunDone(id) PROVE PlainWaits'
  <2> DEFINE waiting == [t \in BagToSet(tasks) \cap {Task("wait", id)} |-> tasks[t]]
             woken == [u \in {Woken(id) : t \in DOMAIN waiting} |-> tasks[Task("wait", id)]]
  <2>1. tasks' = (tasks (-) waiting) (+) woken
    BY <1>5 DEF RunDone
  <2>2. DOMAIN (tasks (-) waiting) \subseteq BagToSet(tasks)
    BY DEF (-), BagToSet
  <2>3. DOMAIN woken \subseteq {Woken(id)}
    OBVIOUS
  <2>4. Woken(id).kind = "woken"
    BY DEF Woken, Task
  <2>5. DOMAIN tasks' = DOMAIN (tasks (-) waiting) \cup DOMAIN woken
    BY <2>1 DEF (+)
  <2>6. QED
    BY <1>1, <2>2, <2>3, <2>4, <2>5 DEF BagToSet
<1>6. CASE Restart
  BY <1>6 DEF Restart, PlainWaits, BagToSet, EmptyBag, SetToBag
<1>7. QED
  BY <1>2, <1>3, <1>4, <1>5, <1>6
     DEF Next, vars, RunEnds, BackoffElapses, CallBegins, PauseCall, ResumeCall, RedownloadCall,
         RemoveCall, ClearFinishedCall, CallStep, StopRun, Pausing, Requeue, CallCommits,
         ClearRetryAt, Forget, DeleteRows, Shutdown

\* pause and remove begin with one download and keep it.
LEMMA CallsSingleStay == TypeOK /\ CallsSingle /\ [Next]_vars => CallsSingle'
<1> SUFFICES ASSUME TypeOK, CallsSingle, [Next]_vars PROVE CallsSingle'
  OBVIOUS
<1>0. call \in [Callers -> CallType]
  BY DEF TypeOK
<1>1. CASE UNCHANGED call
  BY <1>1 DEF CallsSingle
<1>2. ASSUME NEW c \in Callers, CallBegins(c) PROVE CallsSingle'
  <2>1. ASSUME NEW op, NEW ids, NEW snap, NEW pc, Begins(c, op, ids, pc, snap),
               (\E i : ids = {i}) \/ pc \notin {"stop", "pausing"}
        PROVE  CallsSingle'
    <3> DEFINE new == [op |-> op, ids |-> ids, pc |-> pc, snap |-> snap]
    <3>1. call' = [call EXCEPT ![c] = new]
      BY <2>1 DEF Begins
    <3>2. new.ids = ids /\ new.pc = pc
      OBVIOUS
    <3> HIDE DEF new
    <3>3. QED
      BY <1>0, <2>1, <3>1, <3>2 DEF CallsSingle
  <2>2. CASE PauseCall(c) \/ RemoveCall(c) \/ RedownloadCall(c)
    BY <2>1, <2>2 DEF PauseCall, RemoveCall, RedownloadCall
  <2>3. CASE ResumeCall(c)
    <3>1. PICK i, e : Begins(c, "resume", {i}, "commit", e)
      BY <2>3 DEF ResumeCall
    <3>2. QED
      BY <2>1, <3>1
  <2>4. CASE ClearFinishedCall(c)
    <3>1. PICK finished : Begins(c, "clear", finished, "delete", Gone)
      BY <2>4 DEF ClearFinishedCall
    <3>2. QED
      BY <2>1, <3>1
  <2>5. QED
    BY <1>2, <2>2, <2>3, <2>4 DEF CallBegins
<1>3. ASSUME NEW c \in Callers, CallStep(c) PROVE CallsSingle'
  <2>0. call[c] \in CallType
    BY <1>0
  <2>1. ASSUME \A d \in Callers : d # c => call'[d] = call[d],
               call'[c].pc \in {"stop", "pausing"} => call'[c].ids = call[c].ids /\ call[c].pc = "stop"
        PROVE  CallsSingle'
    BY <2>1 DEF CallsSingle
  <2>2. NoCall.pc = "idle"
    BY DEF NoCall
  <2>3. CASE StopRun(c)
    BY <1>0, <2>0, <2>1, <2>3 DEF StopRun, CallType
  <2>4. CASE Pausing(c) \/ Requeue(c)
    BY <1>0, <2>0, <2>1, <2>2, <2>4 DEF Pausing, Requeue, Updates, CallType
  <2>5. CASE CallCommits(c) \/ ClearRetryAt(c) \/ Forget(c) \/ DeleteRows(c)
    BY <1>0, <2>0, <2>1, <2>2, <2>5 DEF CallCommits, ClearRetryAt, Forget, DeleteRows, CallType
  <2>6. QED
    BY <1>3, <2>3, <2>4, <2>5 DEF CallStep
<1>4. CASE Restart
  BY <1>4 DEF Restart, CallsSingle, NoCall
<1>5. QED
  BY <1>1, <1>2, <1>3, <1>4
     DEF Next, vars, Pump, TaskStep, Publish, StartTask, StartFails, Watch, WatchEnds, Report, Commit,
         Delay, RunEnds, RunDone, BackoffElapses, Shutdown

\* The engine reports "stopped" of a run only if stop_engine or remove told it so.
LEMMA ToldStays ==
  ASSUME TypeOK, NEW id \in Ids, Told(id), [Next]_vars
  PROVE  Told(id)'
<1>0. run \in [Ids -> RunType] /\ run[id] \in RunType
  BY DEF TypeOK
<1>1. CASE run'[id] = run[id]
  BY <1>1 DEF Told
<1>2. ASSUME NEW t \in BagToSet(tasks), StartTask(t) PROVE Told(id)'
  <2>1. run'[id] = run[id] \/ run'[id] = NewRun
    BY <1>0, <1>2 DEF StartTask
  <2>2. QED
    BY <1>1, <2>1 DEF Told, NewRun, NoRun
<1>3. ASSUME NEW i \in Ids, RunEnds(i) PROVE Told(id)'
  BY <1>0, <1>3 DEF RunEnds, Told, RunType
<1>4. ASSUME NEW i \in Ids, RunDone(i) PROVE Told(id)'
  BY <1>0, <1>4 DEF RunDone, Told, RunType
<1>5. ASSUME NEW c \in Callers, StopRun(c) PROVE Told(id)'
  BY <1>0, <1>5 DEF StopRun, Told, RunType
<1>6. CASE Shutdown
  BY <1>0, <1>6 DEF Shutdown, Told, RunType
<1>7. CASE Restart
  BY <1>7 DEF Restart, Told, NoRun
<1>8. CASE UNCHANGED run
  BY <1>1, <1>8
<1>9. ASSUME NEW t \in BagToSet(tasks), TaskStep(t) PROVE Told(id)'
  BY <1>2, <1>8, <1>9 DEF TaskStep, Publish, StartFails, Watch, WatchEnds, Report, Commit, Delay
<1>10. ASSUME NEW c \in Callers, CallBegins(c) \/ CallStep(c) PROVE Told(id)'
  BY <1>5, <1>8, <1>10 DEF CallBegins, PauseCall, ResumeCall, RedownloadCall, RemoveCall,
       ClearFinishedCall, CallStep, Pausing, Requeue, CallCommits, ClearRetryAt, Forget, DeleteRows
<1>11. QED
  BY <1>3, <1>4, <1>6, <1>7, <1>8, <1>9, <1>10 DEF Next, vars, Pump, BackoffElapses

\* pump: what it marks is about to be started.
LEMMA PumpMinds ==
  ASSUME TypeOK, NEW id \in Ids, Minded(id), Pump
  PROVE  Minded(id)'
<1>1. PICK chosen \in SUBSET Ready :
        /\ entry' = [i \in Ids |-> IF i \in chosen THEN [entry[i] EXCEPT !.status = "Downloading"]
                                   ELSE entry[i]]
        /\ tasks' = tasks (+) SetToBag({[Task("publish", i) EXCEPT !.snap = entry'[i]] : i \in chosen})
  BY DEF Pump
<1> DEFINE S == {[Task("publish", i) EXCEPT !.snap = entry'[i]] : i \in chosen}
           u == [Task("publish", id) EXCEPT !.snap = entry'[id]]
<1>2. u.kind = "publish" /\ u.id = id /\ (id \in chosen => u \in S)
  BY DEF Task
<1>3. tasks' = tasks (+) SetToBag(S)
  BY <1>1
<1> HIDE DEF S, u
<1>4. BagToSet(tasks') = BagToSet(tasks) \cup S
  BY <1>3, AddsKeeps DEF TypeOK
<1>5. CASE id \in chosen
  <2>1. u \in Starts(id)'
    BY <1>2, <1>4, <1>5 DEF Starts, Tasks
  <2>2. QED
    BY <2>1 DEF Minded, Cared
<1>6. CASE id \notin chosen
  <2>1. entry'[id] = entry[id]
    BY <1>1, <1>6
  <2>2. QED
    BY <1>4, <2>1, MindedStays DEF Pump, Held
<1>7. QED
  BY <1>5, <1>6

\* A task of another download, or one that minds nothing, leaves it minded.
LEMMA OtherTaskMinds ==
  ASSUME TypeOK, NEW id \in Ids, Minded(id), NEW t \in BagToSet(tasks),
         (\E u : Becomes(t, u)) \/ Ends(t), t.id # id \/ t.kind \notin CareKinds,
         entry'[id].status = "Downloading" => entry[id].status = "Downloading",
         met'[id] = met[id], run'[id] = run[id], UNCHANGED call
  PROVE  Minded(id)'
<1>1. BagToSet(tasks) \ {t} \subseteq BagToSet(tasks')
  BY BecomesKeeps, EndsKeeps DEF TypeOK
<1>2. \A x \in BagToSet(tasks) : x.id = id /\ x.kind \in CareKinds => x \in BagToSet(tasks')
  BY <1>1
<1>3. QED
  BY <1>2, MindedStays DEF Held

\* From publish to the report: each task hands the entry on to the next.
LEMMA TaskStepMinds ==
  ASSUME TypeOK, NEW id \in Ids, Told(id), Minded(id), NEW t \in BagToSet(tasks), TaskStep(t)
  PROVE  Minded(id)'
<1>0. /\ IsABag(tasks) /\ t \in TaskType /\ t.id \in Ids /\ t.out \in Outcomes
      /\ entry \in [Ids -> Entry] /\ run \in [Ids -> RunType] /\ run[id] \in RunType
      /\ entry[t.id] \in Entry /\ met \in [Ids -> BOOLEAN]
  BY DEF TypeOK, TaskType
<1>k. \A k, i : Task(k, i).kind = k /\ Task(k, i).id = i
  BY DEF Task
<1>1. (\E u : Becomes(t, u)) \/ Ends(t)
  BY DEF TaskStep, Publish, StartTask, StartFails, Watch, WatchEnds, Report, Commit, Delay
<1>2. UNCHANGED call /\ \A i \in Ids : i # t.id =>
        met'[i] = met[i] /\ run'[i] = run[i] /\ entry'[i] = entry[i]
  BY <1>0 DEF TaskStep, Publish, StartTask, StartFails, Watch, WatchEnds, Report, Commit, Delay
<1>3. CASE t.id # id
  BY <1>1, <1>2, <1>3, OtherTaskMinds
<1> SUFFICES ASSUME t.id = id PROVE Minded(id)'
  BY <1>3
<1>4. BagToSet(tasks) \ {t} \subseteq BagToSet(tasks')
  BY <1>0, <1>1, BecomesKeeps, EndsKeeps
<1>5. CASE Publish(t)
  <2>1. Task("start", id) \in Starts(id)'
    BY <1>0, <1>k, <1>5, BecomesKeeps DEF Publish, Starts, Tasks
  <2>2. QED
    BY <2>1 DEF Minded, Cared
<1>6. CASE StartTask(t)
  <2>1. CASE Active(id) /\ run[id].stop
    BY <1>0, <1>6, <2>1 DEF StartTask, Minded
  <2>2. CASE ~Active(id)
    <3>1. run'[id] = NewRun
      BY <1>0, <1>6, <2>2 DEF StartTask
    <3>2. QED
      BY <3>1 DEF NewRun, NoRun, Minded, Cared
  <2>3. CASE Active(id) /\ ~run[id].stop
    BY <1>6, <2>3 DEF StartTask, Active, Told, Minded, Cared
  <2>4. QED
    BY <2>1, <2>2, <2>3
<1>7. CASE StartFails(t)
  <2>1. CASE Known(id)
    <3>1. entry' = [entry EXCEPT ![id] = [entry[id] EXCEPT !.status = "Error"]]
      BY <1>7, <2>1 DEF StartFails
    <3>2. entry'[id].status = "Error"
      BY <1>0, <2>1, <3>1, EntryTyped DEF Known, Statuses
    <3>3. QED
      BY <3>2 DEF Minded
  <2>2. CASE ~Known(id)
    BY <1>7, <2>2 DEF StartFails, Known, Gone, Minded
  <2>3. QED
    BY <2>1, <2>2
<1>8. CASE Watch(t)
  <2>1. UNCHANGED <<entry, run, met, call>>
    BY <1>8 DEF Watch
  <2>2. \A k \in CareKinds \ {"watch"} : Tasks(k, id) \subseteq Tasks(k, id)'
    BY <1>4, <1>8 DEF Tasks, Watch
  <2>3. Starts(id) # {} => Starts(id)' # {}
    BY <2>2 DEF Starts, CareKinds
  <2>4. ASSUME run[id].state = "done", Reporting(id) PROVE Reporting(id)'
    <3>1. CASE run[id].out # "Stopped"
      <4>1. Becomes(t, Woken(id))
        BY <1>8, <2>4 DEF Watch, Active
      <4>2. Woken(id).kind = "woken" /\ Woken(id).id = id /\ Woken(id).out = run[id].out
        BY DEF Woken, Task
      <4>3. Woken(id) \in Tasks("woken", id)'
        BY <1>0, <4>1, <4>2, BecomesKeeps DEF Tasks
      <4>4. QED
        BY <3>1, <4>2, <4>3 DEF Reporting
    <3>2. CASE run[id].out = "Stopped"
      BY <2>2, <2>4, <3>2 DEF Reporting, CareKinds
    <3>3. QED
      BY <3>1, <3>2
  <2>5. QED
    BY <2>1, <2>3, <2>4 DEF Minded, Cared, Held
<1>9. CASE WatchEnds(t)
  <2>1. UNCHANGED <<entry, run, met, call>>
    BY <1>9 DEF WatchEnds
  <2>2. \A k \in CareKinds \ {"woken"} : Tasks(k, id) \subseteq Tasks(k, id)'
    BY <1>4, <1>9 DEF Tasks, WatchEnds
  <2>3. Starts(id) # {} => Starts(id)' # {}
    BY <2>2 DEF Starts, CareKinds
  <2>4. ASSUME run[id].state = "done", Reporting(id) PROVE Reporting(id)'
    <3> DEFINE u == [t EXCEPT !.kind = "report"]
    <3>1. Becomes(t, u) /\ u.kind = "report" /\ u.id = id /\ u.out = t.out
      BY <1>0, <1>9, <2>4 DEF WatchEnds, TaskType
    <3> HIDE DEF u
    <3>2. u \in Tasks("report", id)'
      BY <1>0, <3>1, BecomesKeeps DEF Tasks
    <3>3. \A x \in Tasks("woken", id) : x # t => x \in Tasks("woken", id)'
      BY <1>4 DEF Tasks
    <3>4. QED
      BY <2>1, <2>2, <2>4, <3>1, <3>2, <3>3 DEF Reporting, CareKinds
  <2>5. QED
    BY <2>1, <2>3, <2>4 DEF Minded, Cared, Held
<1>10. CASE Report(t)
  <2>1. ASSUME entry'[id].status = "Downloading" PROVE entry[id].status = "Downloading" /\ t.out = "Stopped"
    <3>1. CASE Known(id)
      <4>1. entry'[id] = Reported(entry[id], t.out)
        BY <1>0, <1>10, <3>1 DEF Report
      <4>2. QED
        BY <1>0, <2>1, <3>1, <4>1, ReportedStopped DEF Known
    <3>2. CASE ~Known(id)
      BY <1>10, <2>1, <3>2 DEF Report, Known, Gone
    <3>3. QED
      BY <3>1, <3>2
  <2>2. UNCHANGED <<run, met, call>>
    BY <1>10 DEF Report
  <2>3. ASSUME t.out = "Stopped", Cared(id) PROVE Cared(id)'
    <3>1. \A k \in CareKinds \ {"report"} : Tasks(k, id) \subseteq Tasks(k, id)'
      BY <1>4, <1>10 DEF Tasks, Report
    <3>2. Starts(id) # {} => Starts(id)' # {}
      BY <3>1 DEF Starts, CareKinds
    <3>3. \A x \in Tasks("report", id) : x.out # "Stopped" => x \in Tasks("report", id)'
      BY <1>4, <2>3 DEF Tasks
    <3>4. Reporting(id) => Reporting(id)'
      BY <2>2, <3>1, <3>3 DEF Reporting, CareKinds
    <3>5. QED
      BY <2>2, <2>3, <3>2, <3>4 DEF Cared, Held
  <2>4. QED
    BY <2>1, <2>2, <2>3 DEF Minded
<1>11. CASE Commit(t) \/ Delay(t)
  <2>1. t.kind \notin CareKinds
    BY <1>11 DEF Commit, Delay, CareKinds
  <2>2. UNCHANGED <<entry, run, met, call>>
    BY <1>11 DEF Commit, Delay
  <2>3. QED
    BY <1>1, <2>1, <2>2, OtherTaskMinds
<1>12. QED
  BY <1>5, <1>6, <1>7, <1>8, <1>9, <1>10, <1>11 DEF TaskStep

\* A run that ends was not told to stop, or says so.
LEMMA RunEndsMinds ==
  ASSUME TypeOK, NEW id \in Ids, Minded(id), NEW i \in Ids, RunEnds(i)
  PROVE  Minded(id)'
<1>0. run \in [Ids -> RunType] /\ run[id] \in RunType
  BY DEF TypeOK
<1>1. UNCHANGED <<entry, tasks, call, met>>
  BY DEF RunEnds
<1>2. CASE i # id
  BY <1>0, <1>1, <1>2, MindedStays DEF RunEnds, Held
<1>3. CASE i = id
  <2>1. PICK out \in IF run[id].stop THEN Outcomes ELSE Outcomes \ {"Stopped"} :
          run' = [run EXCEPT ![id] = [@ EXCEPT !.state = "ended", !.out = out]]
    BY <1>3 DEF RunEnds
  <2>2. run[id].state = "going" /\ run'[id].state = "ended" /\ run'[id].out = out
    BY <1>0, <1>3, <2>1 DEF RunEnds, RunType
  <2>3. Starts(id)' = Starts(id) /\ (Held(id) => Held(id)')
    BY <1>1 DEF Starts, Tasks, Held
  <2>4. QED
    BY <1>1, <2>1, <2>2, <2>3 DEF Minded, Cared
<1>4. QED
  BY <1>2, <1>3

\* The end wakes a watcher that waits, or one that has not looked yet will find it.
LEMMA RunDoneMinds ==
  ASSUME TypeOK, EveryRunIsWatched, PlainWaits, NEW id \in Ids, Minded(id),
         NEW i \in Ids, RunDone(i)
  PROVE  Minded(id)'
<1>0. run \in [Ids -> RunType] /\ run[id] \in RunType /\ IsABag(tasks)
  BY DEF TypeOK
<1>k. \A k, j : Task(k, j).kind = k /\ Task(k, j).id = j
  BY DEF Task
<1>1. UNCHANGED <<entry, call, met>>
  BY DEF RunDone
<1> DEFINE waiting == [t \in BagToSet(tasks) \cap {Task("wait", i)} |-> tasks[t]]
           woken == [u \in {Woken(i) : t \in DOMAIN waiting} |-> tasks[Task("wait", i)]]
<1>2. tasks' = (tasks (-) waiting) (+) woken
  BY DEF RunDone
<1>3. \A x \in BagToSet(tasks) : x # Task("wait", i) => x \in DOMAIN (tasks (-) waiting)
  BY <1>0 DEF BagToSet, (-), IsABag
<1>4. \A x \in BagToSet(tasks) : x.kind \in CareKinds => x \in BagToSet(tasks')
  <2>1. \A x : x.kind \in CareKinds => x # Task("wait", i)
    BY <1>k DEF CareKinds
  <2>2. QED
    BY <1>2, <1>3, <2>1 DEF BagToSet, (+)
<1>5. Task("wait", i) \in BagToSet(tasks) => Woken(i) \in BagToSet(tasks')
  <2>1. Task("wait", i) \in BagToSet(tasks) => Woken(i) \in DOMAIN woken
    OBVIOUS
  <2> HIDE DEF waiting, woken
  <2>2. QED
    BY <1>2, <2>1 DEF BagToSet, (+)
<1> HIDE DEF waiting, woken
<1>6. CASE i # id
  <2>1. run'[id] = run[id]
    BY <1>0, <1>6 DEF RunDone
  <2>2. QED
    BY <1>1, <1>4, <2>1, MindedStays DEF Held
<1>7. CASE i = id
  <2>1. run[id].state = "ended" /\ run'[id].state = "done" /\ run'[id].out = run[id].out
    BY <1>0, <1>7 DEF RunDone, RunType
  <2>2. Starts(id) # {} => Starts(id)' # {}
    BY <1>4 DEF Starts, Tasks, CareKinds
  <2>3. ASSUME run[id].out # "Stopped" PROVE Reporting(id)'
    <3>1. PICK w : w \in Tasks("watch", id) \cup Tasks("wait", id)
      BY <2>1 DEF EveryRunIsWatched, Active
    <3>2. CASE w \in Tasks("watch", id)
      BY <1>4, <2>1, <2>3, <3>2 DEF Tasks, CareKinds, Reporting
    <3>3. CASE w \in Tasks("wait", id)
      <4>1. w = Task("wait", id) /\ w \in BagToSet(tasks)
        BY <3>3 DEF Tasks, PlainWaits
      <4>2. Woken(id) \in BagToSet(tasks')
        BY <1>5, <1>7, <4>1
      <4>3. Woken(id).kind = "woken" /\ Woken(id).id = id /\ Woken(id).out = run[id].out
        BY DEF Woken, Task
      <4>4. QED
        BY <2>3, <4>2, <4>3 DEF Reporting, Tasks
    <3>4. QED
      BY <3>1, <3>2, <3>3
  <2>4. QED
    BY <1>1, <2>1, <2>2, <2>3 DEF Minded, Cared, Held
<1>8. QED
  BY <1>6, <1>7

\* A call that begins changes no run, and makes no entry run.
LEMMA CallBeginsMinds ==
  ASSUME TypeOK, NEW id \in Ids, Minded(id), NEW c \in Callers, CallBegins(c)
  PROVE  Minded(id)'
<1>1. UNCHANGED <<tasks, run, met>>
  BY DEF CallBegins, PauseCall, ResumeCall, RedownloadCall, RemoveCall, ClearFinishedCall
<1>2. call[c] = NoCall /\ \A d \in Callers : d # c => call'[d] = call[d]
  <2>1. \A op, ids, pc, snap : Begins(c, op, ids, pc, snap) =>
           call[c] = NoCall /\ \A d \in Callers : d # c => call'[d] = call[d]
    BY DEF Begins, TypeOK
  <2>2. QED
    BY <2>1, Zenon DEF CallBegins, PauseCall, ResumeCall, RedownloadCall, RemoveCall, ClearFinishedCall
<1>3. Held(id) => Held(id)'
  BY <1>2 DEF Held, NoCall
<1>4. Running' \subseteq Running
  <2>1. [Next]_vars /\ ~Pump
    <3>1. calls' = calls + 1
      BY DEF CallBegins, PauseCall, ResumeCall, RedownloadCall, RemoveCall, ClearFinishedCall, Begins
    <3>2. calls' # calls
      BY <3>1, LifecycleAssumption DEF TypeOK
    <3>3. QED
      BY <3>2 DEF Next, Pump
  <2>2. QED
    BY <2>1, OnlyPumpStarts
<1>5. entry'[id].status = "Downloading" => entry[id].status = "Downloading"
  BY <1>4 DEF Running
<1>6. QED
  BY <1>1, <1>3, <1>5, MindedStays

\* A call that stops a run goes on to pause or forget the download; one that
\* has paused or forgotten it leaves nothing running.
LEMMA CallStepMinds ==
  ASSUME TypeOK, CallsSingle, NEW id \in Ids, Minded(id), NEW c \in Callers, CallStep(c)
  PROVE  Minded(id)'
<1>0. /\ call \in [Callers -> CallType] /\ run \in [Ids -> RunType] /\ entry \in [Ids -> Entry]
      /\ run[id] \in RunType /\ call[c] \in CallType /\ entry[id] \in Entry
  BY DEF TypeOK
<1>1. UNCHANGED <<tasks, met>>
  BY DEF CallStep, StopRun, Pausing, Requeue, CallCommits, ClearRetryAt, Forget, DeleteRows, Updates
<1>2. \A d \in Callers : d # c => call'[d] = call[d]
  BY <1>0 DEF CallStep, StopRun, Pausing, Requeue, CallCommits, ClearRetryAt, Forget, DeleteRows, Updates
<1>3. CASE StopRun(c)
  <2>1. call'[c].ids = call[c].ids /\ call'[c].pc \in {"pausing", "forget"}
    BY <1>0, <1>3 DEF StopRun, CallType
  <2>2. CASE id \in call[c].ids
    BY <2>1, <2>2 DEF Minded, Cared, Held
  <2>3. CASE id \notin call[c].ids
    <3>1. run'[id] = run[id]
      BY <1>0, <1>3, <2>3 DEF StopRun, RunType
    <3>2. Held(id) => Held(id)'
      BY <1>2, <2>1 DEF Held
    <3>3. QED
      BY <1>1, <1>3, <3>1, <3>2, MindedStays DEF StopRun
  <2>4. QED
    BY <2>2, <2>3
<1>4. ASSUME call[c].pc \in {"pausing", "forget"} => id \notin call[c].ids, UNCHANGED run,
             entry'[id].status = "Downloading" => entry[id].status = "Downloading"
      PROVE  Minded(id)'
  <2>1. Held(id) => Held(id)'
    BY <1>2, <1>4 DEF Held
  <2>2. QED
    BY <1>1, <1>4, <2>1, MindedStays
<1>5. CASE Pausing(c)
  <2>1. PICK i \in call[c].ids : Updates(c, i, [entry[i] EXCEPT !.status = "Paused"])
    BY <1>5 DEF Pausing
  <2>2. CASE id \in call[c].ids
    <3>1. i = id
      BY <1>5, <2>1, <2>2 DEF CallsSingle, Pausing
    <3>2. CASE Known(id)
      <4>1. entry'[id] = [entry[id] EXCEPT !.status = "Paused"]
        BY <1>0, <2>1, <3>1, <3>2 DEF Updates
      <4>2. QED
        BY <1>0, <3>2, <4>1, EntryTyped DEF Known, Statuses, Minded
    <3>3. CASE ~Known(id)
      BY <2>1, <3>1, <3>3 DEF Updates, Known, Gone, Minded
    <3>4. QED
      BY <3>2, <3>3
  <2>3. CASE id \notin call[c].ids
    <3>1. entry'[id] = entry[id]
      BY <1>0, <2>1, <2>3 DEF Updates
    <3>2. QED
      BY <1>4, <1>5, <2>3, <3>1 DEF Pausing
  <2>4. QED
    BY <2>2, <2>3
<1>6. CASE Requeue(c)
  <2>1. PICK i \in call[c].ids : Updates(c, i, Fresh)
    BY <1>6 DEF Requeue
  <2>2. entry'[id] = entry[id] \/ entry'[id] = Fresh
    BY <1>0, <2>1 DEF Updates
  <2>3. QED
    BY <1>4, <1>6, <2>2 DEF Requeue, Fresh
<1>7. CASE Forget(c)
  <2>1. CASE id \in call[c].ids
    BY <1>7, <2>1 DEF Forget, Minded, Gone
  <2>2. CASE id \notin call[c].ids
    BY <1>4, <1>7, <2>2 DEF Forget
  <2>3. QED
    BY <2>1, <2>2
<1>8. CASE CallCommits(c) \/ ClearRetryAt(c) \/ DeleteRows(c)
  BY <1>4, <1>8 DEF CallCommits, ClearRetryAt, DeleteRows
<1>9. QED
  BY <1>3, <1>5, <1>6, <1>7, <1>8 DEF CallStep

\* The invariant holds until the application shuts down, and again after its
\* next start.
LEMMA MetInvStays == TypeOK /\ EveryRunIsWatched /\ MetInv /\ [Next]_vars => MetInv'
<1> SUFFICES ASSUME TypeOK, EveryRunIsWatched, MetInv, [Next]_vars, ~closing' PROVE MetInv'
  BY DEF MetInv
<1>1. CASE Restart
  <2>1. \A id \in Ids : entry'[id].status # "Downloading"
    BY <1>1, RecoveredTyped DEF Restart, TypeOK
  <2>2. QED
    BY <1>1, <2>1 DEF Restart, MetInv, CallsSingle, NoCall, PlainWaits, BagToSet, EmptyBag, SetToBag,
                      Told, NoRun, Minded
<1>2. CASE ~Restart
  <2>1. ~closing /\ ~Shutdown
    <3>1. ~Shutdown
      BY DEF Shutdown
    <3>2. ASSUME NEW t, TaskStep(t) PROVE UNCHANGED closing
      BY <3>2 DEF TaskStep, Publish, StartTask, StartFails, Watch, WatchEnds, Report, Commit, Delay
    <3>3. ASSUME NEW c, CallBegins(c) \/ CallStep(c) PROVE UNCHANGED closing
      BY <3>3 DEF CallBegins, PauseCall, ResumeCall, RedownloadCall, RemoveCall, ClearFinishedCall,
           CallStep, StopRun, Pausing, Requeue, CallCommits, ClearRetryAt, Forget, DeleteRows
    <3>4. ASSUME Pump \/ (\E i : RunEnds(i) \/ RunDone(i) \/ BackoffElapses(i)) \/ UNCHANGED vars
          PROVE  UNCHANGED closing
      BY <3>4 DEF Pump, RunEnds, RunDone, BackoffElapses, vars
    <3>5. QED
      BY <1>2, <3>1, <3>2, <3>3, <3>4 DEF Next
  <2>2. CallsSingle /\ PlainWaits /\ \A id \in Ids : Told(id) /\ Minded(id)
    BY <2>1 DEF MetInv
  <2>3. ASSUME NEW id \in Ids PROVE Minded(id)'
    <3>0. Told(id) /\ Minded(id)
      BY <2>2
    <3>1. CASE UNCHANGED <<entry, run, tasks, call, met>>
      BY <3>0, <3>1, MindedStays DEF Held
    <3>2. ASSUME NEW t \in BagToSet(tasks), TaskStep(t) PROVE Minded(id)'
      BY <3>0, <3>2, TaskStepMinds
    <3>3. ASSUME NEW i \in Ids, RunEnds(i) \/ RunDone(i) \/ BackoffElapses(i) PROVE Minded(id)'
      BY <2>2, <3>0, <3>1, <3>3, RunEndsMinds, RunDoneMinds DEF BackoffElapses
    <3>4. ASSUME NEW c \in Callers, CallBegins(c) \/ CallStep(c) PROVE Minded(id)'
      BY <2>2, <3>0, <3>4, CallBeginsMinds, CallStepMinds
    <3>5. QED
      BY <1>2, <2>1, <3>0, <3>1, <3>2, <3>3, <3>4, PumpMinds DEF Next, vars
  <2>4. \A id \in Ids : Told(id)'
    BY <2>2, ToldStays
  <2>5. QED
    BY <2>2, <2>3, <2>4, PlainWaitsStay, CallsSingleStay DEF MetInv
<1>3. QED
  BY <1>1, <1>2

\* Whoever minds an entry is on its way, or is a call about it.
LEMMA MindedIsLookedAfter == TypeOK /\ EveryRunIsWatched /\ MetInv => LeftOnlyByMeeting
<1> SUFFICES ASSUME TypeOK, EveryRunIsWatched, MetInv, NEW id \in Running, ~closing, ~met[id]
             PROVE  LookedAfter(id)
  BY DEF LeftOnlyByMeeting, LookedAfter
<1>1. id \in Ids /\ Cared(id)
  BY DEF Running, MetInv, Minded
<1>2. \A k : Tasks(k, id) \subseteq OnTheWay(id)
  BY DEF Tasks, OnTheWay
<1>3. CASE Held(id)
  BY <1>3 DEF Held, LookedAfter
<1>4. CASE Active(id)
  <2>1. Tasks("watch", id) \cup Tasks("wait", id) # {}
    BY <1>1, <1>4 DEF EveryRunIsWatched
  <2>2. QED
    BY <1>2, <2>1 DEF LookedAfter
<1>5. CASE Starts(id) # {} \/ Reporting(id)
  <2>1. \E k : Tasks(k, id) # {}
    BY <1>5 DEF Starts, Reporting
  <2>2. QED
    BY <1>2, <2>1 DEF LookedAfter
<1>6. QED
  BY <1>1, <1>3, <1>4, <1>5 DEF Cared, Active

\* Whatever the user does and however tasks, reports and calls overlap, an
\* entry that runs is left behind only if its start met a run told to stop
\* (KuHttpEngine::download), for any number of downloads, callers and calls.
THEOREM EntriesAreLeftOnlyByMeeting == Spec => []LeftOnlyByMeeting
<1>1. Init => MetInv
  <2> SUFFICES ASSUME Init PROVE MetInv
    OBVIOUS
  <2>1. \A t \in BagToSet(tasks) : t.kind = "commit"
    BY DEF Init, BagToSet, SetToBag, Task
  <2>2. QED
    BY <2>1 DEF Init, MetInv, CallsSingle, NoCall, PlainWaits, Told, NoRun, Minded, Fresh
<1>2. QED
  BY <1>1, MetInvStays, MindedIsLookedAfter, LifecycleTypeOK, LifecycleWatched, PTL DEF Spec
=============================================================================
