------------------------------ MODULE KuHttpJob ------------------------------
(***************************************************************************)
(* One KuHTTP download over its whole life: Runner::run and attempt        *)
(* (download.rs) around the workers of KuHttpWorkers, the temporary file   *)
(* and its durability (storage.rs), the resume state (resume.rs), the      *)
(* decision to trust it (recovery.rs), crashes and power loss.             *)
(*                                                                         *)
(* Assumed of the file system: creating, renaming and removing a file and  *)
(* setting its length take effect in order and are durable at once; what   *)
(* is written into a file is durable only after sync_data.  The state file *)
(* is written to a side file, synced and renamed: one step.  Removing the  *)
(* temporary file or the state succeeds: the code ignores a failure        *)
(* (resume.rs:49-52), and a state that stays behind when its file is       *)
(* truncated would describe an empty one until the next save.              *)
(*                                                                         *)
(* Left out: downloads of unknown size, file names, checksums other than   *)
(* one of the whole file announced with the probe, the disk-space check    *)
(* and a state saved for another address (both like a refused open).       *)
(***************************************************************************)
EXTENDS KuHttpWorkers

CONSTANTS
  Comparable,  \* the server sends validators (Validators::has_any)
  Announced,   \* the server announces a checksum of the file
  MaxRestarts, \* restarts one run allows itself (3)
  MaxRuns,     \* bound: how often the download is started
  MaxCrashes,  \* bound: crashes and power losses
  DiskFaults,  \* writing the state file may fail
  Edited,      \* the connection count may be edited between two runs
  None         \* no file, no state

\* The state file: a record of the segments, the version it is of, and whether
\* the attempt was segmented.
SavedState ==
  [ ranges : SUBSET [start : 0 .. Total, end : 0 .. Total, pos : 0 .. Total],
    version : Versions, segmented : BOOLEAN ]

ASSUME JobAssumption ==
  /\ Comparable \in BOOLEAN /\ Announced \in BOOLEAN
  /\ IfRange => Comparable
  /\ DiskFaults \in BOOLEAN /\ Edited \in BOOLEAN /\ "ranged" \in Modes
  /\ MaxRestarts \in Nat /\ MaxRuns \in Nat \ {0} /\ MaxCrashes \in Nat
  /\ None \notin SavedState

VARIABLES
  run,       \* where Runner::run is, or how it ended
  restarts,  \* its count of restarts
  single,    \* force_single
  persist,   \* persist() under way: no, snapped, synced
  snap,      \* the positions it took from the map
  temp,      \* the temporary file exists
  stable,    \* its durable content
  saved,     \* the resume state file
  final,     \* the finished file: its content and what of it is durable
  runs, crashes

jobVars == <<run, restarts, single, persist, snap, temp, stable, saved, final, runs, crashes>>
allVars == <<vars, jobVars>>

Terminal == {"Off", "Paused", "Cancelled", "Failed", "FailedVerification", "Completed"}

Empty == [b \in Bytes |-> Blank]
NoTasks == [w \in Workers |-> Off]
PersistedBytes(s) == RecordedIn(s.ranges)

JobInit ==
  /\ mode = "ranged" /\ segs = InitialMap(1) /\ nextId = 1 /\ wk = NoTasks /\ target = 1
  /\ disk = Empty /\ stop = FALSE /\ phase = "Ended" /\ fatal = FALSE
  /\ remote = 1 /\ version = 1
  /\ run = "Off" /\ restarts = 0 /\ single = FALSE /\ persist = "no" /\ snap = {}
  /\ temp = FALSE /\ stable = Empty /\ saved = None /\ final = None
  /\ runs = 0 /\ crashes = 0

-----------------------------------------------------------------------------
(* Runner::run *)

\* KuHttpEngine::download: a new task with a new control channel, also for a
\* download that is complete (redownload).
Start ==
  /\ run \in Terminal /\ runs < MaxRuns
  /\ run' = "Probing" /\ runs' = runs + 1 /\ restarts' = 0 /\ single' = FALSE /\ stop' = FALSE
  /\ UNCHANGED <<mode, segs, nextId, wk, target, disk, phase, fatal, remote, version,
                 persist, snap, temp, stable, saved, final, crashes>>

ProbeAnswers ==
  /\ run = "Probing"
  /\ version' = remote /\ run' = "Deciding"
  /\ UNCHANGED <<mode, segs, nextId, wk, target, disk, stop, phase, fatal, remote,
                 restarts, single, persist, snap, temp, stable, saved, final, runs, crashes>>

\* The probe fails for good, or is stopped between its retries.
ProbeEnds ==
  /\ run = "Probing"
  /\ run' \in IF stop THEN {"Failed", "Paused", "Cancelled"} ELSE {"Failed"}
  /\ UNCHANGED <<vars, restarts, single, persist, snap, temp, stable, saved, final, runs, crashes>>

\* Mutated form: restarts are not counted.
RestartUncounted(singleStream) ==
  restarts' = restarts /\ single' = (single \/ singleStream) /\ run' = "Probing"

\* AttemptEnd::Restart.
Restart(singleStream) ==
  /\ restarts' = restarts + 1
  /\ single' = (single \/ singleStream)
  /\ run' = IF restarts < MaxRestarts THEN "Probing" ELSE "Failed"

-----------------------------------------------------------------------------
(* Runner::attempt, up to the spawn of its workers *)

ModeFor(m) == m \in Modes /\ (single => m = "stream")

\* Whether an attempt is segmented depends on the size, which has not changed
\* when a state is trusted, and on the download's connection count.
SameConns(m) == ~Edited => (m = "segmented") = saved.segmented

\* Mutated form: the validators are not compared.
TrustedUnseen == saved # None /\ temp

\* recovery::decide: the state is trusted if the file it describes is still
\* there and the server's is the same as far as validators tell.
Trusted == /\ saved # None /\ temp
           /\ Comparable => saved.version = version

DecideResume ==
  /\ run = "Deciding" /\ Trusted
  /\ \E m \in Modes :
       /\ ModeFor(m) /\ m # "stream" /\ SameConns(m)
       /\ mode' = m
       /\ segs' = FromPersisted(saved.ranges)
       /\ nextId' = NextIdOf(segs')
  /\ run' = IF Comparable THEN "Preparing" ELSE "Checking"
  /\ UNCHANGED <<wk, target, disk, stop, phase, fatal, remote, version, restarts, single,
                 persist, snap, temp, stable, saved, final, runs, crashes>>

\* Anything else starts over: the state is removed first ...
DecideFresh ==
  /\ run = "Deciding"
  /\ \E m \in Modes :
       /\ ModeFor(m) /\ (m # "stream" => ~Trusted)
       /\ mode' = m
  /\ saved' = None /\ run' = "Opening"
  /\ UNCHANGED <<segs, nextId, wk, target, disk, stop, phase, fatal, remote, version,
                 restarts, single, persist, snap, temp, stable, final, runs, crashes>>

\* ... then the file is created or truncated and preallocated.
OpenFresh ==
  /\ run = "Opening"
  /\ temp' = TRUE /\ disk' = Empty /\ stable' = Empty
  /\ segs' = InitialMap(FirstConns) /\ nextId' = NextIdOf(segs')
  /\ run' = "Preparing"
  /\ UNCHANGED <<mode, wk, target, stop, phase, fatal, remote, version, restarts, single,
                 persist, snap, saved, final, runs, crashes>>

\* No space, no access.
OpenFails ==
  /\ run \in {"Deciding", "Opening"}
  /\ run' \in {"Failed", "Paused"}
  /\ saved' = IF run = "Deciding" /\ ~Trusted THEN None ELSE saved
  /\ UNCHANGED <<vars, restarts, single, persist, snap, temp, stable, final, runs, crashes>>

\* spot_check without validators: some of the recorded bytes (at most four
\* samples, none when the written ranges are short) against the server's.  A
\* request or a read that fails counts as a difference.
SpotCheck ==
  /\ run = "Checking"
  /\ \E sample \in SUBSET Recorded(segs) :
       \/ sample # {} /\ run' = "Discarding"
       \/ (\A b \in sample : disk[b] = remote) /\ run' = "Preparing"
  /\ UNCHANGED <<vars, restarts, single, persist, snap, temp, stable, saved, final, runs, crashes>>

\* The temporary file goes first, the state that describes it second.
Discard ==
  /\ run \in {"Discarding", "DiscardingForSingle"} /\ temp
  /\ temp' = FALSE
  /\ UNCHANGED <<vars, run, restarts, single, persist, snap, stable, saved, final, runs, crashes>>

DiscardState ==
  /\ run \in {"Discarding", "DiscardingForSingle"} /\ ~temp
  /\ saved' = None
  /\ Restart(run = "DiscardingForSingle")
  /\ UNCHANGED <<vars, persist, snap, temp, stable, final, runs, crashes>>

-----------------------------------------------------------------------------
(* persist: snapshot, sync_data, atomic save *)

\* When it is called: before the workers start (Preparing), now and then by
\* the ticker, and after the select loop (Closing).
MayPersist ==
  Ranges /\ run \in {"Preparing", "Downloading", "Closing"} /\ (run = "Downloading" => phase = "Downloading")

\* Mutated form: sync_data is left out.
PersistSnapshotUnsynced ==
  /\ MayPersist /\ persist = "no"
  /\ persist' = "synced" /\ snap' = Persisted(segs)
  /\ UNCHANGED <<vars, run, restarts, single, temp, stable, saved, final, runs, crashes>>

PersistSnapshot ==
  /\ MayPersist /\ persist = "no"
  /\ persist' = "snapped" /\ snap' = Persisted(segs)
  /\ UNCHANGED <<vars, run, restarts, single, temp, stable, saved, final, runs, crashes>>

PersistSync ==
  /\ persist = "snapped"
  /\ persist' = "synced" /\ stable' = disk
  /\ UNCHANGED <<vars, run, restarts, single, snap, temp, saved, final, runs, crashes>>

\* What follows: the workers are spawned, or the attempt is concluded.
AfterPersist(spawned) ==
  IF spawned THEN /\ run' = "Downloading" /\ phase' = "Downloading" /\ fatal' = FALSE
                  /\ target' = FirstConns
                  /\ \E W \in SUBSET Workers :
                       /\ Cardinality(W) = FirstConns
                       /\ wk' = [w \in Workers |-> IF w \in W THEN Fresh ELSE Off]
  ELSE /\ run' = IF run = "Closing" THEN "Closed" ELSE run
       /\ UNCHANGED <<phase, fatal, target, wk>>

\* Mutated form: the positions are taken after the sync.
PersistSaveLatest ==
  /\ persist = "synced"
  /\ persist' = "no" /\ snap' = {}
  /\ saved' = [ranges |-> Persisted(segs), version |-> version, segmented |-> Segmented]
  /\ AfterPersist(run = "Preparing")
  /\ UNCHANGED <<mode, segs, nextId, disk, stop, remote, version,
                 restarts, single, temp, stable, final, runs, crashes>>

PersistSave ==
  /\ persist = "synced"
  /\ persist' = "no" /\ snap' = {}
  /\ saved' = [ranges |-> snap, version |-> version, segmented |-> Segmented]
  /\ AfterPersist(run = "Preparing")
  /\ UNCHANGED <<mode, segs, nextId, disk, stop, remote, version,
                 restarts, single, temp, stable, final, runs, crashes>>

\* A failed write of the state is ignored before and after the workers run;
\* the ticker's ends the attempt.
PersistFails ==
  /\ DiskFaults /\ persist \in {"snapped", "synced"}
  /\ persist' = "no" /\ snap' = {}
  /\ IF run = "Downloading"
     THEN /\ fatal' = TRUE /\ phase' = "Draining"
          /\ wk' = IF stop THEN wk ELSE NoTasks
          /\ UNCHANGED <<run, target>>
     ELSE AfterPersist(run = "Preparing")
  /\ UNCHANGED <<mode, segs, nextId, disk, stop, remote, version,
                 restarts, single, temp, stable, saved, final, runs, crashes>>

\* A stream has no state to keep.
SkipPersist ==
  /\ ~Ranges /\ run \in {"Preparing", "Closing"}
  /\ AfterPersist(run = "Preparing")
  /\ UNCHANGED <<mode, segs, nextId, disk, stop, remote, version, restarts, single,
                 persist, snap, temp, stable, saved, final, runs, crashes>>

-----------------------------------------------------------------------------
(* The workers, and what follows them *)

\* The select loop waits while it persists; the workers do not.
Downloading ==
  /\ run = "Downloading"
  /\ \/ \E w \in Workers : WorkerStep(w)
     \/ persist = "no" /\ RunnerStep
  /\ UNCHANGED jobVars

\* Mutated form: no last save.
LoopEndsUnsaved ==
  /\ run = "Downloading" /\ phase = "Ended"
  /\ run' = "Closed" /\ target' = 1
  /\ UNCHANGED <<mode, segs, nextId, wk, disk, stop, phase, fatal, remote, version,
                 restarts, single, persist, snap, temp, stable, saved, final, runs, crashes>>

LoopEnds ==
  /\ run = "Downloading" /\ phase = "Ended"
  /\ run' = "Closing" /\ target' = 1
  /\ UNCHANGED <<mode, segs, nextId, wk, disk, stop, phase, fatal, remote, version, restarts, single, persist, snap, temp, stable, saved, final, runs, crashes>>

\* Pause or cancel come first, whatever the workers returned.
ConcludeStopped ==
  /\ run = "Closed" /\ stop
  /\ run' \in {"Paused", "Cancelled", "Deleting"}
  /\ UNCHANGED <<vars, restarts, single, persist, snap, temp, stable, saved, final, runs, crashes>>

\* Cancel { delete: true }.
Delete ==
  /\ run = "Deleting"
  /\ temp' = FALSE
  /\ IF temp THEN UNCHANGED <<run, saved>> ELSE run' = "Cancelled" /\ saved' = None
  /\ UNCHANGED <<vars, restarts, single, persist, snap, stable, final, runs, crashes>>

\* A range fault probes again and falls back to one stream unless the file
\* changed; a changed file restarts; the rest ends the run and keeps the
\* temporary file and its state.
ConcludeFatal ==
  /\ run = "Closed" /\ ~stop /\ fatal
  /\ run' \in {"Failed", "Paused", "Discarding"} \cup (IF Ranges THEN {"DiscardingForSingle"} ELSE {})
  /\ UNCHANGED <<vars, restarts, single, persist, snap, temp, stable, saved, final, runs, crashes>>

\* Mutated form: the file is not synced before it gets its name.
FinishUnsynced ==
  /\ run = "Closed" /\ ~stop /\ ~fatal
  /\ run' = IF IsComplete(segs) THEN "Verifying" ELSE "Failed"
  /\ UNCHANGED <<vars, restarts, single, persist, snap, temp, stable, saved, final, runs, crashes>>

\* finish: every range complete, the map consistent, all writes durable.
FinishSync ==
  /\ run = "Closed" /\ ~stop /\ ~fatal
  /\ IF IsComplete(segs) THEN stable' = disk /\ run' = "Verifying"
     ELSE UNCHANGED stable /\ run' = "Failed"
  /\ UNCHANGED <<vars, restarts, single, persist, snap, temp, saved, final, runs, crashes>>

\* Mutated form: an announced checksum is ignored.
VerifyNothing ==
  /\ run = "Verifying" /\ run' = "Renaming"
  /\ UNCHANGED <<vars, restarts, single, persist, snap, temp, stable, saved, final, runs, crashes>>

\* The checksum announced with the probe, if any; reading the file for it may
\* fail too.
Verify ==
  /\ run = "Verifying"
  /\ \/ Announced /\ run' = "FailedVerification" /\ saved' = None
     \/ /\ Announced => \A b \in Bytes : disk[b] = version
        /\ run' = "Renaming" /\ UNCHANGED saved
  /\ UNCHANGED <<vars, restarts, single, persist, snap, temp, stable, final, runs, crashes>>

\* finalize: the atomic rename.
Rename ==
  /\ run = "Renaming"
  /\ final' = [data |-> disk, stable |-> stable]
  /\ temp' = FALSE /\ run' = "Cleaning"
  /\ UNCHANGED <<vars, restarts, single, persist, snap, stable, saved, runs, crashes>>

\* sync or rename fail, a full disk pausing: the partial file and its state
\* stay.  Nothing after the workers looks at the control channel again.
FinishFails ==
  /\ run = "Renaming" \/ (run = "Closed" /\ ~stop /\ ~fatal)
  /\ run' \in {"Failed", "Paused"}
  /\ UNCHANGED <<vars, restarts, single, persist, snap, temp, stable, saved, final, runs, crashes>>

CleanState ==
  /\ run = "Cleaning"
  /\ saved' = None /\ run' = "Completed"
  /\ UNCHANGED <<vars, restarts, single, persist, snap, temp, stable, final, runs, crashes>>

-----------------------------------------------------------------------------
(* The environment *)

\* KuHttpEngine::pause or cancel.
Stop ==
  /\ run \notin Terminal /\ ~stop /\ stop' = TRUE
  /\ UNCHANGED <<mode, segs, nextId, wk, target, disk, phase, fatal, remote, version, jobVars>>

Replace ==
  /\ remote < LastVersion /\ remote' = remote + 1
  /\ UNCHANGED <<mode, segs, nextId, wk, target, disk, stop, phase, fatal, version, jobVars>>

\* The process is gone; the files are as the operating system has them.  With
\* the power gone too, each byte not synced is the old or the new one.
Crash ==
  /\ run \notin Terminal /\ crashes < MaxCrashes
  /\ crashes' = crashes + 1
  /\ run' = "Off" /\ persist' = "no" /\ snap' = {}
  /\ mode' = "ranged" /\ segs' = InitialMap(1) /\ nextId' = 1 /\ wk' = NoTasks /\ target' = 1
  /\ phase' = "Ended" /\ fatal' = FALSE /\ stop' = FALSE
  /\ \E lost \in SUBSET {b \in Bytes : disk[b] # stable[b]} :
       disk' = [b \in Bytes |-> IF b \in lost THEN stable[b] ELSE disk[b]]
  /\ UNCHANGED <<remote, version, restarts, single, temp, stable, saved, final, runs>>

-----------------------------------------------------------------------------

JobNext ==
  \/ Start \/ ProbeAnswers \/ ProbeEnds
  \/ DecideResume \/ DecideFresh \/ OpenFresh \/ OpenFails \/ SpotCheck \/ Discard \/ DiscardState
  \/ PersistSnapshot \/ PersistSync \/ PersistSave \/ PersistFails \/ SkipPersist
  \/ Downloading \/ LoopEnds \/ ConcludeStopped \/ Delete \/ ConcludeFatal
  \/ FinishSync \/ Verify \/ Rename \/ FinishFails \/ CleanState
  \/ Stop \/ Replace \/ Crash

JobSpec == JobInit /\ [][JobNext]_allVars

-----------------------------------------------------------------------------
(* Properties *)

\* The type of every variable.
JobTypeOK ==
  /\ TypeOK
  /\ run \in Terminal \cup
       {"Probing", "Deciding", "Opening", "Checking", "Discarding", "DiscardingForSingle",
        "Preparing", "Downloading", "Closing", "Closed", "Deleting", "Verifying",
        "Renaming", "Cleaning"}
  /\ restarts \in 0 .. MaxRestarts + 1 /\ single \in BOOLEAN
  /\ persist \in {"no", "snapped", "synced"}
  /\ temp \in BOOLEAN /\ stable \in [Bytes -> Versions \cup {Blank}]
  /\ runs \in 0 .. MaxRuns /\ crashes \in 0 .. MaxCrashes

\* "Positions recorded are therefore always backed by durable bytes": whatever
\* the state file records of the file next to it survives a power loss, over
\* pauses, failed saves, restarts and truncations.
SavedIsDurable ==
  saved # None /\ temp => \A b \in PersistedBytes(saved) : stable[b] # Blank

\* What a resumed download counts as done is in the file, even when the power
\* went while workers were writing and a save was under way.
ResumedIsWritten ==
  run \in {"Checking", "Preparing", "Downloading", "Closing", "Closed"} => RecordedIsWritten

\* No file gets the final name before every byte of it is there and durable.
FinalIsWhole ==
  final # None => /\ \A b \in Bytes : final.data[b] # Blank
                  /\ final.stable = final.data

\* A finished file is one version of the remote file, when the validators
\* allow If-Range or the server announces a checksum, although it may have
\* been replaced in any pause, restart, retry or between two requests.
FinalIsOneVersion ==
  final # None /\ (IfRange \/ Announced) =>
    \A b, c \in Bytes : final.data[b] = final.data[c]

\* Pausing keeps every byte: when a stopped attempt is over, the saved state
\* records all that the map did, unless just this save failed.
PauseKeepsProgress ==
  [][run # "Closed" /\ run' = "Closed" /\ stop' /\ Ranges /\ ~PersistFails =>
       saved' # None /\ PersistedBytes(saved') = Recorded(segs')]_allVars

\* Resuming takes up every recorded byte, as the same file of segments.
ResumeTakesUp ==
  [][run = "Deciding" /\ run' \in {"Preparing", "Checking"} =>
       Recorded(segs') = PersistedBytes(saved) /\ Persisted(segs') = saved.ranges]_allVars

\* What these rest on, an inductive invariant (KuHttpJobProofs).  Outside the
\* select loop nobody is at work, and inside it the attempt is as
\* KuHttpWorkers has it; the loop does not end while it saves;
AttemptSound ==
  IF run = "Downloading"
  THEN IInv /\ (persist # "no" => phase = "Downloading")
  ELSE phase = "Ended" /\ target = 1 /\ \A w \in Workers : wk[w].ph = "off"

\* an attempt that has opened its file has a sound map of what is in it;
Mapped == {"Checking", "Preparing", "Downloading", "Closing", "Closed"}

MapSound ==
  run \in Mapped =>
    /\ WellFormed(segs) /\ RecordedIsWritten /\ StreamIsWhole
    /\ run \in {"Checking", "Preparing"} => \A i \in DOMAIN segs : segs[i].state # "Active"

\* a snapshot never says more than the map, and once synced it is durable;
SnapSound ==
  persist # "no" =>
    /\ run \in {"Preparing", "Downloading", "Closing"} /\ Ranges /\ Recordable(snap)
    /\ RecordedIn(snap) \subseteq Recorded(segs)
    /\ run = "Closing" => RecordedIn(snap) = Recorded(segs)
    /\ persist = "synced" => \A b \in RecordedIn(snap) : stable[b] # Blank

\* a saved state is a record of segments, and is gone before its file is
\* truncated; what is durable was written, and is all of it once synced.
SavedSound ==
  /\ saved # None => saved \in SavedState /\ Recordable(saved.ranges)
  /\ run = "Opening" => saved = None

FilesSound ==
  /\ \A b \in Bytes : stable[b] # Blank => disk[b] # Blank
  /\ run \in {"Verifying", "Renaming"} => stable = disk /\ \A b \in Bytes : disk[b] # Blank

RestartsCounted == run \notin Terminal => restarts <= MaxRestarts

JobInv ==
  /\ JobTypeOK /\ AttemptSound /\ MapSound /\ SnapSound /\ SavedSound /\ FilesSound
  /\ RestartsCounted /\ SavedIsDurable /\ FinalIsWhole

\* With validators good for If-Range: what the map, a snapshot and the saved
\* state record is one version each, the probed one, or a later one that was
\* there already when the first connection asked; and no later probe takes
\* such a state for the file it finds.
OneVersionSaved ==
  saved # None =>
    /\ ~saved.segmented => Cardinality(saved.ranges) = 1
    /\ temp => \A b \in PersistedBytes(saved) :
                \A v \in {disk[b], stable[b]} : v = saved.version \/ saved.version < remote
    /\ run = "Deciding" /\ temp /\ saved.version = version =>
         \A b \in PersistedBytes(saved) : disk[b] = version
    /\ run \in Mapped => Ranges /\ saved.version = version

JobVersions ==
  /\ version <= remote
  /\ run \in Mapped => VInv
  /\ persist # "no" /\ ~Segmented => Cardinality(snap) = 1
  /\ persist = "synced" => \A b \in RecordedIn(snap) : Answered(stable[b])
  /\ OneVersionSaved
  /\ run \in {"Verifying", "Renaming"} => \A b, c \in Bytes : disk[b] = disk[c]

JobVInv ==
  /\ IfRange /\ ~Edited => JobVersions
  /\ Announced /\ run = "Renaming" => \A b \in Bytes : disk[b] = version
  /\ ~Edited \/ Announced => FinalIsOneVersion

\* A run ends: restarts are counted, the workers end, files are cleaned up,
\* and the select loop is never kept from joining by its saves.
RunEnds == [](run \notin Terminal => <>(run \in Terminal))

InLoop(A) == run = "Downloading" /\ A /\ UNCHANGED jobVars

\* The run's own steps and the tasks it waits for are scheduled.  Saving is
\* due every few seconds and select! picks any ready branch, so a join that
\* is ready again and again is taken.
JobFairness ==
  /\ WF_allVars(ProbeAnswers \/ ProbeEnds)
  /\ WF_allVars(DecideResume \/ DecideFresh \/ OpenFresh \/ SpotCheck \/ Discard \/ DiscardState)
  /\ WF_allVars(run # "Downloading" /\ PersistSnapshot)
  /\ WF_allVars(PersistSync \/ PersistSave \/ PersistFails \/ SkipPersist)
  /\ WF_allVars(LoopEnds \/ ConcludeStopped \/ Delete \/ ConcludeFatal)
  /\ WF_allVars(FinishSync \/ Verify \/ Rename \/ FinishFails \/ CleanState)
  /\ \A w \in Workers :
       /\ WF_allVars(InLoop(LeaveOnStop(w) \/ Retire(w) \/ LeaveIdle(w)))
       /\ SF_allVars(InLoop(ClaimPending(w) \/ ClaimSteal(w)))
       /\ WF_allVars(InLoop(Respond(w) \/ FailTransient(w) \/ FailPermanent(w)))
       /\ WF_allVars(InLoop(Receive(w) \/ Complete(w) \/ StopBody(w) \/ FailTransient(w)))
       /\ WF_allVars(InLoop(Record(w)))
       /\ SF_allVars(InLoop(persist = "no" /\ (JoinExited(w) \/ JoinFatal(w) \/ Drain(w))))
  /\ SF_allVars(InLoop(persist = "no" /\ (ObserveStop \/ EndAttempt)))

FairJobSpec == JobSpec /\ JobFairness
=============================================================================
