-------------------------- MODULE KuHttpJobProofs --------------------------
(***************************************************************************)
(* The invariants of KuHttpJob for every file, team of workers, number of  *)
(* runs, restarts and crashes.  JobInv is inductive, and with it JobVInv;  *)
(* what the workers do inside a run are the lemmas of KuHttpWorkersProofs. *)
(***************************************************************************)
EXTENDS KuHttpJob, KuHttpWorkersProofs

\* What a sound record says is written lies in the file.
LEMMA RecordInside ==
  ASSUME NEW P, Recordable(P)
  PROVE  RecordedIn(P) \subseteq Bytes
<1>1. ASSUME NEW b \in RecordedIn(P) PROVE b \in Bytes
  <2>1. PICK r \in P : b \in Span(r.start, r.pos)
    BY DEF RecordedIn
  <2>2. r.start \in 0 .. Total /\ r.pos \in 0 .. Total /\ Total \in Nat
    BY SizeAssumption DEF Recordable
  <2> QED
    BY <2>1, <2>2 DEF Span, Bytes
<1> QED
  BY <1>1

\* The map that no attempt has opened yet is one of a single segment.
LEMMA OneInitialSegment ==
  /\ IsMap(InitialMap(1), Workers) /\ DOMAIN InitialMap(1) = 0 .. 1 - 1
<1>1. SegmentCount(1) = 1
  BY SizeAssumption DEF SegmentCount, MinOf, MaxOf
<1> QED
  BY <1>1, SizeAssumption, InitialMapIsWellFormed, InitialMapIsFresh

\* What a step that leaves the attempt alone keeps of it.
LEMMA Unmoved ==
  ASSUME UNCHANGED vars
  PROVE  (TypeOK => TypeOK') /\ (IInv => IInv') /\ (VInv => VInv')
<1> USE DEF vars
<1>1. TypeOK => TypeOK'
  BY DEF TypeOK, ConnLimit, Segmented
<1>2. IInv => IInv'
  BY StepKeeps
<1>3. VInv => VInv'
  BY DEF VInv, OneSegment, OnePosition, AnswersAgree, OneVersion, Answered, Segmented, Ranges
<1> QED
  BY <1>1, <1>2, <1>3

(***************************************************************************)
(* Steps outside the select loop that leave the map alone                  *)
(***************************************************************************)

\* A step between two stages of a run in which nobody writes, saves or counts
\* bytes: files may be removed, synced or renamed, and a probe may answer.
QuietRun ==
  /\ run \notin {"Preparing", "Downloading", "Closing"}
  /\ run' \in Terminal \cup
       {"Probing", "Deciding", "Checking", "Discarding", "DiscardingForSingle", "Preparing",
        "Closed", "Deleting", "Verifying", "Renaming", "Cleaning"}
  /\ run' \in Mapped => run \in Mapped
  /\ run' \in {"Checking", "Preparing"} => run = "Checking"
  /\ run' = "Verifying" => run = "Closed" /\ stable' = disk /\ IsComplete(segs)
  /\ run' = "Renaming" => /\ run = "Verifying" /\ stable' = stable
                          /\ Announced => \A b \in Bytes : disk[b] = version
  /\ IF run' = "Deciding" THEN version' = remote ELSE version' = version
  /\ UNCHANGED <<mode, segs, nextId, wk, target, disk, phase, fatal, remote, persist, snap, crashes>>
  /\ stop' \in BOOLEAN /\ single' \in BOOLEAN /\ runs' \in 0 .. MaxRuns
  /\ restarts' \in 0 .. MaxRestarts + 1 /\ (run' \notin Terminal => restarts' <= MaxRestarts)
  /\ temp' \in BOOLEAN /\ (temp' => temp)
  /\ saved' \in {saved, None}
  /\ stable' \in {stable, disk}
  /\ final' = final \/ (run = "Renaming" /\ final' = [data |-> disk, stable |-> stable])

LEMMA QuietActions ==
  ASSUME JobInv,
         \/ Start \/ ProbeAnswers \/ ProbeEnds \/ OpenFails \/ SpotCheck \/ Discard \/ DiscardState
         \/ ConcludeStopped \/ Delete \/ ConcludeFatal
         \/ FinishSync \/ Verify \/ Rename \/ FinishFails \/ CleanState
  PROVE  QuietRun
<1> USE DEF Terminal, Mapped
<1>1. /\ MaxRestarts \in Nat /\ MaxRuns \in Nat
      /\ stop \in BOOLEAN /\ single \in BOOLEAN /\ runs \in 0 .. MaxRuns /\ temp \in BOOLEAN
      /\ restarts \in 0 .. MaxRestarts + 1 /\ (run \notin Terminal => restarts <= MaxRestarts)
  BY JobAssumption DEF JobInv, JobTypeOK, TypeOK, RestartsCounted
<1>2. CASE Start
  <2>1. /\ run \in Terminal /\ run' = "Probing" /\ single' = FALSE /\ stop' = FALSE
        /\ runs' \in 0 .. MaxRuns /\ restarts' \in 0 .. MaxRestarts + 1 /\ restarts' <= MaxRestarts
    BY <1>1, <1>2 DEF Start
  <2>2. UNCHANGED <<mode, segs, nextId, wk, target, disk, phase, fatal, remote, version,
                    persist, snap, temp, stable, saved, final, crashes>>
    BY <1>2 DEF Start
  <2> QED
    BY <1>1, <2>1, <2>2 DEF QuietRun
<1>3. CASE ProbeAnswers \/ ProbeEnds
  BY <1>1, <1>3 DEF ProbeAnswers, ProbeEnds, QuietRun, vars
<1>4. CASE OpenFails
  BY <1>1, <1>4 DEF OpenFails, QuietRun, vars
<1>5. CASE SpotCheck
  BY <1>1, <1>5 DEF SpotCheck, QuietRun, vars
<1>6. CASE Discard
  BY <1>1, <1>6 DEF Discard, QuietRun, vars
<1>7. CASE DiscardState
  BY <1>1, <1>7 DEF DiscardState, Restart, QuietRun, vars
<1>8. CASE ConcludeStopped
  BY <1>1, <1>8 DEF ConcludeStopped, QuietRun, vars
<1>14. CASE Delete
  <2>1. UNCHANGED <<vars, restarts, single, persist, snap, stable, final, runs, crashes>>
    BY <1>14 DEF Delete
  <2>2. run = "Deleting" /\ run' \in {"Deleting", "Cancelled"} /\ temp' = FALSE /\ saved' \in {saved, None}
    BY <1>14 DEF Delete
  <2> QED
    BY <1>1, <2>1, <2>2 DEF QuietRun, vars
<1>9. CASE ConcludeFatal
  BY <1>1, <1>9 DEF ConcludeFatal, QuietRun, vars
<1>10. CASE FinishSync
  BY <1>1, <1>10 DEF FinishSync, QuietRun, vars
<1>11. CASE Verify
  BY <1>1, <1>11 DEF Verify, QuietRun, vars
<1>12. CASE Rename
  BY <1>1, <1>12 DEF Rename, QuietRun, vars
<1>13. CASE FinishFails \/ CleanState
  BY <1>1, <1>13 DEF FinishFails, CleanState, QuietRun, vars
<1> QED
  BY <1>2, <1>3, <1>4, <1>5, <1>6, <1>7, <1>8, <1>9, <1>10, <1>11, <1>12, <1>13, <1>14

LEMMA QuietRunKeeps ==
  ASSUME JobInv, QuietRun
  PROVE  JobInv'
<1> USE DEF Terminal, Mapped
<1>1. persist = "no" /\ persist' = "no" /\ run # "Downloading" /\ run' # "Downloading"
  BY DEF JobInv, SnapSound, QuietRun
<1>2. TypeOK'
  BY DEF JobInv, JobTypeOK, TypeOK, QuietRun, ConnLimit, Segmented
<1>3. JobTypeOK'
  BY <1>1, <1>2 DEF JobInv, JobTypeOK, TypeOK, QuietRun
<1>4. AttemptSound' /\ SnapSound'
  BY <1>1 DEF JobInv, AttemptSound, SnapSound, QuietRun
<1>5. MapSound'
  BY <1>1 DEF JobInv, MapSound, QuietRun, RecordedIsWritten, StreamIsWhole, Ranges
<1>6. FilesSound'
  <2>1. ASSUME run' = "Verifying" PROVE \A b \in Bytes : disk[b] # Blank
    <3>1. run = "Closed" /\ IsComplete(segs)
      BY <2>1 DEF QuietRun
    <3>2. Recorded(segs) = Bytes
      BY <3>1, CompleteIsAll DEF JobInv, JobTypeOK
    <3> QED
      BY <3>1, <3>2 DEF JobInv, MapSound, RecordedIsWritten
  <2>2. run' = "Renaming" => stable' = disk /\ \A b \in Bytes : disk[b] # Blank
    BY DEF JobInv, FilesSound, QuietRun
  <2> QED
    BY <2>1, <2>2 DEF JobInv, FilesSound, QuietRun
<1>7. SavedSound' /\ RestartsCounted'
  BY DEF JobInv, SavedSound, RestartsCounted, QuietRun
<1>8. SavedIsDurable'
  <2> SUFFICES ASSUME saved # None, saved' = saved, temp, NEW b \in PersistedBytes(saved)
               PROVE  stable'[b] # Blank
    BY DEF SavedIsDurable, QuietRun
  <2>1. stable[b] # Blank
    BY DEF JobInv, SavedIsDurable
  <2>2. b \in Bytes
    BY RecordInside DEF JobInv, SavedSound, PersistedBytes
  <2> QED
    BY <2>1, <2>2 DEF JobInv, FilesSound, QuietRun
<1>9. FinalIsWhole'
  BY DEF JobInv, FinalIsWhole, FilesSound, QuietRun
<1> QED
  BY <1>3, <1>4, <1>5, <1>6, <1>7, <1>8, <1>9 DEF JobInv

LEMMA QuietRunAgrees ==
  ASSUME JobInv, JobVInv, QuietRun
  PROVE  JobVInv'
<1> USE DEF Terminal, Mapped
<1>1. /\ persist = "no" /\ persist' = "no"
      /\ remote' = remote /\ disk' = disk /\ version' \in {version, remote}
      /\ remote \in Nat /\ version \in Nat
  BY DEF JobInv, JobTypeOK, TypeOK, Versions, SnapSound, QuietRun
<1>2. ASSUME IfRange /\ ~ Edited PROVE JobVersions'
  <2>1. JobVersions
    BY <1>2 DEF JobVInv
  <2>2. version' <= remote'
    BY <1>1, <2>1 DEF JobVersions
  <2>3. run' \in Mapped => VInv'
    <3> SUFFICES ASSUME run' \in Mapped PROVE VInv'
      OBVIOUS
    <3>1. VInv /\ UNCHANGED <<mode, segs, disk, version, wk, remote>>
      BY <2>1 DEF JobVersions, QuietRun
    <3> QED
      BY <1>1, <3>1, TasksAgree
  <2>4. OneVersionSaved'
    <3> SUFFICES ASSUME saved' # None PROVE OneVersionSaved'
      BY DEF OneVersionSaved
    <3>1. saved' = saved /\ saved # None /\ saved.version \in Nat /\ OneVersionSaved
      BY <2>1 DEF JobInv, SavedSound, SavedState, Versions, JobVersions, QuietRun
    <3>2. temp' => \A b \in PersistedBytes(saved) :
                     \A v \in {disk[b], stable'[b]} : v = saved.version \/ saved.version < remote
      BY <3>1 DEF OneVersionSaved, QuietRun
    <3>3. run' = "Deciding" /\ temp' /\ saved.version = version' =>
            \A b \in PersistedBytes(saved) : disk[b] = version'
      BY <1>1, <3>1, <3>2 DEF QuietRun
    <3>4. run' \in Mapped => Ranges /\ Ranges' /\ saved.version = version'
      BY <3>1 DEF OneVersionSaved, QuietRun, Ranges
    <3> QED
      BY <1>1, <3>1, <3>2, <3>3, <3>4 DEF OneVersionSaved
  <2>5. run' \in {"Verifying", "Renaming"} => \A b, c \in Bytes : disk[b] = disk[c]
    <3>1. ASSUME run' = "Verifying" PROVE \A b, c \in Bytes : disk[b] = disk[c]
      <4>1. run = "Closed" /\ IsComplete(segs)
        BY <3>1 DEF QuietRun
      <4>2. Recorded(segs) = Bytes
        BY <4>1, CompleteIsAll DEF JobInv, JobTypeOK
      <4> QED
        BY <1>2, <2>1, <4>1, <4>2 DEF JobVersions, VInv, AnswersAgree, OneVersion
    <3>2. run' = "Renaming" => run = "Verifying"
      BY DEF QuietRun
    <3> QED
      BY <2>1, <3>1, <3>2 DEF JobVersions
  <2> QED
    BY <1>1, <2>2, <2>3, <2>4, <2>5 DEF JobVersions
<1>3. Announced /\ run' = "Renaming" => \A b \in Bytes : disk'[b] = version'
  BY <1>1 DEF QuietRun
<1>4. ~ Edited \/ Announced => FinalIsOneVersion'
  <2> SUFFICES ASSUME ~ Edited \/ Announced PROVE FinalIsOneVersion'
    OBVIOUS
  <2>1. CASE final' = final
    BY <2>1 DEF JobVInv, FinalIsOneVersion
  <2>2. CASE run = "Renaming" /\ final' = [data |-> disk, stable |-> stable]
    <3>1. IfRange \/ Announced => \A b, c \in Bytes : disk[b] = disk[c]
      BY <2>2 DEF JobVInv, JobVersions
    <3> QED
      BY <2>2, <3>1 DEF FinalIsOneVersion
  <2> QED
    BY <2>1, <2>2 DEF QuietRun
<1> QED
  BY <1>2, <1>3, <1>4 DEF JobVInv

(***************************************************************************)
(* The environment's steps                                                 *)
(***************************************************************************)

\* A stop or a new file on the server, at any moment.
Signal ==
  /\ UNCHANGED <<mode, segs, nextId, wk, target, disk, phase, fatal, version, jobVars>>
  /\ stop' \in BOOLEAN /\ (stop => stop')
  /\ remote' \in Versions /\ remote <= remote'

LEMMA SignalActions ==
  ASSUME JobInv, Stop \/ Replace
  PROVE  Signal
<1>1. stop \in BOOLEAN /\ remote \in Versions /\ remote \in Nat /\ LastVersion \in Nat
  BY WorkersAssumption DEF JobInv, JobTypeOK, TypeOK, Versions
<1>2. CASE Stop
  BY <1>1, <1>2 DEF Stop, Signal
<1>3. CASE Replace
  BY <1>1, <1>3 DEF Replace, Signal, Versions
<1> QED
  BY <1>2, <1>3

LEMMA SignalKeeps ==
  ASSUME JobInv, Signal
  PROVE  JobInv'
<1>1. UNCHANGED <<mode, segs, nextId, wk, target, disk, phase, fatal, version, jobVars>>
  BY DEF Signal
<1>2. TypeOK'
  BY <1>1 DEF JobInv, JobTypeOK, TypeOK, Signal, ConnLimit, Segmented
<1>3. JobTypeOK'
  BY <1>1, <1>2 DEF JobInv, JobTypeOK, jobVars
<1>4. AttemptSound'
  <2>1. CASE run = "Downloading"
    <3>1. IInv /\ (persist # "no" => phase = "Downloading")
      BY <2>1 DEF JobInv, AttemptSound
    <3>2. ClaimsStay
      BY <1>1 DEF ClaimsStay
    <3>3. ConnectionsBounded'
      <4>1. Live' = Live /\ ConnLimit' = ConnLimit
        BY <1>1 DEF Live, ConnLimit, Segmented
      <4> QED
        BY <3>1, <4>1 DEF IInv, ConnectionsBounded
    <3>4. NoEarlyEnd'
      BY <1>1, <3>1 DEF IInv, NoEarlyEnd, Signal
    <3>5. IInv'
      BY <1>1, <1>2, <3>1, <3>2, <3>3, <3>4, TasksOnly
    <3> QED
      BY <1>1, <2>1, <3>1, <3>5 DEF AttemptSound, jobVars
  <2>2. CASE run # "Downloading"
    BY <1>1, <2>2 DEF JobInv, AttemptSound, jobVars
  <2> QED
    BY <2>1, <2>2
<1>5. MapSound' /\ SnapSound'
  BY <1>1 DEF JobInv, MapSound, SnapSound, Mapped, RecordedIsWritten, StreamIsWhole, Ranges, jobVars
<1>6. SavedSound' /\ FilesSound' /\ RestartsCounted' /\ SavedIsDurable' /\ FinalIsWhole'
  BY <1>1 DEF JobInv, SavedSound, FilesSound, RestartsCounted, SavedIsDurable, FinalIsWhole, PersistedBytes,
     Terminal, jobVars
<1> QED
  BY <1>3, <1>4, <1>5, <1>6 DEF JobInv

LEMMA SignalAgrees ==
  ASSUME JobInv, JobVInv, Signal
  PROVE  JobVInv'
<1>1. /\ UNCHANGED <<mode, segs, nextId, wk, target, disk, phase, fatal, version, jobVars>>
      /\ remote \in Nat /\ remote' \in Nat /\ version \in Nat /\ remote <= remote'
  BY DEF JobInv, JobTypeOK, TypeOK, Versions, Signal
<1>2. ASSUME IfRange /\ ~ Edited PROVE JobVersions'
  <2>1. JobVersions
    BY <1>2 DEF JobVInv
  <2>2. run' \in Mapped => VInv'
    BY <1>1, <2>1, TasksAgree DEF JobVersions, jobVars, Mapped
  <2>3. OneVersionSaved'
    <3> SUFFICES ASSUME saved # None PROVE OneVersionSaved'
      BY <1>1 DEF OneVersionSaved, jobVars
    <3>1. saved.version \in Nat /\ OneVersionSaved
      BY <2>1 DEF JobInv, SavedSound, SavedState, Versions, JobVersions
    <3>2. saved.version < remote => saved.version < remote'
      BY <1>1, <3>1
    <3> QED
      BY <1>1, <3>1, <3>2 DEF OneVersionSaved, jobVars, PersistedBytes, Ranges, Mapped
  <2>4. persist = "synced" => \A b \in RecordedIn(snap) : Answered(stable[b])'
    BY <1>1, <2>1 DEF JobVersions, Answered, Segmented, jobVars
  <2>5. version' <= remote'
    BY <1>1, <2>1 DEF JobVersions
  <2> QED
    BY <1>1, <2>1, <2>2, <2>3, <2>4, <2>5 DEF JobVersions, Segmented, jobVars
<1> QED
  BY <1>1, <1>2 DEF JobVInv, FinalIsOneVersion, jobVars

\* A crash, with the power or without.
LEMMA CrashKeeps ==
  ASSUME JobInv, Crash
  PROVE  JobInv' /\ (JobVInv => JobVInv')
<1>1. /\ run' = "Off" /\ persist' = "no"
      /\ mode' = "ranged" /\ segs' = InitialMap(1) /\ nextId' = 1 /\ wk' = NoTasks /\ target' = 1
      /\ phase' = "Ended" /\ fatal' = FALSE /\ stop' = FALSE /\ crashes' = crashes + 1 /\ crashes < MaxCrashes
      /\ UNCHANGED <<remote, version, restarts, single, temp, stable, saved, final, runs>>
  BY DEF Crash
<1>2. PICK lost \in SUBSET {b \in Bytes : disk[b] # stable[b]} :
        disk' = [b \in Bytes |-> IF b \in lost THEN stable[b] ELSE disk[b]]
  BY DEF Crash
<1>3. \A b \in Bytes : disk'[b] = disk[b] \/ disk'[b] = stable[b]
  BY <1>2
<1>4. TypeOK'
  <2>1. nextId' \in Nat /\ DOMAIN segs' = 0 .. nextId' - 1 /\ \A i \in DOMAIN segs' : segs'[i] \in Segment(Workers)
    BY <1>1, SizeAssumption, OneInitialSegment DEF IsMap
  <2>2. wk' \in [Workers -> Worker]
    BY <1>1, TaskTypes DEF NoTasks
  <2>3. mode' \in Modes /\ target' \in 1 .. ConnLimit'
    BY <1>1, JobAssumption DEF ConnLimit, Segmented
  <2>4. disk' \in [Bytes -> Versions \cup {Blank}]
    BY <1>2 DEF JobInv, JobTypeOK, TypeOK
  <2> QED
    BY <1>1, <2>1, <2>2, <2>3, <2>4 DEF JobInv, JobTypeOK, TypeOK
<1>5. JobTypeOK'
  BY <1>1, <1>4, JobAssumption DEF JobInv, JobTypeOK, Terminal
<1>6. AttemptSound' /\ MapSound' /\ SnapSound' /\ RestartsCounted' /\ SavedSound'
  BY <1>1, TaskTypes DEF JobInv, AttemptSound, MapSound, SnapSound, RestartsCounted, SavedSound, Mapped, Terminal, NoTasks
<1>7. FilesSound' /\ SavedIsDurable' /\ FinalIsWhole'
  BY <1>1, <1>2 DEF JobInv, FilesSound, SavedIsDurable, FinalIsWhole, PersistedBytes
<1>8. ASSUME JobVInv PROVE JobVInv'
  <2>1. IfRange /\ ~ Edited => OneVersionSaved'
    <3> SUFFICES ASSUME IfRange, ~ Edited, saved # None PROVE OneVersionSaved'
      BY <1>1 DEF OneVersionSaved
    <3>1. OneVersionSaved
      BY <1>8 DEF JobVInv, JobVersions
    <3>2. PersistedBytes(saved) \subseteq Bytes
      BY RecordInside DEF JobInv, SavedSound, PersistedBytes
    <3>3. temp => \A b \in PersistedBytes(saved) :
                    \A v \in {disk'[b], stable[b]} : v = saved.version \/ saved.version < remote
      BY <1>3, <3>1, <3>2 DEF OneVersionSaved
    <3> QED
      BY <1>1, <3>1, <3>3 DEF OneVersionSaved, PersistedBytes, Mapped
  <2> QED
    BY <1>1, <1>8, <2>1 DEF JobVInv, JobVersions, FinalIsOneVersion, Mapped
<1> QED
  BY <1>5, <1>6, <1>7, <1>8 DEF JobInv

(***************************************************************************)
(* Deciding where to begin                                                 *)
(***************************************************************************)

\* Nobody is at work while an attempt is set up or concluded.
Resting ==
  /\ phase = "Ended" /\ target = 1
  /\ \A w \in Workers : wk[w].ph = "off"

LEMMA DecideResumeKeeps ==
  ASSUME JobInv, DecideResume
  PROVE  /\ JobInv' /\ (JobVInv => JobVInv')
         /\ Recorded(segs') = PersistedBytes(saved) /\ Persisted(segs') = saved.ranges
<1> USE DEF Mapped, Terminal
<1>1. /\ run = "Deciding" /\ Trusted /\ run' \in {"Preparing", "Checking"}
      /\ segs' = FromPersisted(saved.ranges) /\ nextId' = NextIdOf(segs')
      /\ mode' \in Modes /\ mode' # "stream" /\ (~ Edited => (mode' = "segmented") = saved.segmented)
      /\ UNCHANGED <<wk, target, disk, stop, phase, fatal, remote, version, restarts, single,
                     persist, snap, temp, stable, saved, final, runs, crashes>>
  BY DEF DecideResume, SameConns
<1>2. /\ saved # None /\ temp /\ (Comparable => saved.version = version)
      /\ saved \in SavedState /\ Recordable(saved.ranges)
  BY <1>1 DEF Trusted, JobInv, SavedSound
<1>3. /\ IsMap(segs', Workers) /\ WellFormed(segs') /\ DOMAIN segs' = 0 .. nextId' - 1
      /\ nextId' = Cardinality(saved.ranges) /\ nextId' \in Nat
      /\ Persisted(segs') = saved.ranges /\ Recorded(segs') = RecordedIn(saved.ranges)
      /\ \A i \in DOMAIN segs' : segs'[i].state # "Active"
  BY <1>1, <1>2, SizeAssumption, FromPersistedKeeps
<1>4. persist = "no" /\ Resting /\ Resting'
  BY <1>1 DEF JobInv, SnapSound, AttemptSound, Resting
<1>5. TypeOK'
  <2>1. target' \in 1 .. ConnLimit'
    BY <1>1, <1>4, WorkersAssumption DEF ConnLimit, Segmented, Resting
  <2>2. \A i \in DOMAIN segs' : segs'[i] \in Segment(Workers)
    BY <1>3 DEF IsMap
  <2> QED
    BY <1>1, <1>3, <2>1, <2>2 DEF JobInv, JobTypeOK, TypeOK
<1>6. JobTypeOK'
  BY <1>1, <1>5 DEF JobInv, JobTypeOK
<1>7. AttemptSound' /\ SnapSound' /\ SavedSound' /\ FilesSound' /\ RestartsCounted' /\ SavedIsDurable' /\ FinalIsWhole'
  BY <1>1, <1>4 DEF JobInv, AttemptSound, SnapSound, SavedSound, FilesSound, RestartsCounted,
     SavedIsDurable, FinalIsWhole, PersistedBytes, Resting
<1>8. MapSound'
  <2>1. \A b \in Recorded(segs') : b \in Bytes /\ disk'[b] # Blank
    BY <1>1, <1>2, <1>3, RecordInside DEF JobInv, SavedIsDurable, FilesSound, PersistedBytes
  <2> QED
    BY <1>1, <1>3, <2>1 DEF MapSound, RecordedIsWritten, StreamIsWhole, Ranges
<1>9. ASSUME JobVInv PROVE JobVInv'
  <2>1. ASSUME IfRange /\ ~ Edited PROVE JobVersions'
    <3>1. JobVersions /\ OneVersionSaved /\ saved.version = version
      BY <1>2, <1>9, <2>1, JobAssumption DEF JobVInv, JobVersions
    <3>2. \A b \in Recorded(segs') : disk'[b] = version'
      BY <1>1, <1>2, <1>3, <3>1 DEF OneVersionSaved, PersistedBytes
    <3>3. OneSegment'
      <4>1. mode' # "segmented" => nextId' = 1
        BY <1>1, <1>2, <1>3, <2>1, <3>1 DEF OneVersionSaved
      <4> QED
        BY <1>3, <4>1 DEF OneSegment, Segmented
    <3>4. OnePosition' /\ AnswersAgree'
      BY <1>4, <3>2 DEF OnePosition, AnswersAgree, OneVersion, Answered, Holding, Resting
    <3>5. VInv'
      BY <1>1, <3>1, <3>3, <3>4 DEF VInv, JobVersions
    <3>6. OneVersionSaved'
      BY <1>1, <3>1 DEF OneVersionSaved, PersistedBytes, Ranges
    <3> QED
      BY <1>1, <1>4, <3>5, <3>6, <3>1 DEF JobVersions
  <2> QED
    BY <1>1, <1>9, <2>1 DEF JobVInv, FinalIsOneVersion
<1> QED
  BY <1>3, <1>6, <1>7, <1>8, <1>9 DEF JobInv, PersistedBytes

LEMMA DecideFreshKeeps ==
  ASSUME JobInv, DecideFresh
  PROVE  JobInv' /\ (JobVInv => JobVInv')
<1> USE DEF Mapped, Terminal
<1>1. /\ run = "Deciding" /\ run' = "Opening" /\ saved' = None /\ mode' \in Modes
      /\ UNCHANGED <<segs, nextId, wk, target, disk, stop, phase, fatal, remote, version,
                     restarts, single, persist, snap, temp, stable, final, runs, crashes>>
  BY DEF DecideFresh, ModeFor
<1>2. persist = "no" /\ Resting /\ Resting'
  BY <1>1 DEF JobInv, SnapSound, AttemptSound, Resting
<1>3. TypeOK'
  <2>1. target' \in 1 .. ConnLimit'
    BY <1>1, <1>2, WorkersAssumption DEF ConnLimit, Segmented, Resting
  <2> QED
    BY <1>1, <2>1 DEF JobInv, JobTypeOK, TypeOK
<1>4. JobTypeOK'
  BY <1>1, <1>3 DEF JobInv, JobTypeOK
<1>5. AttemptSound' /\ MapSound' /\ SnapSound' /\ SavedSound' /\ FilesSound' /\ RestartsCounted'
      /\ SavedIsDurable' /\ FinalIsWhole'
  BY <1>1, <1>2 DEF JobInv, AttemptSound, MapSound, SnapSound, SavedSound, FilesSound, RestartsCounted,
     SavedIsDurable, FinalIsWhole, Resting
<1>6. JobVInv => JobVInv'
  BY <1>1, <1>2 DEF JobVInv, JobVersions, OneVersionSaved, FinalIsOneVersion
<1> QED
  BY <1>4, <1>5, <1>6 DEF JobInv

LEMMA OpenFreshKeeps ==
  ASSUME JobInv, OpenFresh
  PROVE  JobInv' /\ (JobVInv => JobVInv')
<1> USE DEF Mapped, Terminal
<1>1. /\ run = "Opening" /\ run' = "Preparing" /\ temp' = TRUE /\ disk' = Empty /\ stable' = Empty
      /\ segs' = InitialMap(FirstConns) /\ nextId' = NextIdOf(segs')
      /\ UNCHANGED <<mode, wk, target, stop, phase, fatal, remote, version, restarts, single,
                     persist, snap, saved, final, runs, crashes>>
  BY DEF OpenFresh
<1>2. persist = "no" /\ saved = None /\ Resting /\ Resting'
  BY <1>1 DEF JobInv, SnapSound, SavedSound, AttemptSound, Resting
<1>3. /\ IsMap(segs', Workers) /\ WellFormed(segs') /\ Recorded(segs') = {}
      /\ \A i \in DOMAIN segs' : segs'[i].state # "Active"
      /\ DOMAIN segs' = 0 .. SegmentCount(FirstConns) - 1 /\ nextId' = SegmentCount(FirstConns)
      /\ SegmentCount(FirstConns) \in Nat
  BY <1>1, SizeAssumption, ConstantTypes, InitialMapIsWellFormed, InitialMapIsFresh, SegmentCountBounds
<1>4. \A b \in Bytes : disk'[b] = Blank /\ stable'[b] = Blank
  BY <1>1 DEF Empty
<1>5. ~ Segmented => DOMAIN segs' = {0}
  <2>1. ~ Segmented => SegmentCount(FirstConns) = 1
    BY SizeAssumption, ConstantTypes DEF FirstConns, SegmentCount, MinOf, MaxOf
  <2> QED
    BY <1>3, <2>1
<1>6. TypeOK'
  <2>1. nextId' \in Nat /\ DOMAIN segs' = 0 .. nextId' - 1 /\ \A i \in DOMAIN segs' : segs'[i] \in Segment(Workers)
    BY <1>3 DEF IsMap
  <2>2. disk' \in [Bytes -> Versions \cup {Blank}]
    BY <1>1 DEF Empty
  <2> QED
    BY <1>1, <2>1, <2>2 DEF JobInv, JobTypeOK, TypeOK, ConnLimit, Segmented
<1>7. JobTypeOK'
  BY <1>1, <1>6 DEF JobInv, JobTypeOK, Empty
<1>8. AttemptSound' /\ SnapSound' /\ SavedSound' /\ FilesSound' /\ RestartsCounted' /\ SavedIsDurable' /\ FinalIsWhole'
  BY <1>1, <1>2, <1>4 DEF JobInv, AttemptSound, SnapSound, SavedSound, FilesSound, RestartsCounted,
     SavedIsDurable, FinalIsWhole, Resting
<1>9. MapSound'
  BY <1>1, <1>3, <1>5 DEF MapSound, RecordedIsWritten, StreamIsWhole, Ranges, Segmented
<1>10. ASSUME JobVInv PROVE JobVInv'
  <2>1. ASSUME JobVersions PROVE VInv'
    <3>1. OneSegment' /\ OnePosition' /\ AnswersAgree'
      BY <1>1, <1>2, <1>3, <1>5 DEF OneSegment, Segmented, OnePosition, AnswersAgree, OneVersion, Holding, Resting
    <3> QED
      BY <1>1, <2>1, <3>1 DEF JobVersions, VInv
  <2> QED
    BY <1>1, <1>2, <1>10, <2>1 DEF JobVInv, JobVersions, OneVersionSaved, FinalIsOneVersion
<1> QED
  BY <1>7, <1>8, <1>9, <1>10 DEF JobInv

(***************************************************************************)
(* Saving                                                                  *)
(***************************************************************************)

LEMMA SnapshotKeeps ==
  ASSUME JobInv, PersistSnapshot
  PROVE  JobInv' /\ (JobVInv => JobVInv')
<1> USE DEF Mapped, Terminal
<1>1. /\ run \in {"Preparing", "Downloading", "Closing"} /\ (run = "Downloading" => phase = "Downloading")
      /\ Ranges /\ persist' = "snapped" /\ snap' = Persisted(segs)
      /\ UNCHANGED <<mode, segs, nextId, wk, target, disk, stop, phase, fatal, remote, version>>
      /\ UNCHANGED <<vars, run, restarts, single, temp, stable, saved, final, runs, crashes>>
  BY DEF PersistSnapshot, MayPersist, vars
<1>2. IsMap(segs, Workers) /\ WellFormed(segs)
  BY <1>1, SegsIsMap DEF JobInv, JobTypeOK, MapSound
<1>3. Recordable(snap') /\ RecordedIn(snap') = Recorded(segs)
  BY <1>1, <1>2, SizeAssumption, PersistedIsRecordable
<1>4. JobTypeOK'
  BY <1>1, Unmoved DEF JobInv, JobTypeOK
<1>5. AttemptSound'
  BY <1>1, Unmoved DEF JobInv, AttemptSound
<1>6. MapSound'
  BY <1>1 DEF JobInv, MapSound, RecordedIsWritten, StreamIsWhole, Ranges
<1>7. SnapSound' /\ SavedSound' /\ FilesSound' /\ RestartsCounted' /\ SavedIsDurable' /\ FinalIsWhole'
  BY <1>1, <1>3 DEF JobInv, SnapSound, SavedSound, FilesSound, RestartsCounted, SavedIsDurable,
     FinalIsWhole, PersistedBytes, Ranges
<1>8. ASSUME JobVInv PROVE JobVInv'
  <2>1. ASSUME JobVersions PROVE VInv' /\ (~ Segmented' => Cardinality(snap') = 1)
    <3>1. VInv
      BY <1>1, <2>1 DEF JobVersions
    <3>2. ~ Segmented => DOMAIN segs = {0}
      BY <3>1 DEF VInv, OneSegment
    <3> QED
      BY <1>1, <3>1, <3>2, Unmoved, OneIsPersisted DEF Segmented
  <2> QED
    BY <1>1, <1>8, <2>1 DEF JobVInv, JobVersions, OneVersionSaved, FinalIsOneVersion, PersistedBytes, Ranges
<1> QED
  BY <1>4, <1>5, <1>6, <1>7, <1>8 DEF JobInv

LEMMA SyncKeeps ==
  ASSUME JobInv, PersistSync
  PROVE  JobInv' /\ (JobVInv => JobVInv')
<1> USE DEF Mapped, Terminal
<1>1. /\ persist = "snapped" /\ persist' = "synced" /\ stable' = disk
      /\ UNCHANGED <<mode, segs, nextId, wk, target, disk, stop, phase, fatal, remote, version>>
      /\ UNCHANGED <<vars, run, restarts, single, snap, temp, saved, final, runs, crashes>>
  BY DEF PersistSync, vars
<1>2. /\ run \in {"Preparing", "Downloading", "Closing"} /\ Ranges /\ Recordable(snap)
      /\ RecordedIn(snap) \subseteq Recorded(segs)
      /\ \A b \in Recorded(segs) : disk[b] # Blank
  BY <1>1 DEF JobInv, SnapSound, MapSound, RecordedIsWritten
<1>3. JobTypeOK'
  BY <1>1, Unmoved DEF JobInv, JobTypeOK, TypeOK
<1>4. AttemptSound'
  BY <1>1, Unmoved DEF JobInv, AttemptSound
<1>5. MapSound' /\ SnapSound'
  BY <1>1, <1>2 DEF JobInv, MapSound, SnapSound, RecordedIsWritten, StreamIsWhole, Ranges
<1>6. SavedSound' /\ FilesSound' /\ RestartsCounted' /\ FinalIsWhole'
  BY <1>1, <1>2 DEF JobInv, SavedSound, FilesSound, RestartsCounted, FinalIsWhole
<1>7. SavedIsDurable'
  <2>1. saved # None => PersistedBytes(saved) \subseteq Bytes
    BY RecordInside DEF JobInv, SavedSound, PersistedBytes
  <2> QED
    BY <1>1, <2>1 DEF JobInv, FilesSound, SavedIsDurable, PersistedBytes
<1>8. ASSUME JobVInv PROVE JobVInv'
  <2>1. ASSUME IfRange, ~ Edited PROVE JobVersions'
    <3>1. JobVersions /\ VInv
      BY <1>2, <1>8, <2>1 DEF JobVInv, JobVersions
    <3>2. VInv'
      BY <1>1, <3>1, Unmoved
    <3>3. \A b \in RecordedIn(snap) : Answered(disk[b])
      BY <1>2, <2>1, <3>1 DEF VInv, AnswersAgree
    <3>4. (\A b \in RecordedIn(snap) : Answered(stable[b]))'
      BY <1>1, <3>3 DEF Answered, Segmented
    <3>5. OneVersionSaved'
      BY <1>1, <3>1 DEF JobVersions, OneVersionSaved, PersistedBytes, Ranges
    <3> QED
      BY <1>1, <1>2, <3>1, <3>2, <3>4, <3>5 DEF JobVersions, Segmented
  <2> QED
    BY <1>1, <1>2, <1>8, <2>1 DEF JobVInv, FinalIsOneVersion
<1> QED
  BY <1>3, <1>4, <1>5, <1>6, <1>7, <1>8 DEF JobInv

\* What AfterPersist needs of the state: the attempt goes on to its workers or
\* to its end, or stays in the select loop, and the save is over.
Saving ==
  /\ run \in {"Preparing", "Downloading", "Closing"}
  /\ persist' = "no"
  /\ saved' \in SavedState \cup {None}
  /\ UNCHANGED <<mode, segs, nextId, disk, stop, remote, version, restarts, single,
                 temp, stable, final, runs, crashes>>

\* Before the first worker: the map is sound and nobody holds anything.
LEMMA WorkersBegin ==
  ASSUME JobInv, Saving, run = "Preparing", AfterPersist(TRUE)
  PROVE  /\ run' = "Downloading" /\ IInv'
         /\ \A w \in Workers : wk'[w].ph \notin Holding
<1>1. /\ run' = "Downloading" /\ phase' = "Downloading" /\ fatal' = FALSE /\ target' = FirstConns
      /\ UNCHANGED <<mode, segs, nextId, disk, stop, remote, version>>
  BY DEF AfterPersist, Saving
<1>2. PICK W \in SUBSET Workers : /\ Cardinality(W) = FirstConns
                                  /\ wk' = [w \in Workers |-> IF w \in W THEN Fresh ELSE Off]
  BY DEF AfterPersist
<1>3. /\ wk' \in [Workers -> Worker]
      /\ \A w \in Workers : wk'[w].ph \in {"loop", "off"} /\ (wk'[w].ph = "loop" <=> w \in W)
  BY <1>2, TaskTypes
<1>4. /\ TypeOK /\ WellFormed(segs) /\ RecordedIsWritten /\ StreamIsWhole
      /\ \A i \in DOMAIN segs : segs[i].state # "Active"
  BY DEF JobInv, JobTypeOK, MapSound, Mapped
<1>5. TypeOK'
  <2>1. target' \in 1 .. ConnLimit'
    BY <1>1, ConstantTypes DEF ConnLimit, FirstConns, Segmented
  <2> QED
    BY <1>1, <1>3, <1>4, <2>1 DEF TypeOK
<1>6. OwnersAgree' /\ WritesAreThere' /\ PositionsAgree'
  BY <1>1, <1>3, <1>4 DEF OwnersAgree, WritesAreThere, PositionsAgree, Holding
<1>7. WellFormed(segs') /\ RecordedIsWritten' /\ StreamIsWhole' /\ NoEarlyEnd'
  BY <1>1, <1>4 DEF RecordedIsWritten, StreamIsWhole, Ranges, NoEarlyEnd
<1>8. ConnectionsBounded'
  <2>1. Live' = W
    BY <1>3 DEF Live, Running, Holding
  <2>2. ConnLimit' = ConnLimit
    BY <1>1 DEF ConnLimit, Segmented
  <2> QED
    BY <1>2, <2>1, <2>2, ConstantTypes DEF ConnectionsBounded
<1> QED
  BY <1>1, <1>3, <1>5, <1>6, <1>7, <1>8 DEF IInv, Holding

\* What a save may leave in the state file.
SaveSound ==
  saved' = saved \/ /\ saved' # None /\ Recordable(saved'.ranges)
                    /\ \A b \in PersistedBytes(saved') : stable[b] # Blank

\* The steps that end a save, but for what they do inside the select loop.
LEMMA SavingKeeps ==
  ASSUME JobInv, Saving, SaveSound,
         \/ AfterPersist(run = "Preparing")
         \/ run = "Downloading" /\ run' = run /\ IInv'
  PROVE  JobInv'
<1> USE DEF Mapped, Terminal
<1>1. /\ run \in {"Preparing", "Downloading", "Closing"} /\ persist' = "no"
      /\ UNCHANGED <<mode, segs, nextId, disk, stop, remote, version, restarts, single,
                     temp, stable, final, runs, crashes>>
  BY DEF Saving
<1>2. \/ run' = "Downloading" /\ IInv'
      \/ run = "Closing" /\ run' = "Closed" /\ UNCHANGED <<phase, fatal, target, wk>>
  <2>1. CASE run = "Preparing"
    BY <2>1, WorkersBegin
  <2>2. CASE run = "Closing"
    BY <2>2 DEF AfterPersist
  <2>3. CASE run = "Downloading" /\ AfterPersist(run = "Preparing")
    <3>1. run' = "Downloading" /\ UNCHANGED vars
      BY <1>1, <2>3 DEF AfterPersist, vars
    <3> QED
      BY <2>3, <3>1, Unmoved DEF JobInv, AttemptSound
  <2> QED
    BY <1>1, <2>1, <2>2, <2>3
<1>3. TypeOK'
  <2>1. CASE IInv'
    BY <2>1 DEF IInv
  <2>2. CASE UNCHANGED <<phase, fatal, target, wk>>
    <3>1. UNCHANGED vars
      BY <1>1, <2>2 DEF vars
    <3> QED
      BY <3>1, Unmoved DEF JobInv, JobTypeOK
  <2> QED
    BY <1>2, <2>1, <2>2
<1>4. JobTypeOK'
  BY <1>1, <1>2, <1>3 DEF JobInv, JobTypeOK
<1>5. AttemptSound' /\ SnapSound'
  BY <1>1, <1>2 DEF JobInv, AttemptSound, SnapSound
<1>6. MapSound'
  BY <1>1, <1>2 DEF JobInv, MapSound, RecordedIsWritten, StreamIsWhole, Ranges
<1>7. FilesSound' /\ RestartsCounted' /\ FinalIsWhole'
  BY <1>1, <1>2 DEF JobInv, FilesSound, RestartsCounted, FinalIsWhole
<1>8. SavedSound' /\ SavedIsDurable'
  BY <1>1, <1>2 DEF JobInv, SavedSound, SavedIsDurable, PersistedBytes, Saving, SaveSound
<1> QED
  BY <1>4, <1>5, <1>6, <1>7, <1>8 DEF JobInv

\* What such a save may say of versions.
SaveAgrees ==
  saved' = saved \/ /\ saved'.version = version /\ Ranges
                    /\ ~ saved'.segmented => Cardinality(saved'.ranges) = 1
                    /\ \A b \in PersistedBytes(saved') : Answered(disk[b]) /\ Answered(stable[b])

LEMMA SavingAgrees ==
  ASSUME JobInv, JobVInv, Saving, IfRange /\ ~ Edited => SaveAgrees,
         run' \in {"Downloading", "Closed"},
         \A w \in Workers : wk'[w] = wk[w] \/ wk'[w].ph \notin Holding
  PROVE  JobVInv'
<1> USE DEF Mapped, Terminal
<1>1. /\ run \in {"Preparing", "Downloading", "Closing"} /\ persist' = "no"
      /\ UNCHANGED <<mode, segs, nextId, disk, stop, remote, version, restarts, single,
                     temp, stable, final, runs, crashes>>
  BY DEF Saving
<1>2. ASSUME IfRange /\ ~ Edited PROVE JobVersions'
  <2>1. JobVersions /\ VInv /\ OneVersionSaved /\ SaveAgrees
    BY <1>1, <1>2 DEF JobVInv, JobVersions
  <2>2. VInv'
    <3>1. version \in Nat /\ remote \in Nat
      BY DEF JobInv, JobTypeOK, TypeOK, Versions
    <3> QED
      BY <1>1, <2>1, <3>1, TasksAgree
  <2>3. OneVersionSaved'
    <3>1. CASE saved' = saved
      BY <1>1, <2>1, <3>1 DEF OneVersionSaved, PersistedBytes, Ranges
    <3>2. CASE saved' # saved
      BY <1>1, <2>1, <3>2 DEF SaveAgrees, OneVersionSaved, Answered, PersistedBytes, Ranges
    <3> QED
      BY <3>1, <3>2
  <2> QED
    BY <1>1, <2>1, <2>2, <2>3 DEF JobVersions
<1> QED
  BY <1>1, <1>2 DEF JobVInv, FinalIsOneVersion

\* Spawning and concluding give no task a claim.
LEMMA NoClaimsAfterPersist ==
  ASSUME JobInv, Saving, AfterPersist(run = "Preparing")
  PROVE  /\ run' \in {"Downloading", "Closed"}
         /\ \A w \in Workers : wk'[w] = wk[w] \/ wk'[w].ph \notin Holding
<1>1. CASE run = "Preparing"
  BY <1>1, WorkersBegin
<1>2. CASE run # "Preparing"
  BY <1>2 DEF AfterPersist, Saving
<1> QED
  BY <1>1, <1>2

LEMMA PersistSaveKeeps ==
  ASSUME JobInv, PersistSave
  PROVE  /\ JobInv' /\ (JobVInv => JobVInv')
         /\ run = "Closing" => saved' # None /\ PersistedBytes(saved') = Recorded(segs)
<1>1. /\ persist = "synced" /\ AfterPersist(run = "Preparing")
      /\ saved' = [ranges |-> snap, version |-> version, segmented |-> Segmented]
      /\ persist' = "no"
      /\ UNCHANGED <<mode, segs, nextId, disk, stop, remote, version,
                     restarts, single, temp, stable, final, runs, crashes>>
  BY DEF PersistSave
<1>2. /\ run \in {"Preparing", "Downloading", "Closing"} /\ Ranges
      /\ Recordable(snap) /\ RecordedIn(snap) \subseteq Recorded(segs)
      /\ run = "Closing" => RecordedIn(snap) = Recorded(segs)
      /\ \A b \in RecordedIn(snap) : stable[b] # Blank
  BY <1>1 DEF JobInv, SnapSound
<1>3. saved' \in SavedState /\ saved' # None
  <2>1. version \in Versions /\ Segmented \in BOOLEAN
    BY DEF JobInv, JobTypeOK, TypeOK, Segmented
  <2> QED
    BY <1>1, <1>2, <2>1, JobAssumption DEF SavedState, Recordable
<1>4. PersistedBytes(saved') = RecordedIn(snap)
  BY <1>1 DEF PersistedBytes
<1>5. Saving
  BY <1>1, <1>2, <1>3 DEF Saving
<1>6. SaveSound
  BY <1>1, <1>2, <1>3, <1>4 DEF SaveSound
<1>7. ASSUME JobVInv, IfRange /\ ~ Edited PROVE SaveAgrees
  <2>1. JobVersions /\ VInv
    BY <1>2, <1>7 DEF JobVInv, JobVersions, Mapped
  <2>2. \A b \in RecordedIn(snap) : Answered(disk[b]) /\ Answered(stable[b])
    BY <1>1, <1>2, <1>7, <2>1 DEF JobVersions, VInv, AnswersAgree
  <2>3. ~ Segmented => Cardinality(snap) = 1
    BY <1>1, <2>1 DEF JobVersions
  <2> QED
    BY <1>1, <1>2, <1>4, <2>2, <2>3 DEF SaveAgrees
<1> QED
  BY <1>1, <1>2, <1>3, <1>4, <1>5, <1>6, <1>7, SavingKeeps, SavingAgrees, NoClaimsAfterPersist

\* The ticker's failed save ends the select loop, wherever its workers are.
LEMMA LoopAborts ==
  ASSUME IInv, fatal' = TRUE, phase' = "Draining", wk' = IF stop THEN wk ELSE NoTasks,
         UNCHANGED <<mode, segs, nextId, target, disk, stop, remote, version>>
  PROVE  IInv'
<1>1. /\ wk \in [Workers -> Worker] /\ wk' \in [Workers -> Worker]
      /\ \A w \in Workers : wk'[w] = wk[w] \/ wk'[w].ph = "off"
      /\ ~ stop => \A w \in Workers : wk'[w].ph = "off"
  BY TaskTypes DEF IInv, TypeOK, NoTasks
<1>2. TypeOK'
  BY <1>1 DEF IInv, TypeOK, ConnLimit, Segmented
<1>3. ClaimsStay
  BY <1>1 DEF ClaimsStay, Holding
<1>4. ConnectionsBounded'
  <2>1. Live' \subseteq Live /\ ConnLimit' = ConnLimit
    BY <1>1 DEF Live, Running, Holding, ConnLimit, Segmented
  <2> QED
    BY <2>1, FewerConnections DEF IInv
<1>5. NoEarlyEnd'
  BY <1>1 DEF NoEarlyEnd
<1> QED
  BY <1>2, <1>3, <1>4, <1>5, TasksOnly

LEMMA PersistFailsKeeps ==
  ASSUME JobInv, PersistFails
  PROVE  JobInv' /\ (JobVInv => JobVInv')
<1>1. /\ persist # "no" /\ persist' = "no" /\ saved' = saved
      /\ UNCHANGED <<mode, segs, nextId, disk, stop, remote, version,
                     restarts, single, temp, stable, final, runs, crashes>>
  BY DEF PersistFails
<1>2. run \in {"Preparing", "Downloading", "Closing"}
  BY <1>1 DEF JobInv, SnapSound
<1>3. Saving /\ SaveSound /\ SaveAgrees
  BY <1>1, <1>2 DEF Saving, SaveSound, SaveAgrees, JobInv, SavedSound
<1>4. CASE run = "Downloading"
  <2>1. /\ run' = run /\ fatal' = TRUE /\ phase' = "Draining" /\ wk' = (IF stop THEN wk ELSE NoTasks)
        /\ target' = target
    BY <1>4 DEF PersistFails
  <2>2. IInv'
    BY <1>1, <1>4, <2>1, LoopAborts DEF JobInv, AttemptSound
  <2>3. \A w \in Workers : wk'[w] = wk[w] \/ wk'[w].ph \notin Holding
    BY <2>1, TaskTypes DEF NoTasks, Holding
  <2> QED
    BY <1>3, <1>4, <2>1, <2>2, <2>3, SavingKeeps, SavingAgrees
<1>5. CASE run # "Downloading"
  <2>1. AfterPersist(run = "Preparing")
    BY <1>5 DEF PersistFails
  <2> QED
    BY <1>3, <2>1, SavingKeeps, SavingAgrees, NoClaimsAfterPersist
<1> QED
  BY <1>4, <1>5

LEMMA SkipPersistKeeps ==
  ASSUME JobInv, SkipPersist
  PROVE  JobInv' /\ (JobVInv => JobVInv')
<1>1. /\ ~ Ranges /\ run \in {"Preparing", "Closing"} /\ AfterPersist(run = "Preparing")
      /\ UNCHANGED <<mode, segs, nextId, disk, stop, remote, version, restarts, single,
                     persist, snap, temp, stable, saved, final, runs, crashes>>
  BY DEF SkipPersist
<1>2. Saving /\ SaveSound /\ SaveAgrees
  BY <1>1 DEF Saving, SaveSound, SaveAgrees, JobInv, SavedSound, SnapSound
<1> QED
  BY <1>1, <1>2, SavingKeeps, SavingAgrees, NoClaimsAfterPersist

(***************************************************************************)
(* The workers at work                                                     *)
(***************************************************************************)

\* A step of the attempt takes nothing off the file, and what it puts there is
\* a version that some answer carried.
LEMMA StepWrites ==
  ASSUME IInv, Next
  PROVE  \A b \in Bytes : \/ disk'[b] = disk[b]
                          \/ \E w \in Workers : /\ wk[w].ph = "body"
                                                /\ disk'[b] = wk[w].src /\ disk'[b] \in Versions
<1>1. ASSUME NEW w \in Workers, Receive(w), NEW b \in Bytes
      PROVE  disk'[b] = disk[b] \/ (wk[w].ph = "body" /\ disk'[b] = wk[w].src /\ wk[w].src \in Versions)
  <2>1. PICK n \in 1 .. MaxWrite : disk' = WrittenAt(wk[w].pos, n, wk[w].src)
    BY <1>1 DEF Receive
  <2>2. wk[w].ph = "body" /\ wk[w].src \in Versions
    BY <1>1 DEF Receive, IInv, TypeOK, Worker
  <2> QED
    BY <2>1, <2>2 DEF WrittenAt
<1>2. ASSUME ~ \E w \in Workers : Receive(w) PROVE disk' = disk
  BY <1>2 DEF Next, WorkerStep, RunnerStep, LeaveOnStop, Retire, ClaimPending, ClaimSteal, LeaveIdle, Respond,
     Record, Complete, FailTransient, FailPermanent, Refresh, StopBody, Tick, ObserveStop, EndAttempt,
     JoinExited, JoinFatal, Drain, RequestStop, ReplaceRemote
<1> QED
  BY <1>1, <1>2

LEMMA DownloadingKeeps ==
  ASSUME JobInv, Downloading
  PROVE  JobInv' /\ (JobVInv => JobVInv')
<1> USE DEF Mapped, Terminal
<1>1. /\ run = "Downloading" /\ UNCHANGED jobVars
      /\ (\E w \in Workers : WorkerStep(w)) \/ (persist = "no" /\ RunnerStep)
  BY DEF Downloading
<1>2. Next /\ IInv /\ (persist # "no" => phase = "Downloading")
  BY <1>1 DEF Next, JobInv, AttemptSound
<1>3. IInv' /\ MapStep
  BY <1>2, StepKeeps
<1>4. UNCHANGED <<mode, version, remote>>
  BY <1>1 DEF WorkerStep, RunnerStep, LeaveOnStop, Retire, ClaimPending, ClaimSteal, LeaveIdle, Respond, Receive,
     Record, Complete, FailTransient, FailPermanent, Refresh, StopBody, Tick, ObserveStop, EndAttempt,
     JoinExited, JoinFatal, Drain
<1>5. persist # "no" => phase' = phase
  BY <1>1 DEF WorkerStep, LeaveOnStop, Retire, ClaimPending, ClaimSteal, LeaveIdle, Respond, Receive,
     Record, Complete, FailTransient, FailPermanent, Refresh, StopBody
<1>6. JobTypeOK'
  BY <1>1, <1>3 DEF JobInv, JobTypeOK, IInv, jobVars
<1>7. AttemptSound' /\ MapSound'
  BY <1>1, <1>2, <1>3, <1>5 DEF AttemptSound, MapSound, IInv, jobVars
<1>8. SnapSound'
  BY <1>1, <1>3, <1>4 DEF JobInv, SnapSound, MapStep, Ranges, jobVars
<1>9. FilesSound'
  <2>1. \A b \in Bytes : disk[b] # Blank => disk'[b] # Blank
    BY <1>2, StepWrites, ConstantTypes
  <2> QED
    BY <1>1, <2>1 DEF JobInv, FilesSound, jobVars
<1>10. SavedSound' /\ RestartsCounted' /\ SavedIsDurable' /\ FinalIsWhole'
  BY <1>1 DEF JobInv, SavedSound, RestartsCounted, SavedIsDurable, FinalIsWhole, PersistedBytes, jobVars
<1>11. ASSUME JobVInv PROVE JobVInv'
  <2>1. ASSUME IfRange, ~ Edited PROVE JobVersions'
    <3>1. JobVersions /\ VInv
      BY <1>1, <1>11, <2>1 DEF JobVInv, JobVersions
    <3>2. VInv'
      BY <1>2, <3>1, StepAgrees
    <3>3. OneVersionSaved'
      <4> SUFFICES ASSUME saved # None PROVE OneVersionSaved'
        BY <1>1 DEF OneVersionSaved, jobVars
      <4>1. OneVersionSaved /\ Ranges /\ saved.version = version
        BY <1>1, <3>1 DEF JobVersions, OneVersionSaved
      <4>2. PersistedBytes(saved) \subseteq Bytes
        BY RecordInside DEF JobInv, SavedSound, PersistedBytes
      <4>3. \A w \in Workers : wk[w].ph = "body" => wk[w].src = saved.version \/ saved.version < remote
        BY <2>1, <3>1, <4>1 DEF VInv, AnswersAgree, Answered
      <4>4. temp => \A b \in PersistedBytes(saved) : disk'[b] = saved.version \/ saved.version < remote
        BY <1>2, <4>1, <4>2, <4>3, StepWrites DEF OneVersionSaved
      <4> QED
        BY <1>1, <1>4, <4>1, <4>4 DEF OneVersionSaved, PersistedBytes, Ranges, jobVars
    <3> QED
      BY <1>1, <1>4, <3>1, <3>2, <3>3 DEF JobVersions, Answered, Segmented, jobVars
  <2> QED
    BY <1>1, <1>11, <2>1 DEF JobVInv, FinalIsOneVersion, jobVars
<1> QED
  BY <1>6, <1>7, <1>8, <1>9, <1>10, <1>11 DEF JobInv

LEMMA LoopEndsKeeps ==
  ASSUME JobInv, LoopEnds
  PROVE  JobInv' /\ (JobVInv => JobVInv')
<1> USE DEF Mapped, Terminal
<1>1. /\ run = "Downloading" /\ phase = "Ended" /\ run' = "Closing" /\ target' = 1
      /\ UNCHANGED <<mode, segs, nextId, wk, disk, stop, phase, fatal, remote, version, restarts, single,
                     persist, snap, temp, stable, saved, final, runs, crashes>>
  BY DEF LoopEnds
<1>2. persist = "no" /\ IInv /\ \A w \in Workers : wk[w].ph = "off"
  BY <1>1 DEF JobInv, AttemptSound, IInv, NoEarlyEnd
<1>3. TypeOK'
  BY <1>1, <1>2, WorkersAssumption DEF IInv, TypeOK, ConnLimit, Segmented
<1>4. JobTypeOK'
  BY <1>1, <1>3 DEF JobInv, JobTypeOK
<1>5. AttemptSound' /\ SnapSound'
  BY <1>1, <1>2 DEF AttemptSound, SnapSound
<1>6. MapSound'
  BY <1>1, <1>2 DEF IInv, MapSound, RecordedIsWritten, StreamIsWhole, Ranges
<1>7. SavedSound' /\ FilesSound' /\ RestartsCounted' /\ SavedIsDurable' /\ FinalIsWhole'
  BY <1>1 DEF JobInv, SavedSound, FilesSound, RestartsCounted, SavedIsDurable, FinalIsWhole, PersistedBytes
<1>8. ASSUME JobVInv PROVE JobVInv'
  <2>1. ASSUME JobVersions PROVE VInv'
    <3>1. VInv /\ version \in Nat /\ remote \in Nat
      BY <1>1, <2>1 DEF JobVersions, JobInv, JobTypeOK, TypeOK, Versions
    <3> QED
      BY <1>1, <3>1, TasksAgree
  <2> QED
    BY <1>1, <1>2, <1>8, <2>1 DEF JobVInv, JobVersions, OneVersionSaved, FinalIsOneVersion, PersistedBytes, Ranges
<1> QED
  BY <1>4, <1>5, <1>6, <1>7, <1>8 DEF JobInv

(***************************************************************************)
(* The theorems                                                            *)
(***************************************************************************)

LEMMA JobInitIsInvariant ==
  ASSUME JobInit
  PROVE  JobInv /\ JobVInv
<1> USE DEF Mapped, Terminal
<1>1. /\ mode = "ranged" /\ segs = InitialMap(1) /\ nextId = 1 /\ wk = NoTasks /\ target = 1
      /\ disk = Empty /\ stop = FALSE /\ phase = "Ended" /\ fatal = FALSE
      /\ remote = 1 /\ version = 1
      /\ run = "Off" /\ restarts = 0 /\ single = FALSE /\ persist = "no" /\ snap = {}
      /\ temp = FALSE /\ stable = Empty /\ saved = None /\ final = None
      /\ runs = 0 /\ crashes = 0
  BY DEF JobInit
<1>2. TypeOK
  <2>1. nextId \in Nat /\ DOMAIN segs = 0 .. nextId - 1 /\ \A i \in DOMAIN segs : segs[i] \in Segment(Workers)
    BY <1>1, OneInitialSegment DEF IsMap
  <2>2. wk \in [Workers -> Worker] /\ disk \in [Bytes -> Versions \cup {Blank}]
    BY <1>1, TaskTypes DEF NoTasks, Empty
  <2>3. mode \in Modes /\ target \in 1 .. ConnLimit /\ remote \in Versions /\ version \in Versions
    BY <1>1, JobAssumption, ConstantTypes DEF ConnLimit, Segmented
  <2> QED
    BY <1>1, <2>1, <2>2, <2>3 DEF TypeOK
<1>3. JobTypeOK
  <2>1. stable \in [Bytes -> Versions \cup {Blank}]
    BY <1>1 DEF Empty
  <2>2. restarts \in 0 .. MaxRestarts + 1 /\ runs \in 0 .. MaxRuns /\ crashes \in 0 .. MaxCrashes
    BY <1>1, JobAssumption
  <2> QED
    BY <1>1, <1>2, <2>1, <2>2 DEF JobTypeOK
<1>4. AttemptSound /\ MapSound /\ SnapSound /\ SavedSound /\ FilesSound /\ RestartsCounted
      /\ SavedIsDurable /\ FinalIsWhole
  BY <1>1, TaskTypes DEF AttemptSound, MapSound, SnapSound, SavedSound, FilesSound, RestartsCounted,
     SavedIsDurable, FinalIsWhole, NoTasks, Empty
<1>5. JobVInv
  BY <1>1 DEF JobVInv, JobVersions, OneVersionSaved, FinalIsOneVersion
<1> QED
  BY <1>3, <1>4, <1>5 DEF JobInv

LEMMA JobStepKeeps ==
  ASSUME JobInv, [JobNext]_allVars
  PROVE  JobInv' /\ (JobVInv => JobVInv')
<1>1. CASE UNCHANGED allVars
  <2>1. UNCHANGED <<mode, segs, nextId, wk, target, disk, phase, fatal, version, jobVars>>
        /\ stop' = stop /\ remote' = remote
    BY <1>1 DEF allVars, vars
  <2>2. stop \in BOOLEAN /\ remote \in Versions /\ remote \in Nat
    BY DEF JobInv, JobTypeOK, TypeOK, Versions
  <2>3. Signal
    BY <2>1, <2>2 DEF Signal
  <2> QED
    BY <2>3, SignalKeeps, SignalAgrees
<1>2. CASE \/ Start \/ ProbeAnswers \/ ProbeEnds \/ OpenFails \/ SpotCheck \/ Discard \/ DiscardState
           \/ ConcludeStopped \/ Delete \/ ConcludeFatal
           \/ FinishSync \/ Verify \/ Rename \/ FinishFails \/ CleanState
  <2>1. QuietRun
    BY <1>2, QuietActions
  <2> QED
    BY <2>1, QuietRunKeeps, QuietRunAgrees
<1>3. CASE DecideResume \/ DecideFresh \/ OpenFresh
  BY <1>3, DecideResumeKeeps, DecideFreshKeeps, OpenFreshKeeps
<1>4. CASE PersistSnapshot \/ PersistSync
  BY <1>4, SnapshotKeeps, SyncKeeps
<1>5. CASE PersistSave \/ PersistFails \/ SkipPersist
  BY <1>5, PersistSaveKeeps, PersistFailsKeeps, SkipPersistKeeps
<1>6. CASE Downloading \/ LoopEnds
  BY <1>6, DownloadingKeeps, LoopEndsKeeps
<1>7. CASE Stop \/ Replace
  <2>1. Signal
    BY <1>7, SignalActions
  <2> QED
    BY <2>1, SignalKeeps, SignalAgrees
<1>8. CASE Crash
  BY <1>8, CrashKeeps
<1> QED
  BY <1>1, <1>2, <1>3, <1>4, <1>5, <1>6, <1>7, <1>8 DEF JobNext

\* A run of the download over any number of runs, restarts and crashes, with
\* its workers, saves and files, stays sound.
THEOREM JobInvariant == JobSpec => []JobInv
<1>1. JobInit => JobInv
  BY JobInitIsInvariant
<1>2. JobInv /\ [JobNext]_allVars => JobInv'
  BY JobStepKeeps
<1> QED
  BY <1>1, <1>2, PTL DEF JobSpec

\* Types.
THEOREM JobTypeCorrect == JobSpec => []JobTypeOK
<1>1. JobInv => JobTypeOK
  BY DEF JobInv
<1> QED
  BY <1>1, JobInvariant, PTL

\* "Positions recorded are therefore always backed by durable bytes"
\* (storage.rs): persist takes its snapshot before it syncs.
THEOREM SavedBytesAreDurable == JobSpec => []SavedIsDurable
<1>1. JobInv => SavedIsDurable
  BY DEF JobInv
<1> QED
  BY <1>1, JobInvariant, PTL

\* Nothing that was never written counts as done, even after a power loss in
\* the middle of a save.
THEOREM ResumedBytesAreWritten == JobSpec => []ResumedIsWritten
<1>1. JobInv => ResumedIsWritten
  BY DEF JobInv, MapSound, Mapped, ResumedIsWritten
<1> QED
  BY <1>1, JobInvariant, PTL

\* The final name is given to whole and durable files only (finish, finalize).
THEOREM FinishedIsWhole == JobSpec => []FinalIsWhole
<1>1. JobInv => FinalIsWhole
  BY DEF JobInv
<1> QED
  BY <1>1, JobInvariant, PTL

\* A finished file is one version of the remote one, however often that was
\* replaced: If-Range keeps ranges of another version out of the file, decide
\* keeps a state of another version out of the map.  Without a checksum this
\* needs the connection count to stay as it is between two runs (Job_edited
\* shows why).
THEOREM FinishedIsOneVersion ==
  ASSUME ~ Edited \/ Announced
  PROVE  JobSpec => []FinalIsOneVersion
<1>1. JobInit => JobInv /\ JobVInv
  BY JobInitIsInvariant
<1>2. JobInv /\ JobVInv /\ [JobNext]_allVars => (JobInv /\ JobVInv)'
  BY JobStepKeeps
<1>3. JobVInv => FinalIsOneVersion
  BY DEF JobVInv
<1> QED
  BY <1>1, <1>2, <1>3, PTL DEF JobSpec

\* Resuming takes up every recorded byte, as the same segments (from_persisted).
THEOREM ResumingTakesUp == JobSpec => ResumeTakesUp
<1>1. JobInv /\ [JobNext]_allVars =>
        [run = "Deciding" /\ run' \in {"Preparing", "Checking"} =>
           Recorded(segs') = PersistedBytes(saved) /\ Persisted(segs') = saved.ranges]_allVars
  <2> SUFFICES ASSUME JobInv, JobNext, run = "Deciding", run' \in {"Preparing", "Checking"}
               PROVE  Recorded(segs') = PersistedBytes(saved) /\ Persisted(segs') = saved.ranges
    OBVIOUS
  <2>1. DecideResume
    BY DEF JobNext, Start, ProbeAnswers, ProbeEnds, DecideFresh, OpenFresh, OpenFails, SpotCheck, Discard,
       DiscardState, PersistSnapshot, PersistSync, PersistSave, PersistFails, SkipPersist, AfterPersist,
       Downloading, LoopEnds, ConcludeStopped, Delete, ConcludeFatal, FinishSync, Verify, Rename, FinishFails,
       CleanState, Stop, Replace, Crash, jobVars, JobInv, SnapSound, Terminal
  <2> QED
    BY <2>1, DecideResumeKeeps
<1> QED
  BY <1>1, JobInvariant, PTL DEF JobSpec, ResumeTakesUp

\* The last save of a stopped attempt records all that its workers did.
THEOREM PausingKeepsProgress == JobSpec => PauseKeepsProgress
<1>1. JobInv /\ [JobNext]_allVars =>
        [run # "Closed" /\ run' = "Closed" /\ stop' /\ Ranges /\ ~PersistFails =>
           saved' # None /\ PersistedBytes(saved') = Recorded(segs')]_allVars
  <2> SUFFICES ASSUME JobInv, JobNext, run # "Closed", run' = "Closed", Ranges, ~PersistFails
               PROVE  saved' # None /\ PersistedBytes(saved') = Recorded(segs')
    OBVIOUS
  <2>1. PersistSave
    BY DEF JobNext, Start, ProbeAnswers, ProbeEnds, DecideResume, DecideFresh, OpenFresh, OpenFails, SpotCheck,
       Discard, DiscardState, Restart, PersistSnapshot, PersistSync, SkipPersist,
       Downloading, LoopEnds, ConcludeStopped, Delete, ConcludeFatal, FinishSync, Verify, Rename, FinishFails,
       CleanState, Stop, Replace, Crash, jobVars
  <2>2. run = "Closing" /\ segs' = segs
    BY <2>1 DEF PersistSave, AfterPersist, JobInv, SnapSound
  <2> QED
    BY <2>1, <2>2, PersistSaveKeeps
<1> QED
  BY <1>1, JobInvariant, PTL DEF JobSpec, PauseKeepsProgress
=============================================================================
