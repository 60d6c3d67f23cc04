--------------------------- MODULE KuHttpWorkers ---------------------------
(***************************************************************************)
(* The download phase of one KuHTTP attempt: the workers of worker.rs, the *)
(* segment map they share and the select loop of Runner::attempt that      *)
(* spawns, joins and aborts them (download.rs).                            *)
(*                                                                         *)
(* Simplifications:                                                        *)
(*  - A body is received in pieces: Receive is "read chunks, truncate them *)
(*    to end_of, write_at" and Record is the advance that follows it.  The *)
(*    map lock is free in between, as in the code, so a split can move the *)
(*    boundary inside a write that is under way.                           *)
(*  - Backoff sleeps, rate limits and events take no step.                 *)
(*  - A worker slot is reused by a later spawn; the code counts wids up.   *)
(*  - Versions of the remote file have the same size: a different size is  *)
(*    always noticed, an equal one is the hard case.                       *)
(***************************************************************************)
EXTENDS SegmentMap, TLC

CONSTANTS
  Workers,     \* slots for the tasks of the JoinSet
  Modes,       \* the modes an attempt may start in
  Initial,     \* connections at the start of a segmented attempt
  MaxConn,     \* its upper bound (Controller::max)
  MaxWrite,    \* most bytes of one positional write (buffer plus a chunk)
  MaxRefresh,  \* renewals of an expired redirect target per worker (3)
  IfRange,     \* the validators are strong enough for If-Range
  LastVersion, \* bound: the remote file is replaced at most LastVersion - 1 times
  Blank        \* content of a byte never written

ASSUME WorkersAssumption ==
  /\ NoWorker \notin Workers
  /\ IsFiniteSet(Workers)
  /\ Modes \subseteq {"segmented", "ranged", "stream"}
  /\ IfRange \in BOOLEAN
  /\ Initial \in Nat \ {0} /\ MaxConn \in Nat \ {0}
  /\ Initial <= MaxConn /\ MaxConn <= Cardinality(Workers)
  /\ MaxWrite \in Nat \ {0} /\ MaxRefresh \in Nat
  /\ LastVersion \in Nat \ {0}
  /\ Blank \notin 1 .. LastVersion

Versions == 1 .. LastVersion

VARIABLES
  mode,     \* Job::ranges and Job::segmented, see below
  segs,     \* Job::map
  nextId,   \* SegmentMap::next_id
  wk,       \* the worker tasks
  target,   \* Job::target
  disk,     \* content of the temporary file, byte by byte
  stop,     \* the control channel holds Pause or Cancel
  phase,    \* the select loop: Downloading, Draining (joining the rest), Ended
  fatal,    \* the attempt ends with an error
  remote,   \* version the server serves now
  version   \* version the attempt's probe saw

vars == <<mode, segs, nextId, wk, target, disk, stop, phase, fatal, remote, version>>

\* A task: where its loop is, its claim, the local position of fetch, the
\* bytes of the write under way, the version its response carries, and how
\* often it renewed the redirect target.
Unclaimed(ph, refreshes) ==
  [ph |-> ph, seg |-> 0, pos |-> 0, len |-> 0, src |-> 1, refreshes |-> refreshes]

Off == Unclaimed("off", 0)
Fresh == Unclaimed("loop", 0)

Holding == {"request", "body", "write"}
Running == Holding \cup {"loop"}

\* ConnStats::workers.
Live == {w \in Workers : wk[w].ph \in Running}

\* segmented: parallel range requests.  ranged: one connection for a small
\* file, its interrupted stream resumes with a range.  stream: the server has
\* no usable ranges and an interrupted stream starts over.
Segmented == mode = "segmented"
Ranges == mode # "stream"
FirstConns == IF Segmented THEN Initial ELSE 1
ConnLimit == IF Segmented THEN MaxConn ELSE 1

RangedRequest(w) == Segmented \/ wk[w].pos > 0

-----------------------------------------------------------------------------

Init ==
  /\ mode \in Modes
  /\ segs = InitialMap(FirstConns)
  /\ nextId = NextIdOf(segs)
  /\ \E W \in SUBSET Workers : Cardinality(W) = FirstConns
                               /\ wk = [w \in Workers |-> IF w \in W THEN Fresh ELSE Off]
  /\ target = FirstConns
  /\ disk = [b \in Bytes |-> Blank]
  /\ stop = FALSE /\ phase = "Downloading" /\ fatal = FALSE
  /\ remote = 1 /\ version = 1

-----------------------------------------------------------------------------
(* worker::run, the top of the loop *)

\* Job::stopping: the task returns.  The code leaves it in the count of running
\* workers, which nobody acts on any more: with stop set no tick spawns, and
\* retiring for being one too many is leaving all the same.
LeaveOnStop(w) ==
  /\ wk[w].ph = "loop" /\ stop
  /\ wk' = [wk EXCEPT ![w].ph = "exited"]
  /\ UNCHANGED <<mode, segs, nextId, target, disk, stop, phase, fatal, remote, version>>

\* try_retire: atomically, if more are running than the target.
Retire(w) ==
  /\ wk[w].ph = "loop" /\ ~stop
  /\ Cardinality(Live) > target
  /\ wk' = [wk EXCEPT ![w].ph = "exited"]
  /\ UNCHANGED <<mode, segs, nextId, target, disk, stop, phase, fatal, remote, version>>

MayClaim(w) == wk[w].ph = "loop" /\ ~stop /\ Cardinality(Live) <= target

Claimed(w, i, pos) == [wk EXCEPT ![w].ph = "request", ![w].seg = i, ![w].pos = pos]

\* Pending work.  Without ranges an interrupted stream is rewound to its
\* start under the same lock.
ClaimPending(w) ==
  /\ MayClaim(w)
  /\ \E i \in DOMAIN segs :
       /\ IsNextPending(segs, i)
       /\ LET taken == TakePending(segs, i, w)
              rewound == ~Ranges /\ segs[i].pos > 0
          IN  /\ segs' = IF rewound THEN Rewind(taken, i) ELSE taken
              /\ wk' = Claimed(w, i, IF rewound THEN 0 ELSE segs[i].pos)
  /\ UNCHANGED <<mode, nextId, target, disk, stop, phase, fatal, remote, version>>

\* Mutated form: the thief's segment does not use up its id.
ClaimStealSameId(w) ==
  /\ MayClaim(w)
  /\ \E i \in DOMAIN segs :
       /\ IsVictim(segs, i) /\ CanSplit(segs[i])
       /\ segs' = Steal(segs, i, w, nextId)
       /\ wk' = Claimed(w, nextId, SplitPoint(segs[i]))
  /\ UNCHANGED <<mode, nextId, target, disk, stop, phase, fatal, remote, version>>

\* Otherwise the back half of the largest rest of another worker.
ClaimSteal(w) ==
  /\ MayClaim(w)
  /\ \E i \in DOMAIN segs :
       /\ IsVictim(segs, i) /\ CanSplit(segs[i])
       /\ segs' = Steal(segs, i, w, nextId)
       /\ wk' = Claimed(w, nextId, SplitPoint(segs[i]))
  /\ nextId' = nextId + 1
  /\ UNCHANGED <<mode, target, disk, stop, phase, fatal, remote, version>>

NothingToClaim ==
  PendingWork(segs) = {} /\ \A i \in DOMAIN segs : IsVictim(segs, i) => ~CanSplit(segs[i])

LeaveIdle(w) ==
  /\ MayClaim(w) /\ NothingToClaim
  /\ wk' = [wk EXCEPT ![w].ph = "exited"]
  /\ UNCHANGED <<mode, segs, nextId, target, disk, stop, phase, fatal, remote, version>>

-----------------------------------------------------------------------------
(* worker::fetch *)

\* Mutated form: requests carry no If-Range.
RespondUnconditional(w) ==
  /\ wk[w].ph = "request"
  /\ wk' = [wk EXCEPT ![w].ph = "body", ![w].src = remote]
  /\ UNCHANGED <<mode, segs, nextId, target, disk, stop, phase, fatal, remote, version>>

\* validate_partial: a range request with If-Range is only honoured while the
\* file is the one that was probed (a 200 is refused); a plain GET takes what
\* is there.
Honoured(w) == RangedRequest(w) /\ IfRange => remote = version

\* The server answers.
Respond(w) ==
  /\ wk[w].ph = "request" /\ Honoured(w)
  /\ wk' = [wk EXCEPT ![w].ph = "body", ![w].src = remote]
  /\ UNCHANGED <<mode, segs, nextId, target, disk, stop, phase, fatal, remote, version>>

\* Storage::write_at: n bytes of file src at position pos.
WrittenAt(pos, n, src) ==
  [b \in Bytes |-> IF b \in Span(pos, pos + n) THEN src ELSE disk[b]]

\* flush, first half: up to MaxWrite bytes, cut at the segment's end, are
\* written at the local position.  The end is read for every chunk that is
\* buffered and not again at the flush, and only this worker's buffer knows:
\* the step is taken when the write's last byte is buffered, and a split that
\* follows before the bytes are on disk comes between it and Record.
Receive(w) ==
  /\ wk[w].ph = "body"
  /\ \E n \in 1 .. MaxWrite :
       /\ wk[w].pos + n <= EndOf(segs, wk[w].seg)
       /\ disk' = WrittenAt(wk[w].pos, n, wk[w].src)
       /\ wk' = [wk EXCEPT ![w].ph = "write", ![w].len = n]
  /\ UNCHANGED <<mode, segs, nextId, target, stop, phase, fatal, remote, version>>

\* flush, second half: advance the map; the local position moves by all that
\* was written even when a split made the map accept less.
Record(w) ==
  /\ wk[w].ph = "write"
  /\ segs' = Advance(segs, wk[w].seg, wk[w].pos, wk[w].len)
  /\ wk' = [wk EXCEPT ![w].ph = "body", ![w].pos = @ + wk[w].len, ![w].len = 0]
  /\ UNCHANGED <<mode, nextId, target, disk, stop, phase, fatal, remote, version>>

Freed(w, ph) == [wk EXCEPT ![w] = Unclaimed(ph, wk[w].refreshes)]

\* The (possibly shortened) segment is fully written.
Complete(w) ==
  /\ wk[w].ph = "body" /\ wk[w].pos >= EndOf(segs, wk[w].seg)
  /\ segs' = Release(segs, wk[w].seg, FALSE)
  /\ wk' = Freed(w, "loop")
  /\ UNCHANGED <<mode, nextId, target, disk, stop, phase, fatal, remote, version>>

\* A transient error: back to the loop while the segment's budget lasts.
FailTransient(w) ==
  /\ wk[w].ph \in {"request", "body"}
  /\ segs' = Release(segs, wk[w].seg, TRUE)
  /\ wk' = Freed(w, IF RetriesOf(segs', wk[w].seg) > MaxRetries THEN "fatal" ELSE "loop")
  /\ UNCHANGED <<mode, nextId, target, disk, stop, phase, fatal, remote, version>>

\* A 200 to a range request, another size, a full disk, a refused status ...
FailPermanent(w) ==
  /\ wk[w].ph \in Holding
  /\ segs' = Release(segs, wk[w].seg, TRUE)
  /\ wk' = Freed(w, "fatal")
  /\ UNCHANGED <<mode, nextId, target, disk, stop, phase, fatal, remote, version>>

\* The redirect target expired and the original URL was resolved again, by
\* this worker or by another one before it.  When that fails (another file is
\* behind it by now, or no answer) the worker ends: FailPermanent.
Refresh(w) ==
  /\ wk[w].ph = "request" /\ wk[w].refreshes < MaxRefresh
  /\ segs' = Release(segs, wk[w].seg, TRUE)
  /\ wk' = [wk EXCEPT ![w] = Unclaimed("loop", wk[w].refreshes + 1)]
  /\ UNCHANGED <<mode, nextId, target, disk, stop, phase, fatal, remote, version>>

\* The body loop sees the stop flag with its buffer flushed.
StopBody(w) ==
  /\ wk[w].ph = "body" /\ stop
  /\ segs' = Release(segs, wk[w].seg, TRUE)
  /\ wk' = Freed(w, "exited")
  /\ UNCHANGED <<mode, nextId, target, disk, stop, phase, fatal, remote, version>>

-----------------------------------------------------------------------------
(* Runner::attempt, the select loop *)

\* The free slots (a task that left keeps its slot until it is joined).
Idle == {w \in Workers : wk[w].ph = "off"}

\* Mutated form: running workers are not counted.
TickUncounted ==
  /\ phase = "Downloading"
  /\ \E t \in 1 .. ConnLimit, W \in SUBSET Idle :
       /\ target' = t
       /\ Cardinality(W) = IF ~stop /\ HasWork(segs) THEN MinOf(t, Cardinality(Idle)) ELSE 0
       /\ wk' = [w \in Workers |-> IF w \in W THEN Fresh ELSE wk[w]]
  /\ UNCHANGED <<mode, segs, nextId, disk, stop, phase, fatal, remote, version>>

\* The ticker: a new target from the controller, and workers up to it while
\* the map has work for them.
Tick ==
  /\ phase = "Downloading"
  /\ \E t \in 1 .. ConnLimit, W \in SUBSET Idle :
       /\ target' = t
       /\ Cardinality(W) = IF ~stop /\ HasWork(segs) /\ Cardinality(Live) < t
                           THEN MinOf(t - Cardinality(Live), Cardinality(Idle)) ELSE 0
       /\ wk' = [w \in Workers |-> IF w \in W THEN Fresh ELSE wk[w]]
  /\ UNCHANGED <<mode, segs, nextId, disk, stop, phase, fatal, remote, version>>

\* Mutated form: the first task to leave ends the loop.
JoinExitedEarly(w) ==
  /\ phase = "Downloading" /\ wk[w].ph = "exited"
  /\ wk' = [wk EXCEPT ![w] = Off]
  /\ phase' = "Draining"
  /\ UNCHANGED <<mode, segs, nextId, target, disk, stop, fatal, remote, version>>

\* join_next returns a task that left.  When it was the last one and work
\* remains, one is kept going.
JoinExited(w) ==
  /\ phase = "Downloading" /\ wk[w].ph = "exited"
  /\ LET last == \A v \in Workers \ {w} : wk[v].ph = "off"
         over == IsComplete(segs) \/ stop
     IN  /\ wk' = [wk EXCEPT ![w] = IF last /\ ~over THEN Fresh ELSE Off]
         /\ phase' = IF last /\ over THEN "Draining" ELSE phase
  /\ UNCHANGED <<mode, segs, nextId, target, disk, stop, fatal, remote, version>>

\* join_next returns a fatal error: the rest is aborted wherever it is,
\* unless it is stopping by itself.
JoinFatal(w) ==
  /\ phase = "Downloading" /\ wk[w].ph = "fatal"
  /\ fatal' = TRUE /\ phase' = "Draining"
  /\ wk' = [v \in Workers |-> IF v = w \/ ~stop THEN Off ELSE wk[v]]
  /\ UNCHANGED <<mode, segs, nextId, target, disk, stop, remote, version>>

ObserveStop ==
  /\ phase = "Downloading" /\ stop
  /\ phase' = "Draining"
  /\ UNCHANGED <<mode, segs, nextId, wk, target, disk, stop, fatal, remote, version>>

\* Joining the tasks that are left, whatever they return.
Drain(w) ==
  /\ phase = "Draining" /\ wk[w].ph \in {"exited", "fatal"}
  /\ wk' = [wk EXCEPT ![w] = Off]
  /\ UNCHANGED <<mode, segs, nextId, target, disk, stop, phase, fatal, remote, version>>

EndAttempt ==
  /\ phase = "Draining" /\ \A w \in Workers : wk[w].ph = "off"
  /\ phase' = "Ended"
  /\ UNCHANGED <<mode, segs, nextId, wk, target, disk, stop, fatal, remote, version>>

-----------------------------------------------------------------------------
(* The environment *)

\* KuHttpEngine::pause or cancel.
RequestStop ==
  /\ phase # "Ended" /\ ~stop
  /\ stop' = TRUE
  /\ UNCHANGED <<mode, segs, nextId, wk, target, disk, phase, fatal, remote, version>>

\* The file is replaced on the server.
ReplaceRemote ==
  /\ phase # "Ended" /\ remote < LastVersion
  /\ remote' = remote + 1
  /\ UNCHANGED <<mode, segs, nextId, wk, target, disk, stop, phase, fatal, version>>

-----------------------------------------------------------------------------

WorkerStep(w) ==
  \/ LeaveOnStop(w) \/ Retire(w) \/ ClaimPending(w) \/ ClaimSteal(w) \/ LeaveIdle(w)
  \/ Respond(w) \/ Receive(w) \/ Record(w) \/ Complete(w)
  \/ FailTransient(w) \/ FailPermanent(w) \/ Refresh(w) \/ StopBody(w)

RunnerStep == Tick \/ ObserveStop \/ EndAttempt
              \/ \E w \in Workers : JoinExited(w) \/ JoinFatal(w) \/ Drain(w)

Next == (\E w \in Workers : WorkerStep(w)) \/ RunnerStep \/ RequestStop \/ ReplaceRemote

Spec == Init /\ [][Next]_vars

\* The runtime schedules every ready task; reading a response is bounded by
\* connect and read timeouts, so a request or a body goes on or fails.  A
\* claim needs strong fairness: ticks are half a second apart and a worker at
\* the top of its loop does not wait, so it is not retired every time.
WorkerFairness(w) ==
  /\ WF_vars(LeaveOnStop(w) \/ Retire(w) \/ LeaveIdle(w))
  /\ SF_vars(ClaimPending(w) \/ ClaimSteal(w))
  /\ WF_vars(Respond(w) \/ FailTransient(w) \/ FailPermanent(w))
  /\ WF_vars(Receive(w) \/ Complete(w) \/ StopBody(w) \/ FailTransient(w))
  /\ WF_vars(Record(w))

RunnerFairness ==
  /\ WF_vars(ObserveStop) /\ WF_vars(EndAttempt)
  /\ \A w \in Workers : WF_vars(JoinExited(w) \/ JoinFatal(w) \/ Drain(w))

FairSpec == Spec /\ (\A w \in Workers : WorkerFairness(w)) /\ RunnerFairness

-----------------------------------------------------------------------------
(* Properties *)

Worker ==
  [ ph : Running \cup {"off", "exited", "fatal"}, seg : Nat, pos : Nat,
    len : 0 .. MaxWrite, src : Versions, refreshes : 0 .. MaxRefresh ]

\* The type of every variable.
TypeOK ==
  /\ nextId \in Nat
  /\ DOMAIN segs \subseteq 0 .. nextId - 1
  /\ \A i \in DOMAIN segs : segs[i] \in Segment(Workers)
  /\ wk \in [Workers -> Worker]
  /\ mode \in Modes
  /\ target \in 1 .. ConnLimit
  /\ disk \in [Bytes -> Versions \cup {Blank}]
  /\ stop \in BOOLEAN /\ fatal \in BOOLEAN
  /\ phase \in {"Downloading", "Draining", "Ended"}
  /\ remote \in Versions /\ version \in Versions

\* Whatever the workers claim, split, advance, fail, release and merge, the
\* segments tile the file and no position leaves its segment (check).
MapTiles == Tiles(segs)

\* A worker with a claim holds an Active segment that names it as its owner,
\* no two hold the same one, and while the loop runs no Active segment is
\* without a task that will finish or release it.
OwnersAgree ==
  /\ \A w \in Workers : wk[w].ph \in Holding =>
       /\ wk[w].seg \in DOMAIN segs
       /\ segs[wk[w].seg].state = "Active" /\ segs[wk[w].seg].worker = w
  /\ \A i \in DOMAIN segs : segs[i].state = "Active" /\ phase = "Downloading" =>
       \E w \in Workers : wk[w].ph \in Holding /\ wk[w].seg = i

\* A byte counts as downloaded only after it was written: advance follows
\* write_at, also when a split moved the boundary in between.
RecordedIsWritten == \A b \in Recorded(segs) : disk[b] # Blank

\* The recorded bytes never mix two versions of the remote file when its
\* validators allow If-Range, or when an interrupted stream starts over.
OneVersion ==
  IfRange \/ ~Ranges => \A b, c \in Recorded(segs) : disk[b] = disk[c]

\* A write under way stays inside the worker's segment although a thief can
\* move the end meanwhile: splits leave min_split bytes ahead of the recorded
\* position and a write is not longer ("they never write the same bytes").
WritesStayInside ==
  MaxWrite <= MinSplit =>
    \A w \in Workers : wk[w].ph = "write" =>
      wk[w].pos + wk[w].len <= segs[wk[w].seg].end

\* Never more connections than the controller's maximum, although workers are
\* spawned and retired by different tasks from one counter.
ConnectionsBounded == Cardinality(Live) <= ConnLimit

\* The select loop only ends without an error and without a stop when every
\* byte is recorded: no work is lost with retired or idle workers.
SuccessIsComplete ==
  phase = "Ended" /\ ~fatal /\ ~stop => IsComplete(segs) /\ Recorded(segs) = Bytes

\* What the properties rest on, an inductive invariant (KuHttpWorkersProofs):
\* the bytes of a write under way are on disk before they are recorded;
WritesAreThere ==
  \A w \in Workers : wk[w].ph = "write" =>
    \A b \in Span(wk[w].pos, wk[w].pos + wk[w].len) : b \in Bytes /\ disk[b] # Blank

\* with splits that leave room for a write, the map and the worker agree on
\* its position;
PositionsAgree ==
  MaxWrite <= MinSplit => \A w \in Workers :
    /\ wk[w].ph \in Holding => wk[w].pos = segs[wk[w].seg].pos
    /\ wk[w].ph = "write" => wk[w].pos + wk[w].len <= segs[wk[w].seg].end

\* a stream has one segment, never split;
StreamIsWhole == ~Ranges => DOMAIN segs = {0}

\* and nobody is at work at the end, nor after the loop unless it was stopped;
\* without an error there is nothing left to do then.
NoEarlyEnd ==
  /\ phase = "Ended" \/ (phase = "Draining" /\ ~stop) => \A w \in Workers : wk[w].ph = "off"
  /\ phase # "Downloading" /\ ~stop /\ ~fatal => IsComplete(segs)

\* The inductive invariant: what each step needs of the state before it.
IInv ==
  /\ TypeOK /\ WellFormed(segs) /\ OwnersAgree
  /\ RecordedIsWritten /\ WritesAreThere /\ PositionsAgree
  /\ ConnectionsBounded /\ StreamIsWhole /\ NoEarlyEnd

\* What OneVersion rests on beside IInv: one connection has one segment, whose
\* position is the worker's, and a stream asks for all of it;
OneSegment == ~Segmented => DOMAIN segs = {0}

OnePosition ==
  ~Segmented => \A w \in Workers :
    /\ wk[w].ph \in Holding => wk[w].pos = segs[wk[w].seg].pos
    /\ wk[w].ph = "write" => wk[w].pos + wk[w].len <= segs[wk[w].seg].end
    /\ ~Ranges /\ wk[w].ph = "request" => wk[w].pos = 0

\* a ranged answer is the version that was probed; one connection may begin
\* with a later one, and then no range of it is honoured any more;
Answered(v) == v = version \/ (~Segmented /\ version < remote)

\* so what is recorded, written and being received is one version.
AnswersAgree ==
  /\ IfRange \/ ~Ranges =>
       /\ OneVersion
       /\ \A w \in Workers :
            /\ wk[w].ph \in {"body", "write"} => \A b \in Recorded(segs) : disk[b] = wk[w].src
            /\ wk[w].ph = "write" =>
                 \A b \in Span(wk[w].pos, wk[w].pos + wk[w].len) : disk[b] = wk[w].src
  /\ IfRange /\ Ranges =>
       /\ \A b \in Recorded(segs) : Answered(disk[b])
       /\ \A w \in Workers : wk[w].ph \in {"body", "write"} => Answered(wk[w].src)

VInv == version <= remote /\ OneSegment /\ OnePosition /\ AnswersAgree

\* The attempt as ByteTransfer sees it.
Outcome == IF phase # "Ended" THEN "going" ELSE IF fatal \/ stop THEN "short" ELSE "done"

Transfer == INSTANCE ByteTransfer
  WITH File <- Bytes, resumable <- Ranges, got <- Recorded(segs), outcome <- Outcome

\* The workers implement the abstract transfer: no claim, split, failure,
\* release, merge, retirement or abort ever loses a recorded byte, a stream
\* without ranges loses all or nothing, and success means every byte.
ImplementsTransfer == Transfer!Spec

\* A split leaves both the victim and the thief at least min_split bytes.
SplitsStayLarge ==
  [][\A i \in DOMAIN segs' \ DOMAIN segs :
       /\ Remaining(segs'[i]) >= MinSplit
       /\ \A j \in DOMAIN segs : segs'[j].end # segs[j].end =>
            Remaining(segs'[j]) >= MinSplit]_vars

\* The attempt ends: workers retire, fail, steal and are spawned again, but
\* they never go on like that forever, and the loop never waits in vain.
AttemptEnds == <>(phase = "Ended")

\* The tasks of an attempt are interchangeable.
Symmetry == Permutations(Workers)
=============================================================================
