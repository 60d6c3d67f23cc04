------------------------ MODULE KuHttpWorkersProofs ------------------------
(***************************************************************************)
(* The invariants of KuHttpWorkers hold for every size, alignment, number  *)
(* of workers, write size and retry budget.  IInv is inductive; everything *)
(* else follows from it.                                                   *)
(***************************************************************************)
EXTENDS KuHttpWorkers, SegmentMapProofs

(***************************************************************************)
(* Types                                                                   *)
(***************************************************************************)

LEMMA ConstantTypes ==
  /\ 1 \in Versions /\ Blank \notin Versions
  /\ FirstConns \in Nat \ {0} /\ ConnLimit \in Nat \ {0} /\ FirstConns <= ConnLimit
  /\ MaxRetries \in Nat /\ MaxRefresh \in Nat /\ MaxWrite \in Nat \ {0}
  /\ Total \in Nat /\ MinSplit \in Nat /\ NoWorker \notin Workers /\ IsFiniteSet(Workers)
BY SizeAssumption, WorkersAssumption DEF Versions, FirstConns, ConnLimit

\* A task without a claim.
LEMMA UnclaimedType ==
  ASSUME NEW ph \in {"off", "loop", "exited", "fatal"}, NEW r \in 0 .. MaxRefresh
  PROVE  Unclaimed(ph, r) \in Worker /\ Unclaimed(ph, r).ph = ph
<1>1. 0 \in 0 .. MaxWrite /\ 1 \in Versions
  BY ConstantTypes
<1> QED
  BY <1>1 DEF Unclaimed, Worker, Running, Holding

LEMMA TaskTypes ==
  /\ Off \in Worker /\ Fresh \in Worker
  /\ Off.ph = "off" /\ Fresh.ph = "loop"
<1>1. 0 \in 0 .. MaxRefresh
  BY ConstantTypes
<1> QED
  BY <1>1, UnclaimedType DEF Off, Fresh

\* TypeOK says of segs what the lemmas about maps ask for.
LEMMA SegsIsMap ==
  ASSUME TypeOK
  PROVE  IsMap(segs, Workers)
<1>1. 0 .. nextId - 1 \subseteq Nat
  BY DEF TypeOK
<1> QED
  BY <1>1 DEF TypeOK, IsMap

\* Recorded bytes are bytes of the file.
LEMMA RecordedInside ==
  ASSUME NEW S, IsMap(S, Workers)
  PROVE  Recorded(S) \subseteq Bytes
<1>1. ASSUME NEW b \in Recorded(S) PROVE b \in Bytes
  <2>1. PICK j \in DOMAIN S : b \in Span(S[j].start, S[j].pos)
    BY RecordedByte
  <2>2. S[j].start \in Nat /\ S[j].pos \in 0 .. Total /\ Total \in Nat
    BY SizeAssumption, SegmentFields DEF IsMap
  <2> QED
    BY <2>1, <2>2 DEF Span, Bytes
<1> QED
  BY <1>1

(***************************************************************************)
(* Counting                                                                *)
(***************************************************************************)

LEMMA LiveIsFinite ==
  /\ IsFiniteSet(Live) /\ Cardinality(Live) \in Nat
  /\ IsFiniteSet(Idle) /\ Cardinality(Idle) \in Nat
<1>1. Live \in SUBSET Workers /\ Idle \in SUBSET Workers
  BY DEF Live, Idle
<1> QED
  BY <1>1, ConstantTypes, FS_Subset, FS_CardinalityType

\* No step that only lets workers go can pass the limit.
LEMMA FewerConnections ==
  ASSUME ConnectionsBounded, Live' \subseteq Live, ConnLimit' = ConnLimit
  PROVE  ConnectionsBounded'
<1>1. Cardinality(Live') <= Cardinality(Live) /\ IsFiniteSet(Live')
  BY LiveIsFinite, FS_Subset
<1>2. Cardinality(Live') \in Nat
  BY <1>1, FS_CardinalityType
<1> QED
  BY <1>1, <1>2, LiveIsFinite, ConstantTypes DEF ConnectionsBounded

\* With a limit of one connection, two live workers are the same.
LEMMA OneConnection ==
  ASSUME ConnectionsBounded, ~ Segmented, NEW v \in Live, NEW w \in Live
  PROVE  v = w
<1>1. SUFFICES ASSUME v # w PROVE FALSE
  OBVIOUS
<1>2. Cardinality({v}) = 1 /\ IsFiniteSet({v})
  BY FS_Singleton
<1>3. Cardinality({v} \cup {w}) = 2 /\ IsFiniteSet({v} \cup {w})
  BY <1>1, <1>2, FS_AddElement
<1>4. Cardinality({v} \cup {w}) <= Cardinality(Live)
  BY LiveIsFinite, FS_Subset
<1> QED
  BY <1>3, <1>4, LiveIsFinite DEF ConnectionsBounded, ConnLimit

(***************************************************************************)
(* The initial states                                                      *)
(***************************************************************************)

LEMMA InitIsInvariant == Init => IInv
<1> SUFFICES ASSUME Init PROVE IInv
  OBVIOUS
<1> USE SizeAssumption
<1>1. /\ segs = InitialMap(FirstConns) /\ nextId = NextIdOf(segs)
      /\ target = FirstConns /\ disk = [b \in Bytes |-> Blank]
      /\ stop = FALSE /\ phase = "Downloading" /\ fatal = FALSE /\ remote = 1 /\ version = 1
      /\ mode \in Modes
  BY DEF Init
<1>2. PICK W \in SUBSET Workers : /\ Cardinality(W) = FirstConns
                                  /\ wk = [w \in Workers |-> IF w \in W THEN Fresh ELSE Off]
  BY DEF Init
<1>3. /\ IsMap(segs, Workers) /\ WellFormed(segs) /\ Recorded(segs) = {}
      /\ \A i \in DOMAIN segs : segs[i].state # "Active"
      /\ DOMAIN segs = 0 .. SegmentCount(FirstConns) - 1 /\ nextId = SegmentCount(FirstConns)
      /\ SegmentCount(FirstConns) \in Nat \ {0}
  BY <1>1, ConstantTypes, InitialMapIsWellFormed, InitialMapIsFresh, SegmentCountBounds
<1>4. /\ wk \in [Workers -> Worker]
      /\ \A w \in Workers : wk[w].ph \in {"loop", "off"} /\ (wk[w].ph = "loop" <=> w \in W)
  BY <1>2, TaskTypes
<1>5. TypeOK
  <2>1. nextId \in Nat /\ DOMAIN segs = 0 .. nextId - 1 /\ \A i \in DOMAIN segs : segs[i] \in Segment(Workers)
    BY <1>3 DEF IsMap
  <2>2. target \in 1 .. ConnLimit /\ remote \in Versions /\ version \in Versions
    BY <1>1, ConstantTypes
  <2>3. disk \in [Bytes -> Versions \cup {Blank}]
    BY <1>1
  <2> QED
    BY <1>1, <1>4, <2>1, <2>2, <2>3 DEF TypeOK
<1>6. OwnersAgree /\ WritesAreThere /\ PositionsAgree
  BY <1>3, <1>4 DEF OwnersAgree, WritesAreThere, PositionsAgree, Holding
<1>7. RecordedIsWritten /\ NoEarlyEnd
  BY <1>1, <1>3 DEF RecordedIsWritten, NoEarlyEnd
<1>8. ConnectionsBounded
  <2>1. Live = W
    BY <1>4 DEF Live, Running, Holding
  <2> QED
    BY <1>2, <2>1, ConstantTypes DEF ConnectionsBounded
<1>9. StreamIsWhole
  <2>1. ~ Segmented => SegmentCount(FirstConns) = 1
    BY ConstantTypes DEF FirstConns, SegmentCount, MinOf, MaxOf
  <2> QED
    BY <1>3, <2>1 DEF StreamIsWhole, Ranges, Segmented
<1> QED
  BY <1>3, <1>5, <1>6, <1>7, <1>8, <1>9 DEF IInv

(***************************************************************************)
(* One version of the remote file                                          *)
(***************************************************************************)

\* With one connection, the worker that has a claim is the only one at work.
LEMMA OneClaim ==
  ASSUME IInv, ~ Segmented, NEW v \in Workers, NEW w \in Workers,
         wk[v].ph \in Holding \cup {"loop"}, wk[w].ph \in Holding \cup {"loop"}
  PROVE  v = w
<1>1. v \in Live /\ w \in Live
  BY DEF Live, Running
<1> QED
  BY <1>1, OneConnection DEF IInv

\* The start position of one connection has nothing recorded before it.
LEMMA NothingBeforeZero ==
  ASSUME IInv, OneSegment, ~ Segmented, NEW i \in DOMAIN segs, segs[i].pos = 0
  PROVE  Recorded(segs) = {}
<1>1. i = 0 /\ DOMAIN segs = {0} /\ segs[i].start \in Nat
  BY SizeAssumption, SegsIsMap, SegmentFields DEF IInv, IsMap, OneSegment
<1>2. Span(segs[i].start, segs[i].pos) = {}
  BY <1>1 DEF Span
<1> QED
  BY <1>1, <1>2, RecordedByte

LEMMA InitVersions == Init => VInv
<1> SUFFICES ASSUME Init PROVE VInv
  OBVIOUS
<1>1. Recorded(segs) = {} /\ DOMAIN segs = 0 .. SegmentCount(FirstConns) - 1
  BY SizeAssumption, ConstantTypes, InitialMapIsWellFormed, InitialMapIsFresh DEF Init
<1>2. \A w \in Workers : wk[w].ph \in {"loop", "off"}
  BY TaskTypes DEF Init
<1>3. OneSegment
  <2>1. ~ Segmented => SegmentCount(FirstConns) = 1
    BY SizeAssumption, ConstantTypes DEF FirstConns, SegmentCount, MinOf, MaxOf
  <2> QED
    BY <1>1, <2>1 DEF OneSegment
<1>4. OnePosition /\ AnswersAgree
  BY <1>1, <1>2 DEF OnePosition, AnswersAgree, OneVersion, Holding
<1> QED
  BY <1>3, <1>4 DEF VInv, Init

\* A step after which nothing more is recorded, no content has changed, and
\* each claim is an old one, or a request at the position of the one segment.
QuietStep ==
  /\ UNCHANGED <<mode, disk, version>>
  /\ remote \in Nat /\ remote' \in Nat /\ version \in Nat /\ remote <= remote'
  /\ Recorded(segs') \subseteq Recorded(segs)
  /\ OneSegment'
  /\ \A w \in Workers : wk'[w].ph \in Holding =>
       \/ /\ wk'[w] = wk[w]
          /\ ~ Segmented => segs'[wk[w].seg].pos = segs[wk[w].seg].pos
                            /\ segs'[wk[w].seg].end = segs[wk[w].seg].end
       \/ /\ wk'[w].ph = "request"
          /\ ~ Segmented => wk'[w].pos = segs'[wk'[w].seg].pos
          /\ ~ Ranges => wk'[w].pos = 0

LEMMA QuietKeeps ==
  ASSUME VInv, QuietStep
  PROVE  VInv'
<1>1. version' <= remote'
  BY DEF VInv, QuietStep
<1>3. /\ Segmented' = Segmented /\ Ranges' = Ranges
      /\ disk' = disk /\ Recorded(segs)' \subseteq Recorded(segs)
  BY DEF QuietStep, Segmented, Ranges
<1>4. ASSUME NEW w \in Workers, wk'[w].ph \in {"body", "write"}
      PROVE  /\ wk'[w] = wk[w]
             /\ ~ Segmented => segs'[wk[w].seg].pos = segs[wk[w].seg].pos
                               /\ segs'[wk[w].seg].end = segs[wk[w].seg].end
  BY <1>4 DEF QuietStep, Holding
<1>5. OnePosition'
  <2> SUFFICES ASSUME ~ Segmented, NEW w \in Workers, wk'[w].ph \in Holding
               PROVE  /\ wk'[w].pos = segs'[wk'[w].seg].pos
                      /\ wk'[w].ph = "write" => wk'[w].pos + wk'[w].len <= segs'[wk'[w].seg].end
                      /\ ~ Ranges /\ wk'[w].ph = "request" => wk'[w].pos = 0
    BY <1>3 DEF OnePosition, Holding
  <2> QED
    BY DEF QuietStep, VInv, OnePosition, Holding
<1>6. AnswersAgree'
  <2>1. IfRange \/ ~ Ranges =>
          /\ OneVersion'
          /\ \A w \in Workers :
               /\ wk'[w].ph \in {"body", "write"} => \A b \in Recorded(segs)' : disk'[b] = wk'[w].src
               /\ wk'[w].ph = "write" =>
                    \A b \in Span(wk'[w].pos, wk'[w].pos + wk'[w].len) : disk'[b] = wk'[w].src
    BY <1>3, <1>4 DEF VInv, AnswersAgree, OneVersion
  <2>2. IfRange /\ Ranges =>
          /\ \A b \in Recorded(segs)' : Answered(disk[b])
          /\ \A w \in Workers : wk'[w].ph \in {"body", "write"} => Answered(wk'[w].src)
    BY <1>3, <1>4 DEF VInv, AnswersAgree
  <2>3. \A v : Answered(v) => v = version' \/ (~ Segmented' /\ version' < remote')
    BY DEF Answered, QuietStep, Segmented
  <2> QED
    BY <1>3, <2>1, <2>2, <2>3 DEF AnswersAgree, Answered
<1> QED
  BY <1>1, <1>5, <1>6 DEF VInv, QuietStep

(***************************************************************************)
(* Steps that leave the map alone                                          *)
(***************************************************************************)

\* No task gets a claim, the claims that are left are unchanged, and while
\* the loop runs all of them are left.
ClaimsStay ==
  /\ \A w \in Workers : wk'[w].ph \in Holding =>
       /\ wk[w].ph \in Holding
       /\ wk'[w].seg = wk[w].seg /\ wk'[w].pos = wk[w].pos /\ wk'[w].len = wk[w].len
       /\ wk'[w].ph = "write" => wk[w].ph = "write"
  /\ phase' = "Downloading" =>
       /\ phase = "Downloading"
       /\ \A w \in Workers : wk[w].ph \in Holding => wk'[w].ph \in Holding

LEMMA TasksOnly ==
  ASSUME IInv, TypeOK', ClaimsStay, ConnectionsBounded', NoEarlyEnd',
         segs' = segs, disk' = disk, mode' = mode
  PROVE  IInv'
<1>1. WellFormed(segs') /\ RecordedIsWritten' /\ StreamIsWhole'
  BY DEF IInv, RecordedIsWritten, StreamIsWhole, Ranges, Segmented
<1>2. OwnersAgree'
  BY DEF IInv, OwnersAgree, ClaimsStay
<1>3. WritesAreThere'
  BY DEF IInv, WritesAreThere, ClaimsStay, Holding
<1>4. PositionsAgree'
  BY DEF IInv, PositionsAgree, ClaimsStay, Holding
<1> QED
  BY <1>1, <1>2, <1>3, <1>4 DEF IInv

\* One task moves on, outside or inside its claim.
LEMMA OneTaskMoves ==
  ASSUME IInv, NEW w \in Workers, NEW t \in Worker,
         wk' = [wk EXCEPT ![w] = t],
         t.ph \in Holding <=> wk[w].ph \in Holding,
         t.ph \in Holding => t.seg = wk[w].seg /\ t.pos = wk[w].pos /\ t.len = wk[w].len,
         t.ph = "write" => wk[w].ph = "write",
         t.ph = "loop" => wk[w].ph = "loop",
         t.ph # "off" => wk[w].ph # "off",
         UNCHANGED <<mode, segs, nextId, target, disk, stop, phase, fatal, remote, version>>
  PROVE  IInv'
<1>1. /\ wk \in [Workers -> Worker] /\ wk' \in [Workers -> Worker] /\ wk'[w] = t
      /\ \A v \in Workers \ {w} : wk'[v] = wk[v]
  BY DEF IInv, TypeOK
<1>2. TypeOK'
  BY <1>1 DEF IInv, TypeOK, ConnLimit, Segmented
<1>3. ClaimsStay
  BY <1>1 DEF ClaimsStay
<1>4. ConnectionsBounded'
  <2>1. Live' \subseteq Live /\ ConnLimit' = ConnLimit
    BY <1>1 DEF Live, Running, ConnLimit, Segmented
  <2> QED
    BY <2>1, FewerConnections DEF IInv
<1>5. NoEarlyEnd'
  BY <1>1 DEF IInv, NoEarlyEnd
<1> QED
  BY <1>2, <1>3, <1>4, <1>5, TasksOnly

LEMMA LeaveKeeps ==
  ASSUME IInv, NEW w \in Workers,
         LeaveOnStop(w) \/ Retire(w) \/ LeaveIdle(w) \/ Drain(w)
  PROVE  IInv'
<1> DEFINE t == IF Drain(w) THEN Off ELSE [wk[w] EXCEPT !.ph = "exited"]
<1>1. wk \in [Workers -> Worker]
  BY DEF IInv, TypeOK
<1>2. /\ wk' = [wk EXCEPT ![w] = t]
      /\ wk[w].ph \in {"loop", "exited", "fatal"} /\ t.ph \in {"exited", "off"} /\ t \in Worker
      /\ UNCHANGED <<mode, segs, nextId, target, disk, stop, phase, fatal, remote, version>>
  <2>1. CASE Drain(w)
    BY <2>1, <1>1, TaskTypes DEF Drain
  <2>2. CASE ~ Drain(w)
    <3>1. wk[w].ph = "loop" /\ wk' = [wk EXCEPT ![w].ph = "exited"]
      BY <2>2 DEF LeaveOnStop, Retire, LeaveIdle, MayClaim
    <3>2. wk' = [wk EXCEPT ![w] = [wk[w] EXCEPT !.ph = "exited"]]
      BY <3>1
    <3>3. [wk[w] EXCEPT !.ph = "exited"] \in Worker /\ [wk[w] EXCEPT !.ph = "exited"].ph = "exited"
      BY <1>1 DEF Worker
    <3> QED
      BY <2>2, <3>1, <3>2, <3>3 DEF LeaveOnStop, Retire, LeaveIdle, MayClaim
  <2> QED
    BY <2>1, <2>2
<1> HIDE DEF t
<1> QED
  BY <1>2, OneTaskMoves DEF Holding

LEMMA RespondKeeps ==
  ASSUME IInv, NEW w \in Workers, Respond(w)
  PROVE  IInv'
<1> DEFINE t == [wk[w] EXCEPT !.ph = "body", !.src = remote]
<1>1. wk \in [Workers -> Worker] /\ remote \in Versions /\ wk[w].ph = "request"
  BY DEF IInv, TypeOK, Respond
<1>2. /\ wk' = [wk EXCEPT ![w] = t]
      /\ UNCHANGED <<mode, segs, nextId, target, disk, stop, phase, fatal, remote, version>>
  BY <1>1 DEF Respond
<1>3. /\ t \in Worker /\ t.ph = "body"
      /\ t.seg = wk[w].seg /\ t.pos = wk[w].pos /\ t.len = wk[w].len
  BY <1>1 DEF Worker, Running, Holding
<1> HIDE DEF t
<1> QED
  BY <1>1, <1>2, <1>3, OneTaskMoves DEF Holding

(***************************************************************************)
(* The select loop and the environment                                     *)
(***************************************************************************)

LEMMA TickKeeps ==
  ASSUME IInv, Tick
  PROVE  IInv'
<1>1. PICK t \in 1 .. ConnLimit, W \in SUBSET Idle :
        /\ target' = t
        /\ Cardinality(W) = IF ~stop /\ HasWork(segs) /\ Cardinality(Live) < t
                            THEN MinOf(t - Cardinality(Live), Cardinality(Idle)) ELSE 0
        /\ wk' = [w \in Workers |-> IF w \in W THEN Fresh ELSE wk[w]]
  BY DEF Tick
<1>2. /\ phase = "Downloading"
      /\ UNCHANGED <<mode, segs, nextId, disk, stop, phase, fatal, remote, version>>
  BY DEF Tick
<1>3. /\ wk \in [Workers -> Worker] /\ wk' \in [Workers -> Worker]
      /\ \A w \in Workers : IF w \in W THEN wk[w].ph = "off" /\ wk'[w].ph = "loop" ELSE wk'[w] = wk[w]
  BY <1>1, TaskTypes DEF IInv, TypeOK, Idle
<1>4. TypeOK'
  BY <1>1, <1>2, <1>3 DEF IInv, TypeOK, ConnLimit, Segmented
<1>5. ClaimsStay
  BY <1>2, <1>3 DEF ClaimsStay, Holding
<1>6. ConnectionsBounded'
  <2>1. Live' = Live \cup W /\ Live \cap W = {}
    BY <1>3 DEF Live, Running, Holding, Idle
  <2>2. IsFiniteSet(W) /\ Cardinality(W) \in Nat
    BY LiveIsFinite, FS_Subset, FS_CardinalityType
  <2>3. Cardinality(Live') = Cardinality(Live) + Cardinality(W)
    <3>1. Cardinality(Live \cap W) = 0
      BY <2>1, FS_EmptySet
    <3>2. Cardinality(Live \cup W) = Cardinality(Live) + Cardinality(W) - Cardinality(Live \cap W)
      BY <2>2, LiveIsFinite, FS_Union
    <3> QED
      BY <2>1, <2>2, <3>1, <3>2, LiveIsFinite
  <2>4. ConnLimit' = ConnLimit /\ Cardinality(Live) <= ConnLimit
    BY <1>2 DEF ConnLimit, Segmented, IInv, ConnectionsBounded
  <2>5. Cardinality(Live) + Cardinality(W) <= ConnLimit
    BY <1>1, <2>4, LiveIsFinite, ConstantTypes DEF MinOf
  <2> QED
    BY <2>3, <2>4, <2>5 DEF ConnectionsBounded
<1>7. NoEarlyEnd'
  BY <1>2 DEF NoEarlyEnd
<1> QED
  BY <1>2, <1>4, <1>5, <1>6, <1>7, TasksOnly

LEMMA JoinExitedKeeps ==
  ASSUME IInv, NEW w \in Workers, JoinExited(w)
  PROVE  IInv'
<1> DEFINE last == \A v \in Workers \ {w} : wk[v].ph = "off"
           over == IsComplete(segs) \/ stop
           t == IF last /\ ~ over THEN Fresh ELSE Off
<1>1. /\ phase = "Downloading" /\ wk[w].ph = "exited"
      /\ wk' = [wk EXCEPT ![w] = t]
      /\ phase' = IF last /\ over THEN "Draining" ELSE phase
      /\ UNCHANGED <<mode, segs, nextId, target, disk, stop, fatal, remote, version>>
  BY DEF JoinExited
<1>2. wk \in [Workers -> Worker] /\ t \in Worker /\ t.ph \in {"loop", "off"}
  BY TaskTypes DEF IInv, TypeOK
<1>3. /\ wk' \in [Workers -> Worker] /\ wk'[w] = t
      /\ \A v \in Workers \ {w} : wk'[v] = wk[v]
  BY <1>1, <1>2
<1>4. TypeOK'
  BY <1>1, <1>3 DEF IInv, TypeOK, ConnLimit, Segmented
<1>5. ClaimsStay
  BY <1>1, <1>2, <1>3 DEF ClaimsStay, Holding
<1>6. ConnLimit' = ConnLimit
  BY <1>1 DEF ConnLimit, Segmented
<1>7. ConnectionsBounded'
  <2>1. CASE last /\ ~ over
    <3>1. wk'[w].ph = "loop" /\ \A v \in Workers \ {w} : wk'[v].ph = "off"
      BY <1>3, <2>1, TaskTypes
    <3>2. Live' = {w}
      BY <3>1 DEF Live, Running, Holding
    <3>3. Cardinality(Live') = 1
      BY <3>2, FS_Singleton
    <3> QED
      BY <1>6, <3>3, ConstantTypes DEF ConnectionsBounded
  <2>2. CASE ~ (last /\ ~ over)
    <3>1. wk'[w].ph = "off"
      BY <1>3, <2>2, TaskTypes
    <3>2. Live' \subseteq Live
      BY <1>3, <3>1 DEF Live, Running, Holding
    <3> QED
      BY <1>6, <3>2, FewerConnections DEF IInv
  <2> QED
    BY <2>1, <2>2
<1>8. NoEarlyEnd'
  <2>1. CASE last /\ over
    <3>1. \A v \in Workers : wk'[v].ph = "off"
      BY <1>3, <2>1, TaskTypes
    <3> QED
      BY <1>1, <2>1, <3>1 DEF NoEarlyEnd
  <2>2. CASE ~ (last /\ over)
    BY <1>1, <2>2 DEF NoEarlyEnd
  <2> QED
    BY <2>1, <2>2
<1> QED
  BY <1>1, <1>4, <1>5, <1>7, <1>8, TasksOnly

LEMMA JoinFatalKeeps ==
  ASSUME IInv, NEW w \in Workers, JoinFatal(w)
  PROVE  IInv'
<1>1. /\ phase' = "Draining" /\ fatal' = TRUE
      /\ wk' = [v \in Workers |-> IF v = w \/ ~stop THEN Off ELSE wk[v]]
      /\ UNCHANGED <<mode, segs, nextId, target, disk, stop, remote, version>>
  BY DEF JoinFatal
<1>2. /\ wk \in [Workers -> Worker] /\ wk' \in [Workers -> Worker]
      /\ \A v \in Workers : wk'[v] = wk[v] \/ wk'[v].ph = "off"
  BY <1>1, TaskTypes DEF IInv, TypeOK
<1>3. TypeOK'
  BY <1>1, <1>2 DEF IInv, TypeOK, ConnLimit, Segmented
<1>4. ClaimsStay
  BY <1>1, <1>2 DEF ClaimsStay, Holding
<1>5. ConnectionsBounded'
  <2>1. Live' \subseteq Live /\ ConnLimit' = ConnLimit
    BY <1>1, <1>2 DEF Live, Running, Holding, ConnLimit, Segmented
  <2> QED
    BY <2>1, FewerConnections DEF IInv
<1>6. NoEarlyEnd'
  <2>1. ~stop => \A v \in Workers : wk'[v].ph = "off"
    BY <1>1, TaskTypes
  <2> QED
    BY <1>1, <2>1 DEF NoEarlyEnd
<1> QED
  BY <1>1, <1>3, <1>4, <1>5, <1>6, TasksOnly

LEMMA LoopKeeps ==
  ASSUME IInv, ObserveStop \/ EndAttempt \/ RequestStop \/ ReplaceRemote
  PROVE  IInv'
<1>1. /\ UNCHANGED <<mode, segs, nextId, wk, target, disk, fatal, version>>
      /\ phase' \in {"Downloading", "Draining", "Ended"} /\ stop' \in BOOLEAN
      /\ phase' = "Downloading" => phase = "Downloading"
      /\ stop = TRUE => stop' = TRUE
      /\ phase # "Downloading" \/ phase' = "Downloading" \/ stop' = TRUE
      /\ remote' = remote \/ (remote' = remote + 1 /\ remote < LastVersion)
  <2>1. stop \in BOOLEAN /\ phase \in {"Downloading", "Draining", "Ended"}
    BY DEF IInv, TypeOK
  <2>2. CASE ObserveStop
    BY <2>1, <2>2 DEF ObserveStop
  <2>3. CASE EndAttempt
    BY <2>1, <2>3 DEF EndAttempt
  <2>4. CASE RequestStop
    BY <2>1, <2>4 DEF RequestStop
  <2>5. CASE ReplaceRemote
    BY <2>1, <2>5 DEF ReplaceRemote
  <2> QED
    BY <2>2, <2>3, <2>4, <2>5
<1>2. remote' \in Versions
  BY <1>1, WorkersAssumption DEF IInv, TypeOK, Versions
<1>3. TypeOK'
  BY <1>1, <1>2 DEF IInv, TypeOK, ConnLimit, Segmented
<1>4. ClaimsStay
  BY <1>1 DEF ClaimsStay, Holding
<1>5. ConnectionsBounded'
  BY <1>1 DEF IInv, ConnectionsBounded, Live, ConnLimit, Segmented
<1>6. NoEarlyEnd'
  <2>1. NoEarlyEnd
    BY DEF IInv
  <2>2. CASE ObserveStop
    BY <2>2 DEF ObserveStop, NoEarlyEnd
  <2>3. CASE EndAttempt
    BY <2>1, <2>3 DEF EndAttempt, NoEarlyEnd
  <2>4. CASE RequestStop
    BY <2>1, <2>4 DEF RequestStop, NoEarlyEnd
  <2>5. CASE ReplaceRemote
    BY <2>1, <2>5 DEF ReplaceRemote, NoEarlyEnd
  <2> QED
    BY <2>2, <2>3, <2>4, <2>5
<1> QED
  BY <1>1, <1>3, <1>4, <1>5, <1>6, TasksOnly

(***************************************************************************)
(* Steps that give a claim up                                              *)
(***************************************************************************)

\* What a step may do to the map: nothing recorded is lost, except all of it
\* where a stream starts over, and a new segment has its size.
MapStep ==
  /\ \/ Recorded(segs) \subseteq Recorded(segs')
     \/ ~ Ranges /\ Recorded(segs') = {}
  /\ \A i \in DOMAIN segs' \ DOMAIN segs :
       /\ Remaining(segs'[i]) >= MinSplit
       /\ \A j \in DOMAIN segs : segs'[j].end # segs[j].end => Remaining(segs'[j]) >= MinSplit

\* What a claim is worth: the segment is there, and nobody else holds it.
LEMMA ClaimFacts ==
  ASSUME IInv, NEW w \in Workers, wk[w].ph \in Holding
  PROVE  /\ wk[w] \in Worker /\ wk[w].pos \in Nat /\ wk[w].len \in Nat
         /\ wk[w].refreshes \in 0 .. MaxRefresh
         /\ wk[w].seg \in DOMAIN segs
         /\ segs[wk[w].seg].state = "Active" /\ segs[wk[w].seg].worker = w
         /\ \A v \in Workers : v # w /\ wk[v].ph \in Holding =>
              /\ wk[v].seg # wk[w].seg /\ wk[v].seg \in DOMAIN segs
              /\ segs[wk[v].seg].state = "Active" /\ segs[wk[v].seg].worker = v
         /\ phase = "Downloading" \/ (phase = "Draining" /\ stop)
         /\ w \in Live
<1>1. wk[w] \in Worker /\ MaxWrite \in Nat
  BY ConstantTypes DEF IInv, TypeOK
<1>2. wk[w].pos \in Nat /\ wk[w].len \in Nat /\ wk[w].refreshes \in 0 .. MaxRefresh
  BY <1>1 DEF Worker
<1>3. phase = "Downloading" \/ (phase = "Draining" /\ stop)
  BY DEF IInv, TypeOK, NoEarlyEnd, Holding
<1> QED
  BY <1>1, <1>2, <1>3 DEF IInv, OwnersAgree, Live, Running

LEMMA GivesKeeps ==
  ASSUME IInv, NEW w \in Workers, wk[w].ph \in Holding,
         NEW failed \in BOOLEAN, segs' = Release(segs, wk[w].seg, failed),
         NEW t \in Worker, t.ph \in {"loop", "exited", "fatal"},
         wk' = [wk EXCEPT ![w] = t],
         UNCHANGED <<mode, nextId, target, disk, stop, phase, fatal, remote, version>>
  PROVE  IInv' /\ MapStep /\ (VInv => QuietStep)
<1> USE SizeAssumption
<1>1. /\ wk \in [Workers -> Worker] /\ wk' \in [Workers -> Worker] /\ wk'[w] = t
      /\ \A v \in Workers \ {w} : wk'[v] = wk[v]
  BY DEF IInv, TypeOK
<1>2. IsMap(segs, Workers) /\ WellFormed(segs)
  BY SegsIsMap DEF IInv
<1>3. /\ IsMap(segs', Workers) /\ WellFormed(segs')
      /\ DOMAIN segs' \subseteq DOMAIN segs /\ Recorded(segs') = Recorded(segs)
      /\ \A j \in DOMAIN segs \ {wk[w].seg} :
           segs[j].state = "Active" => j \in DOMAIN segs' /\ segs'[j] = segs[j]
      /\ \A j \in DOMAIN segs' : segs'[j].state = "Active" => j # wk[w].seg /\ segs[j].state = "Active"
  BY <1>2, ClaimFacts, ReleaseKeeps
<1>4. TypeOK'
  BY <1>1, <1>3 DEF IInv, TypeOK, IsMap, ConnLimit, Segmented
<1>5. ASSUME NEW v \in Workers, wk'[v].ph \in Holding
      PROVE  /\ v # w /\ wk'[v] = wk[v] /\ wk[v].ph \in Holding
             /\ wk[v].seg \in DOMAIN segs' /\ segs'[wk[v].seg] = segs[wk[v].seg]
             /\ segs[wk[v].seg].state = "Active" /\ segs[wk[v].seg].worker = v
  BY <1>1, <1>3, <1>5, ClaimFacts DEF Holding
<1>6. OwnersAgree'
  <2>1. \A v \in Workers : wk'[v].ph \in Holding =>
          /\ wk'[v].seg \in DOMAIN segs'
          /\ segs'[wk'[v].seg].state = "Active" /\ segs'[wk'[v].seg].worker = v
    BY <1>5
  <2>2. ASSUME NEW i \in DOMAIN segs', segs'[i].state = "Active", phase' = "Downloading"
        PROVE  \E v \in Workers : wk'[v].ph \in Holding /\ wk'[v].seg = i
    <3>1. i # wk[w].seg /\ i \in DOMAIN segs /\ segs[i].state = "Active"
      BY <1>3, <2>2
    <3>2. PICK v \in Workers : wk[v].ph \in Holding /\ wk[v].seg = i
      BY <2>2, <3>1 DEF IInv, OwnersAgree
    <3> QED
      BY <1>1, <3>1, <3>2
  <2> QED
    BY <2>1, <2>2 DEF OwnersAgree
<1>7. RecordedIsWritten'
  BY <1>3 DEF IInv, RecordedIsWritten
<1>8. WritesAreThere'
  BY <1>5 DEF IInv, WritesAreThere, Holding
<1>9. PositionsAgree'
  BY <1>5 DEF IInv, PositionsAgree, Holding
<1>10. ConnectionsBounded'
  <2>1. Live' \subseteq Live /\ ConnLimit' = ConnLimit
    BY <1>1, ClaimFacts DEF Live, Running, ConnLimit, Segmented
  <2> QED
    BY <2>1, FewerConnections DEF IInv
<1>11. StreamIsWhole'
  <2>1. ~ Ranges => DOMAIN segs = {0} /\ wk[w].seg = 0
    BY ClaimFacts DEF IInv, StreamIsWhole
  <2>2. DOMAIN segs = {0} /\ wk[w].seg = 0 => DOMAIN segs' = {0}
    BY DEF Release, MergeDone, RunHeads
  <2> QED
    BY <2>1, <2>2 DEF StreamIsWhole, Ranges, Segmented
<1>12. NoEarlyEnd'
  BY ClaimFacts DEF NoEarlyEnd
<1>13. MapStep
  BY <1>3 DEF MapStep
<1>14. ASSUME VInv PROVE QuietStep
  <2>1. remote \in Nat /\ version \in Nat
    BY DEF IInv, TypeOK, Versions
  <2>2. OneSegment'
    <3>1. ~ Segmented => DOMAIN segs = {0} /\ wk[w].seg = 0
      BY <1>14, ClaimFacts DEF VInv, OneSegment
    <3>2. DOMAIN segs = {0} /\ wk[w].seg = 0 => DOMAIN segs' = {0}
      BY DEF Release, MergeDone, RunHeads
    <3> QED
      BY <3>1, <3>2 DEF OneSegment, Segmented
  <2>3. ASSUME NEW v \in Workers, wk'[v].ph \in Holding
        PROVE  Segmented /\ wk'[v] = wk[v]
    BY <1>5, <2>3, OneClaim
  <2> QED
    BY <1>3, <2>1, <2>2, <2>3 DEF QuietStep
<1> QED
  BY <1>14, <1>13, <1>3, <1>4, <1>6, <1>7, <1>8, <1>9, <1>10, <1>11, <1>12 DEF IInv

LEMMA GiveUpKeeps ==
  ASSUME IInv, NEW w \in Workers,
         Complete(w) \/ FailTransient(w) \/ FailPermanent(w) \/ Refresh(w) \/ StopBody(w)
  PROVE  IInv' /\ MapStep /\ (VInv => QuietStep)
<1>1. wk[w].ph \in Holding
  BY DEF Complete, FailTransient, FailPermanent, Refresh, StopBody, Holding
<1>2. wk[w].refreshes \in 0 .. MaxRefresh /\ MaxRefresh \in Nat
  BY <1>1, ClaimFacts, ConstantTypes
<1>3. \E failed \in BOOLEAN, ph \in {"loop", "exited", "fatal"}, r \in 0 .. MaxRefresh :
        /\ segs' = Release(segs, wk[w].seg, failed)
        /\ wk' = [wk EXCEPT ![w] = Unclaimed(ph, r)]
        /\ UNCHANGED <<mode, nextId, target, disk, stop, phase, fatal, remote, version>>
  <2>1. CASE Complete(w)
    BY <1>2, <2>1 DEF Complete, Freed
  <2>2. CASE FailTransient(w)
    <3>1. PICK ph \in {"loop", "fatal"} : wk' = [wk EXCEPT ![w] = Unclaimed(ph, wk[w].refreshes)]
      BY <2>2 DEF FailTransient, Freed
    <3> QED
      BY <1>2, <2>2, <3>1 DEF FailTransient
  <2>3. CASE FailPermanent(w)
    BY <1>2, <2>3 DEF FailPermanent, Freed
  <2>4. CASE Refresh(w)
    <3>1. wk[w].refreshes + 1 \in 0 .. MaxRefresh
      BY <1>2, <2>4 DEF Refresh
    <3> QED
      BY <2>4, <3>1 DEF Refresh
  <2>5. CASE StopBody(w)
    BY <1>2, <2>5 DEF StopBody, Freed
  <2> QED
    BY <2>1, <2>2, <2>3, <2>4, <2>5
<1>4. PICK failed \in BOOLEAN, ph \in {"loop", "exited", "fatal"}, r \in 0 .. MaxRefresh :
        /\ segs' = Release(segs, wk[w].seg, failed)
        /\ wk' = [wk EXCEPT ![w] = Unclaimed(ph, r)]
        /\ UNCHANGED <<mode, nextId, target, disk, stop, phase, fatal, remote, version>>
  BY <1>3
<1>5. Unclaimed(ph, r) \in Worker /\ Unclaimed(ph, r).ph = ph
  BY UnclaimedType
<1> QED
  BY <1>1, <1>4, <1>5, GivesKeeps

(***************************************************************************)
(* Steps that take a claim                                                 *)
(***************************************************************************)

\* A worker that may claim is at work, and the loop is running.
LEMMA MayClaimFacts ==
  ASSUME IInv, NEW w \in Workers, MayClaim(w)
  PROVE  /\ wk \in [Workers -> Worker] /\ wk[w].ph = "loop" /\ w \in Live
         /\ phase = "Downloading"
BY DEF IInv, TypeOK, NoEarlyEnd, MayClaim, Live, Running

LEMMA ClaimedTask ==
  ASSUME IInv, NEW w \in Workers, MayClaim(w), NEW i \in Nat, NEW pos \in Nat,
         wk' = Claimed(w, i, pos), mode' = mode
  PROVE  /\ wk' \in [Workers -> Worker]
         /\ wk'[w].ph = "request" /\ wk'[w].seg = i /\ wk'[w].pos = pos
         /\ \A v \in Workers \ {w} : wk'[v] = wk[v]
         /\ ConnectionsBounded'
<1>1. wk \in [Workers -> Worker] /\ wk[w].ph = "loop"
  BY MayClaimFacts
<1> DEFINE t == [wk[w] EXCEPT !.ph = "request", !.seg = i, !.pos = pos]
<1>2. t \in Worker /\ t.ph = "request" /\ t.seg = i /\ t.pos = pos
  BY <1>1 DEF Worker, Running, Holding
<1>3. wk' = [wk EXCEPT ![w] = t]
  BY <1>1 DEF Claimed, Worker
<1> HIDE DEF t
<1>4. wk' \in [Workers -> Worker] /\ wk'[w] = t /\ \A v \in Workers \ {w} : wk'[v] = wk[v]
  BY <1>1, <1>2, <1>3
<1>5. Live' \subseteq Live /\ ConnLimit' = ConnLimit
  BY <1>1, <1>2, <1>4 DEF Live, Running, ConnLimit, Segmented
<1>6. ConnectionsBounded'
  BY <1>5, FewerConnections DEF IInv
<1> QED
  BY <1>2, <1>4, <1>6

LEMMA ClaimPendingKeeps ==
  ASSUME IInv, NEW w \in Workers, ClaimPending(w)
  PROVE  IInv' /\ MapStep /\ (VInv => QuietStep)
<1> USE SizeAssumption
<1>1. PICK i \in DOMAIN segs :
        /\ IsNextPending(segs, i)
        /\ LET taken == TakePending(segs, i, w)
               rewound == ~Ranges /\ segs[i].pos > 0
           IN  /\ segs' = IF rewound THEN Rewind(taken, i) ELSE taken
               /\ wk' = Claimed(w, i, IF rewound THEN 0 ELSE segs[i].pos)
  BY DEF ClaimPending
<1>2. /\ MayClaim(w)
      /\ UNCHANGED <<mode, nextId, target, disk, stop, phase, fatal, remote, version>>
  BY DEF ClaimPending
<1>3. /\ IsMap(segs, Workers) /\ WellFormed(segs)
      /\ segs[i].state = "Pending" /\ segs[i].pos < segs[i].end
      /\ i \in Nat /\ segs[i] \in Segment(Workers)
      /\ segs[i].start \in Nat /\ segs[i].pos \in Nat /\ segs[i].end \in 0 .. Total /\ Total \in Nat
  BY <1>1, SegsIsMap, SegmentFields DEF IInv, IsNextPending, PendingWork, IsMap
<1> DEFINE taken == TakePending(segs, i, w)
           rewound == ~Ranges /\ segs[i].pos > 0
           pos == IF rewound THEN 0 ELSE segs[i].pos
<1>4. /\ IsMap(taken, Workers) /\ WellFormed(taken)
      /\ DOMAIN taken = DOMAIN segs /\ Recorded(taken) = Recorded(segs)
  BY <1>3, TakePendingKeeps
<1>5. /\ taken[i].state = "Active" /\ taken[i].worker = w
      /\ taken[i].start = segs[i].start /\ taken[i].pos = segs[i].pos
      /\ \A j \in DOMAIN segs \ {i} : taken[j] = segs[j]
  BY <1>3 DEF TakePending, Segment
<1>6. rewound => segs[i].start = 0
  <2>1. rewound => DOMAIN segs = {0} /\ i = 0
    BY DEF Ranges, Segmented, IInv, StreamIsWhole
  <2>2. 0 \in Bytes
    BY <1>3 DEF Bytes
  <2>3. PICK j \in DOMAIN segs : 0 \in Span(segs[j].start, segs[j].end)
    BY <1>3, <2>2 DEF WellFormed, Tiles
  <2> QED
    BY <1>3, <2>1, <2>3 DEF Span
<1>7. /\ IsMap(segs', Workers) /\ WellFormed(segs') /\ DOMAIN segs' = DOMAIN segs
      /\ Recorded(segs') \subseteq Recorded(segs)
      /\ segs'[i].state = "Active" /\ segs'[i].worker = w /\ segs'[i].pos = pos
      /\ \A j \in DOMAIN segs \ {i} : segs'[j] = segs[j]
  <2>1. CASE rewound
    <3>1. segs' = Rewind(taken, i)
      BY <1>1, <2>1
    <3>2. /\ IsMap(segs', Workers) /\ WellFormed(segs') /\ DOMAIN segs' = DOMAIN segs
          /\ Recorded(segs') \subseteq Recorded(segs)
      BY <1>4, <1>5, <3>1, RewindKeeps
    <3>3. /\ segs'[i] = [taken[i] EXCEPT !.pos = taken[i].start]
          /\ \A j \in DOMAIN segs \ {i} : segs'[j] = taken[j]
      BY <1>4, <3>1 DEF Rewind
    <3>4. taken[i] \in Segment(Workers)
      BY <1>4 DEF IsMap
    <3>5. segs'[i].state = "Active" /\ segs'[i].worker = w /\ segs'[i].pos = pos
      BY <1>5, <1>6, <2>1, <3>3, <3>4 DEF Segment
    <3> QED
      BY <1>5, <3>2, <3>3, <3>5
  <2>2. CASE ~ rewound
    BY <1>1, <1>4, <1>5, <2>2
  <2> QED
    BY <2>1, <2>2
<1>8. wk' = Claimed(w, i, pos) /\ pos \in Nat
  BY <1>1, <1>3
<1>18. MapStep
  <2>1. CASE rewound
    <3>1. DOMAIN segs = {0} /\ i = 0
      BY <2>1 DEF Ranges, Segmented, IInv, StreamIsWhole
    <3>2. segs'[i].pos = 0 /\ segs'[i].start \in Nat
      BY <1>7, <2>1, SegmentFields DEF IsMap
    <3>3. Span(segs'[i].start, segs'[i].pos) = {}
      BY <3>2 DEF Span
    <3>4. Recorded(segs') = {}
      BY <1>7, <3>1, <3>3, RecordedByte
    <3> QED
      BY <1>7, <2>1, <3>4 DEF MapStep
  <2>2. CASE ~ rewound
    BY <1>1, <1>4, <2>2 DEF MapStep
  <2> QED
    BY <2>1, <2>2
<1> HIDE DEF taken, rewound, pos
<1>9. /\ wk' \in [Workers -> Worker]
      /\ wk'[w].ph = "request" /\ wk'[w].seg = i /\ wk'[w].pos = pos
      /\ \A v \in Workers \ {w} : wk'[v] = wk[v]
      /\ ConnectionsBounded'
  BY <1>2, <1>3, <1>8, ClaimedTask
<1>10. wk[w].ph = "loop" /\ phase = "Downloading"
  BY <1>2, MayClaimFacts
<1>11. TypeOK'
  BY <1>2, <1>7, <1>9 DEF IInv, TypeOK, IsMap, ConnLimit, Segmented
<1>12. ASSUME NEW v \in Workers, v # w, wk'[v].ph \in Holding
       PROVE  /\ wk'[v] = wk[v] /\ wk[v].ph \in Holding
              /\ wk[v].seg \in DOMAIN segs' /\ segs'[wk[v].seg] = segs[wk[v].seg]
              /\ segs[wk[v].seg].state = "Active" /\ segs[wk[v].seg].worker = v
  BY <1>3, <1>7, <1>9, <1>12, ClaimFacts
<1>13. OwnersAgree'
  <2>1. ASSUME NEW v \in Workers, wk'[v].ph \in Holding
        PROVE  /\ wk'[v].seg \in DOMAIN segs'
               /\ segs'[wk'[v].seg].state = "Active" /\ segs'[wk'[v].seg].worker = v
    BY <1>7, <1>9, <1>12, <2>1
  <2>2. ASSUME NEW j \in DOMAIN segs', segs'[j].state = "Active", phase' = "Downloading"
        PROVE  \E v \in Workers : wk'[v].ph \in Holding /\ wk'[v].seg = j
    <3>1. CASE j = i
      BY <1>9, <3>1 DEF Holding
    <3>2. CASE j # i
      <4>1. PICK v \in Workers : wk[v].ph \in Holding /\ wk[v].seg = j
        BY <1>7, <1>10, <2>2, <3>2 DEF IInv, OwnersAgree
      <4> QED
        BY <1>9, <1>10, <4>1 DEF Holding
    <3> QED
      BY <3>1, <3>2
  <2> QED
    BY <2>1, <2>2 DEF OwnersAgree
<1>14. RecordedIsWritten'
  BY <1>2, <1>7 DEF IInv, RecordedIsWritten
<1>15. WritesAreThere'
  BY <1>2, <1>9, <1>12 DEF IInv, WritesAreThere, Holding
<1>16. PositionsAgree'
  BY <1>7, <1>9, <1>12 DEF IInv, PositionsAgree, Holding
<1>17. StreamIsWhole' /\ NoEarlyEnd'
  BY <1>2, <1>7, <1>10 DEF IInv, StreamIsWhole, Ranges, Segmented, NoEarlyEnd
<1>19. ASSUME VInv PROVE QuietStep
  <2>1. remote \in Nat /\ version \in Nat
    BY DEF IInv, TypeOK, Versions
  <2>2. OneSegment'
    BY <1>2, <1>7, <1>19 DEF VInv, OneSegment, Segmented
  <2>3. ASSUME NEW v \in Workers, v # w, wk'[v].ph \in Holding
        PROVE  Segmented /\ wk'[v] = wk[v]
    BY <1>10, <1>12, <2>3, OneClaim
  <2>4. ~ Ranges => pos = 0
    BY <1>3 DEF pos, rewound
  <2> QED
    BY <1>2, <1>7, <1>9, <2>1, <2>2, <2>3, <2>4 DEF QuietStep
<1> QED
  BY <1>7, <1>9, <1>11, <1>13, <1>14, <1>15, <1>16, <1>17, <1>18, <1>19 DEF IInv

LEMMA ClaimStealKeeps ==
  ASSUME IInv, NEW w \in Workers, ClaimSteal(w)
  PROVE  IInv' /\ MapStep /\ (VInv => QuietStep)
<1> USE SizeAssumption
<1>1. PICK i \in DOMAIN segs :
        /\ i \in Splittable(segs)
        /\ segs' = Steal(segs, i, w, nextId)
        /\ wk' = Claimed(w, nextId, SplitPoint(segs[i]))
  BY DEF ClaimSteal, IsVictim
<1>2. /\ MayClaim(w) /\ nextId' = nextId + 1
      /\ UNCHANGED <<mode, target, disk, stop, phase, fatal, remote, version>>
  BY DEF ClaimSteal
<1> DEFINE mid == SplitPoint(segs[i])
<1>3. /\ IsMap(segs, Workers) /\ WellFormed(segs) /\ nextId \in Nat /\ nextId \notin DOMAIN segs
      /\ DOMAIN segs \subseteq 0 .. nextId - 1
  BY SegsIsMap DEF IInv, TypeOK
<1>4. /\ wk \in [Workers -> Worker] /\ wk[w].ph = "loop" /\ w \in Live /\ phase = "Downloading"
  BY <1>2, MayClaimFacts
<1>5. segs[i].state = "Active" /\ segs[i] \in Segment(Workers) /\ segs[i].pos \in Nat /\ i # nextId
  BY <1>1, <1>3, SegmentFields DEF Splittable, IsMap
<1>6. /\ IsMap(segs', Workers) /\ WellFormed(segs')
      /\ DOMAIN segs' = DOMAIN segs \cup {nextId}
      /\ Recorded(segs') = Recorded(segs)
      /\ mid \in 0 .. Total /\ segs[i].pos + MinSplit <= mid
      /\ mid + MinSplit <= segs[i].end /\ segs'[nextId].end = segs[i].end
      /\ segs'[nextId].state = "Active" /\ segs'[nextId].worker = w /\ segs'[nextId].pos = mid
      /\ segs'[i].pos = segs[i].pos /\ segs'[i].end = mid
      /\ segs'[i].state = "Active" /\ segs'[i].worker = segs[i].worker
      /\ \A j \in DOMAIN segs \ {i} : segs'[j] = segs[j]
  <2>1. i \in Splittable(segs) /\ segs' = Steal(segs, i, w, nextId)
    BY <1>1
  <2>2. Split(segs, segs', Workers, i, w, nextId, mid)
    BY <1>3, <2>1, StealKeeps
  <2> QED
    BY <2>2 DEF Split
<1>7. mid \in Nat /\ Total \in Nat /\ MinSplit \in Nat /\ MaxWrite \in Nat
  BY <1>6, ConstantTypes
<1> HIDE DEF mid
<1>9. wk' = Claimed(w, nextId, mid)
  BY <1>1 DEF mid
<1>10. /\ wk' \in [Workers -> Worker]
       /\ wk'[w].ph = "request" /\ wk'[w].seg = nextId /\ wk'[w].pos = mid
       /\ \A v \in Workers \ {w} : wk'[v] = wk[v]
       /\ ConnectionsBounded'
  BY <1>2, <1>3, <1>7, <1>9, ClaimedTask
<1>11. TypeOK'
  <2>1. nextId' \in Nat /\ DOMAIN segs' \subseteq 0 .. nextId' - 1
    BY <1>2, <1>3, <1>6
  <2> QED
    BY <1>2, <1>6, <1>10, <2>1 DEF IInv, TypeOK, IsMap, ConnLimit, Segmented
\* The victim's owner is another worker: with one connection there is none.
<1>12. Segmented
  <2>1. PICK v \in Workers : wk[v].ph \in Holding /\ wk[v].seg = i
    BY <1>4, <1>5 DEF IInv, OwnersAgree
  <2>2. v \in Live /\ v # w
    BY <1>4, <2>1 DEF Live, Running, Holding
  <2> QED
    BY <1>4, <2>2, OneConnection DEF IInv
<1>13. ASSUME NEW v \in Workers, v # w, wk'[v].ph \in Holding
       PROVE  /\ wk'[v] = wk[v] /\ wk[v].ph \in Holding
              /\ wk[v].seg \in DOMAIN segs /\ wk[v].seg \in DOMAIN segs'
              /\ segs'[wk[v].seg].state = "Active" /\ segs'[wk[v].seg].worker = v
              /\ segs'[wk[v].seg].pos = segs[wk[v].seg].pos
              /\ \/ segs'[wk[v].seg].end = segs[wk[v].seg].end
                 \/ segs[wk[v].seg].pos + MinSplit <= segs'[wk[v].seg].end
              /\ wk[v].len \in 0 .. MaxWrite /\ segs[wk[v].seg].pos \in Nat
              /\ segs'[wk[v].seg].end \in Nat
  <2>1. wk'[v] = wk[v] /\ wk[v].ph \in Holding /\ wk[v] \in Worker
    BY <1>4, <1>10, <1>13
  <2>2. /\ wk[v].seg \in DOMAIN segs /\ wk[v].seg \in DOMAIN segs'
        /\ segs[wk[v].seg].state = "Active" /\ segs[wk[v].seg].worker = v
    BY <1>6, <2>1, ClaimFacts
  <2>3. segs[wk[v].seg].pos \in Nat /\ segs'[wk[v].seg].end \in Nat
    BY <1>3, <1>6, <2>2, SegmentFields DEF IsMap
  <2>4. wk[v].len \in 0 .. MaxWrite
    BY <2>1 DEF Worker
  <2>5. CASE wk[v].seg = i
    BY <1>6, <2>1, <2>2, <2>3, <2>4, <2>5
  <2>6. CASE wk[v].seg # i
    BY <1>6, <2>1, <2>2, <2>3, <2>4, <2>6
  <2> QED
    BY <2>5, <2>6
<1>14. OwnersAgree'
  <2>1. ASSUME NEW v \in Workers, wk'[v].ph \in Holding
        PROVE  /\ wk'[v].seg \in DOMAIN segs'
               /\ segs'[wk'[v].seg].state = "Active" /\ segs'[wk'[v].seg].worker = v
    BY <1>6, <1>10, <1>13, <2>1
  <2>2. ASSUME NEW j \in DOMAIN segs', segs'[j].state = "Active", phase' = "Downloading"
        PROVE  \E v \in Workers : wk'[v].ph \in Holding /\ wk'[v].seg = j
    <3>1. CASE j = nextId
      BY <1>10, <3>1 DEF Holding
    <3>2. CASE j # nextId
      <4>1. j \in DOMAIN segs /\ segs[j].state = "Active"
        BY <1>5, <1>6, <2>2, <3>2
      <4>2. PICK v \in Workers : wk[v].ph \in Holding /\ wk[v].seg = j
        BY <1>4, <4>1 DEF IInv, OwnersAgree
      <4> QED
        BY <1>4, <1>10, <4>2 DEF Holding
    <3> QED
      BY <3>1, <3>2
  <2> QED
    BY <2>1, <2>2 DEF OwnersAgree
<1>15. RecordedIsWritten'
  BY <1>2, <1>6 DEF IInv, RecordedIsWritten
<1>16. WritesAreThere'
  BY <1>2, <1>10, <1>13 DEF IInv, WritesAreThere, Holding
<1>17. PositionsAgree'
  <2>1. ASSUME MaxWrite <= MinSplit, NEW v \in Workers, wk'[v].ph \in Holding
        PROVE  /\ wk'[v].pos = segs'[wk'[v].seg].pos
               /\ wk'[v].ph = "write" => wk'[v].pos + wk'[v].len <= segs'[wk'[v].seg].end
    <3>1. CASE v = w
      BY <1>6, <1>10, <3>1
    <3>2. CASE v # w
      <4>1. /\ wk[v].pos = segs[wk[v].seg].pos
            /\ wk[v].ph = "write" => wk[v].pos + wk[v].len <= segs[wk[v].seg].end
        BY <1>13, <2>1, <3>2 DEF IInv, PositionsAgree
      <4> QED
        BY <1>7, <1>13, <2>1, <3>2, <4>1
    <3> QED
      BY <3>1, <3>2
  <2> QED
    BY <2>1 DEF PositionsAgree, Holding
<1>18. StreamIsWhole' /\ NoEarlyEnd'
  BY <1>2, <1>4, <1>12 DEF StreamIsWhole, Ranges, Segmented, NoEarlyEnd
<1>19. MapStep
  <2>1. ASSUME NEW j \in DOMAIN segs' \ DOMAIN segs PROVE Remaining(segs'[j]) >= MinSplit
    <3>1. segs[i].end \in Nat
      BY <1>5, SegmentFields
    <3> QED
      BY <1>6, <1>7, <3>1 DEF Remaining
  <2>2. ASSUME NEW j \in DOMAIN segs, segs'[j].end # segs[j].end PROVE Remaining(segs'[j]) >= MinSplit
    BY <1>5, <1>6, <1>7, <2>2 DEF Remaining
  <2> QED
    BY <1>6, <2>1, <2>2 DEF MapStep
<1>20. QuietStep
  <2>1. remote \in Nat /\ version \in Nat
    BY DEF IInv, TypeOK, Versions
  <2> QED
    BY <1>2, <1>6, <1>10, <1>12, <1>13, <2>1 DEF QuietStep, OneSegment, Segmented, Ranges
<1> QED
  BY <1>20, <1>19, <1>6, <1>10, <1>11, <1>14, <1>15, <1>16, <1>17, <1>18 DEF IInv

(***************************************************************************)
(* Steps that write and record                                             *)
(***************************************************************************)

LEMMA ReceiveKeeps ==
  ASSUME IInv, NEW w \in Workers, Receive(w)
  PROVE  IInv'
<1>1. PICK n \in 1 .. MaxWrite :
        /\ wk[w].pos + n <= EndOf(segs, wk[w].seg)
        /\ disk' = [b \in Bytes |-> IF b \in Span(wk[w].pos, wk[w].pos + n)
                                    THEN wk[w].src ELSE disk[b]]
        /\ wk' = [wk EXCEPT ![w].ph = "write", ![w].len = n]
  BY DEF Receive, WrittenAt
<1>2. /\ wk[w].ph = "body"
      /\ UNCHANGED <<mode, segs, nextId, target, stop, phase, fatal, remote, version>>
  BY DEF Receive
<1>3. /\ wk \in [Workers -> Worker] /\ wk[w] \in Worker /\ wk[w].pos \in Nat /\ wk[w].src \in Versions
      /\ wk[w].seg \in DOMAIN segs /\ disk \in [Bytes -> Versions \cup {Blank}] /\ MaxWrite \in Nat
      /\ phase = "Downloading" \/ (phase = "Draining" /\ stop)
  BY <1>2, ClaimFacts, ConstantTypes DEF IInv, TypeOK, Holding, Worker
<1> DEFINE t == [wk[w] EXCEPT !.ph = "write", !.len = n]
<1>4. /\ t \in Worker /\ t.ph = "write" /\ t.len = n
      /\ t.seg = wk[w].seg /\ t.pos = wk[w].pos
  <2>1. n \in 0 .. MaxWrite
    BY <1>3
  <2>2. "write" \in Running \cup {"off", "exited", "fatal"}
    BY DEF Running, Holding
  <2>3. t \in Worker
    BY <1>3, <2>1, <2>2 DEF Worker
  <2> QED
    BY <1>3, <2>3 DEF Worker
<1>5. wk' = [wk EXCEPT ![w] = t]
  BY <1>1, <1>3 DEF Worker
<1> HIDE DEF t
<1>6. wk' \in [Workers -> Worker] /\ wk'[w] = t /\ \A v \in Workers \ {w} : wk'[v] = wk[v]
  BY <1>3, <1>4, <1>5
<1>7. /\ segs[wk[w].seg].end \in 0 .. Total /\ Total \in Nat
      /\ wk[w].pos + n <= segs[wk[w].seg].end
  BY <1>1, <1>3, SizeAssumption, SegsIsMap, SegmentFields DEF IInv, IsMap, EndOf
<1>8. /\ disk' \in [Bytes -> Versions \cup {Blank}]
      /\ \A b \in Bytes : disk[b] # Blank => disk'[b] # Blank
      /\ \A b \in Span(wk[w].pos, wk[w].pos + n) : b \in Bytes /\ disk'[b] # Blank
  <2>1. \A b \in Span(wk[w].pos, wk[w].pos + n) : b \in Bytes
    BY <1>3, <1>7 DEF Span, Bytes
  <2>2. wk[w].src # Blank
    BY <1>3, ConstantTypes
  <2> QED
    BY <1>1, <1>3, <2>1, <2>2
<1>9. TypeOK'
  BY <1>2, <1>6, <1>8 DEF IInv, TypeOK, ConnLimit, Segmented
<1>10. OwnersAgree'
  BY <1>2, <1>4, <1>6 DEF IInv, OwnersAgree, Holding
<1>11. RecordedIsWritten'
  <2>1. Recorded(segs) \subseteq Bytes
    BY RecordedInside, SegsIsMap DEF IInv
  <2> QED
    BY <1>2, <1>8, <2>1 DEF IInv, RecordedIsWritten
<1>12. WritesAreThere'
  <2>1. ASSUME NEW v \in Workers, wk'[v].ph = "write",
               NEW b \in Span(wk'[v].pos, wk'[v].pos + wk'[v].len)
        PROVE  b \in Bytes /\ disk'[b] # Blank
    <3>1. CASE v = w
      BY <1>4, <1>6, <1>8, <2>1, <3>1
    <3>2. CASE v # w
      BY <1>6, <1>8, <2>1, <3>2 DEF IInv, WritesAreThere
    <3> QED
      BY <3>1, <3>2
  <2> QED
    BY <2>1 DEF WritesAreThere
<1>13. PositionsAgree'
  BY <1>2, <1>4, <1>6, <1>7 DEF IInv, PositionsAgree, Holding
<1>14. ConnectionsBounded'
  <2>1. Live' = Live /\ ConnLimit' = ConnLimit
    BY <1>2, <1>4, <1>6 DEF Live, Running, Holding, ConnLimit, Segmented
  <2> QED
    BY <2>1 DEF IInv, ConnectionsBounded
<1>15. StreamIsWhole' /\ NoEarlyEnd'
  BY <1>2, <1>3 DEF IInv, StreamIsWhole, Ranges, Segmented, NoEarlyEnd
<1>16. WellFormed(segs')
  BY <1>2 DEF IInv
<1> QED
  BY <1>9, <1>10, <1>11, <1>12, <1>13, <1>14, <1>15, <1>16 DEF IInv

LEMMA RecordKeeps ==
  ASSUME IInv, NEW w \in Workers, Record(w)
  PROVE  IInv' /\ MapStep
<1> USE SizeAssumption
<1> DEFINE i == wk[w].seg
           from == wk[w].pos
           n == wk[w].len
           t == [wk[w] EXCEPT !.ph = "body", !.pos = from + n, !.len = 0]
<1>1. /\ wk[w].ph = "write" /\ segs' = Advance(segs, i, from, n)
      /\ wk' = [wk EXCEPT ![w].ph = "body", ![w].pos = @ + wk[w].len, ![w].len = 0]
      /\ UNCHANGED <<mode, nextId, target, disk, stop, phase, fatal, remote, version>>
  BY DEF Record
<1>2. /\ wk \in [Workers -> Worker] /\ wk[w] \in Worker /\ from \in Nat /\ n \in Nat /\ MaxWrite \in Nat
      /\ i \in DOMAIN segs /\ segs[i].state = "Active" /\ segs[i].worker = w
      /\ IsMap(segs, Workers) /\ WellFormed(segs)
      /\ phase = "Downloading" \/ (phase = "Draining" /\ stop)
  BY <1>1, ClaimFacts, ConstantTypes, SegsIsMap DEF IInv, TypeOK, Holding
<1>3. /\ t \in Worker /\ t.ph = "body" /\ t.seg = i /\ t.pos = from + n
  <2>1. from + n \in Nat /\ 0 \in 0 .. MaxWrite
    BY <1>2
  <2>2. "body" \in Running \cup {"off", "exited", "fatal"}
    BY DEF Running, Holding
  <2>3. t \in Worker
    BY <1>2, <2>1, <2>2 DEF Worker
  <2> QED
    BY <1>2, <2>3 DEF Worker
<1>4. wk' = [wk EXCEPT ![w] = t]
  BY <1>1, <1>2 DEF Worker
<1> HIDE DEF t
<1>5. wk' \in [Workers -> Worker] /\ wk'[w] = t /\ \A v \in Workers \ {w} : wk'[v] = wk[v]
  BY <1>2, <1>3, <1>4
<1>6. /\ IsMap(segs', Workers) /\ WellFormed(segs') /\ DOMAIN segs' = DOMAIN segs
      /\ Recorded(segs) \subseteq Recorded(segs')
      /\ Recorded(segs') \subseteq Recorded(segs) \cup Span(from, from + n)
  BY <1>1, <1>2, AdvanceKeeps
<1>7. /\ segs[i] \in Segment(Workers) /\ segs[i].pos \in Nat /\ segs[i].end \in Nat
      /\ segs'[i].state = "Active" /\ segs'[i].worker = w /\ segs'[i].end = segs[i].end
      /\ segs[i].pos = from /\ from + n <= segs[i].end => segs'[i].pos = from + n
      /\ \A j \in DOMAIN segs \ {i} : segs'[j] = segs[j]
  <2>1. segs[i] \in Segment(Workers) /\ segs[i].pos \in Nat /\ segs[i].end \in Nat
    BY <1>2, SegmentFields DEF IsMap
  <2>2. CASE segs[i].pos = from
    <3>1. segs' = [segs EXCEPT ![i].pos = from + MinOf(n, segs[i].end - from)]
      BY <1>1, <1>2, <2>2 DEF Advance
    <3>2. from + n <= segs[i].end => MinOf(n, segs[i].end - from) = n
      BY <1>2, <2>1 DEF MinOf
    <3> QED
      BY <1>2, <2>1, <3>1, <3>2 DEF Segment
  <2>3. CASE segs[i].pos # from
    <3>1. segs' = segs
      BY <1>1, <2>3 DEF Advance
    <3> QED
      BY <1>2, <2>1, <2>3, <3>1
  <2> QED
    BY <2>2, <2>3
<1>8. TypeOK'
  BY <1>1, <1>5, <1>6 DEF IInv, TypeOK, IsMap, ConnLimit, Segmented
<1>9. ASSUME NEW v \in Workers, v # w, wk'[v].ph \in Holding
      PROVE  /\ wk'[v] = wk[v] /\ wk[v].ph \in Holding
             /\ wk[v].seg \in DOMAIN segs' /\ segs'[wk[v].seg] = segs[wk[v].seg]
             /\ segs[wk[v].seg].state = "Active" /\ segs[wk[v].seg].worker = v
  <2>1. wk'[v] = wk[v] /\ wk[v].ph \in Holding
    BY <1>5, <1>9
  <2>2. /\ wk[v].seg # i /\ wk[v].seg \in DOMAIN segs
        /\ segs[wk[v].seg].state = "Active" /\ segs[wk[v].seg].worker = v
    BY <1>1, <1>9, <2>1, ClaimFacts DEF Holding
  <2> QED
    BY <1>6, <1>7, <2>1, <2>2
<1>10. OwnersAgree'
  <2>1. ASSUME NEW v \in Workers, wk'[v].ph \in Holding
        PROVE  /\ wk'[v].seg \in DOMAIN segs'
               /\ segs'[wk'[v].seg].state = "Active" /\ segs'[wk'[v].seg].worker = v
    BY <1>2, <1>3, <1>5, <1>6, <1>7, <1>9, <2>1
  <2>2. ASSUME NEW j \in DOMAIN segs', segs'[j].state = "Active", phase' = "Downloading"
        PROVE  \E v \in Workers : wk'[v].ph \in Holding /\ wk'[v].seg = j
    <3>1. CASE j = i
      BY <1>3, <1>5, <3>1 DEF Holding
    <3>2. CASE j # i
      <4>1. PICK v \in Workers : wk[v].ph \in Holding /\ wk[v].seg = j
        BY <1>1, <1>6, <1>7, <2>2, <3>2 DEF IInv, OwnersAgree
      <4> QED
        BY <1>5, <3>2, <4>1
    <3> QED
      BY <3>1, <3>2
  <2> QED
    BY <2>1, <2>2 DEF OwnersAgree
<1>11. RecordedIsWritten'
  BY <1>1, <1>6 DEF IInv, RecordedIsWritten, WritesAreThere
<1>12. WritesAreThere'
  BY <1>1, <1>3, <1>5, <1>9 DEF IInv, WritesAreThere, Holding
<1>13. PositionsAgree'
  <2>1. ASSUME MaxWrite <= MinSplit, NEW v \in Workers, wk'[v].ph \in Holding
        PROVE  /\ wk'[v].pos = segs'[wk'[v].seg].pos
               /\ wk'[v].ph = "write" => wk'[v].pos + wk'[v].len <= segs'[wk'[v].seg].end
    <3>1. CASE v = w
      <4>1. segs[i].pos = from /\ from + n <= segs[i].end
        BY <1>1, <2>1 DEF IInv, PositionsAgree, Holding
      <4> QED
        BY <1>3, <1>5, <1>7, <3>1, <4>1
    <3>2. CASE v # w
      BY <1>9, <2>1, <3>2 DEF IInv, PositionsAgree
    <3> QED
      BY <3>1, <3>2
  <2> QED
    BY <2>1 DEF PositionsAgree, Holding
<1>14. ConnectionsBounded'
  <2>1. Live' = Live /\ ConnLimit' = ConnLimit
    BY <1>1, <1>3, <1>5 DEF Live, Running, Holding, ConnLimit, Segmented
  <2> QED
    BY <2>1 DEF IInv, ConnectionsBounded
<1>15. StreamIsWhole' /\ NoEarlyEnd'
  BY <1>1, <1>2, <1>6 DEF IInv, StreamIsWhole, Ranges, Segmented, NoEarlyEnd
<1>16. MapStep
  BY <1>6 DEF MapStep
<1> QED
  BY <1>6, <1>8, <1>10, <1>11, <1>12, <1>13, <1>14, <1>15, <1>16 DEF IInv

(***************************************************************************)
(* One version of the remote file                                          *)
(***************************************************************************)

\* Steps of tasks that take no claim, write nothing and record nothing.
LEMMA TasksAgree ==
  ASSUME VInv, UNCHANGED <<mode, segs, disk, version>>,
         version \in Nat, remote \in Nat, remote' \in Nat, remote <= remote',
         \A w \in Workers : wk'[w] = wk[w] \/ wk'[w].ph \notin Holding
  PROVE  VInv'
<1>1. OneSegment'
  BY DEF VInv, OneSegment, Segmented
<1>2. QuietStep
  BY <1>1 DEF QuietStep
<1> QED
  BY <1>2, QuietKeeps

\* An answer to a range is of the probed version; one to a plain GET comes
\* when nothing is recorded yet.
LEMMA RespondAgrees ==
  ASSUME IInv, VInv, NEW w \in Workers, Respond(w)
  PROVE  VInv'
<1>1. /\ wk \in [Workers -> Worker] /\ wk[w].ph = "request"
      /\ wk' = [wk EXCEPT ![w].ph = "body", ![w].src = remote]
      /\ UNCHANGED <<mode, segs, nextId, target, disk, stop, phase, fatal, remote, version>>
      /\ remote \in Nat /\ version \in Nat /\ version <= remote
  BY DEF Respond, IInv, TypeOK, Versions, VInv
<1>2. /\ wk'[w].ph = "body" /\ wk'[w].src = remote
      /\ wk'[w].seg = wk[w].seg /\ wk'[w].pos = wk[w].pos
      /\ \A v \in Workers \ {w} : wk'[v] = wk[v]
  BY <1>1 DEF Worker
<1>3. Segmented' = Segmented /\ Ranges' = Ranges /\ \A v : Answered(v) <=> v = version' \/ (~ Segmented' /\ version' < remote')
  BY <1>1 DEF Segmented, Ranges, Answered
<1>4. OnePosition'
  BY <1>1, <1>2, <1>3 DEF VInv, OnePosition, Holding
<1>5. ~ Segmented /\ wk[w].pos = 0 => Recorded(segs) = {}
  <2>1. wk[w].seg \in DOMAIN segs
    BY <1>1, ClaimFacts DEF Holding
  <2>2. ~ Segmented => segs[wk[w].seg].pos = wk[w].pos
    BY <1>1 DEF VInv, OnePosition, Holding
  <2> QED
    BY <2>1, <2>2, NothingBeforeZero DEF VInv
<1>6. ~ Ranges => wk[w].pos = 0 /\ ~ Segmented
  BY <1>1 DEF VInv, OnePosition, Ranges, Segmented
<1>7. ~ Segmented => wk[w].pos = 0 \/ wk[w].pos > 0
  <2>1. wk[w].pos \in Nat
    BY <1>1, ClaimFacts DEF Holding
  <2> QED
    BY <2>1
<1>8. IfRange /\ Ranges =>
        /\ Answered(remote)
        /\ \A b \in Recorded(segs) : Answered(disk[b]) /\ disk[b] = remote
  <2> SUFFICES ASSUME IfRange, Ranges
               PROVE  /\ Answered(remote)
                      /\ \A b \in Recorded(segs) : Answered(disk[b]) /\ disk[b] = remote
    OBVIOUS
  <2>1. \A b \in Recorded(segs) : Answered(disk[b])
    BY DEF VInv, AnswersAgree
  <2>2. CASE remote = version
    BY <1>1, <2>1, <2>2 DEF Answered
  <2>3. CASE remote # version
    <3>1. ~ RangedRequest(w)
      BY <2>3 DEF Respond, Honoured
    <3>2. ~ Segmented /\ Recorded(segs) = {}
      BY <1>5, <1>7, <3>1 DEF RangedRequest
    <3> QED
      BY <1>1, <2>3, <3>2 DEF Answered
  <2> QED
    BY <2>2, <2>3
<1>9. IfRange \/ ~ Ranges => \A b \in Recorded(segs) : disk[b] = remote
  BY <1>5, <1>6, <1>8
<1>10. AnswersAgree'
  <2>1. ASSUME NEW v \in Workers, wk'[v].ph \in {"body", "write"}
        PROVE  \/ v = w /\ wk'[v].ph = "body" /\ wk'[v].src = remote
               \/ v # w /\ wk'[v] = wk[v]
    BY <1>2, <2>1
  <2>2. IfRange \/ ~ Ranges =>
          \A v \in Workers : wk'[v].ph \in {"body", "write"} =>
            \A b \in Recorded(segs) : disk[b] = wk'[v].src
    BY <1>9, <2>1 DEF VInv, AnswersAgree
  <2>3. IfRange \/ ~ Ranges =>
          \A v \in Workers : wk'[v].ph = "write" =>
            \A b \in Span(wk'[v].pos, wk'[v].pos + wk'[v].len) : disk[b] = wk'[v].src
    BY <2>1 DEF VInv, AnswersAgree
  <2>4. IfRange /\ Ranges =>
          /\ \A b \in Recorded(segs) : Answered(disk[b])
          /\ \A v \in Workers : wk'[v].ph \in {"body", "write"} => Answered(wk'[v].src)
    BY <1>8, <2>1 DEF VInv, AnswersAgree
  <2>5. IfRange \/ ~ Ranges => OneVersion
    BY DEF VInv, AnswersAgree
  <2> QED
    BY <1>1, <1>3, <2>2, <2>3, <2>4, <2>5 DEF AnswersAgree, OneVersion, Answered
<1> QED
  BY <1>1, <1>4, <1>10 DEF VInv, OneSegment, Segmented

\* Who else is at work while w writes, and what w has got.
LEMMA BodyFacts ==
  ASSUME IInv, VInv, NEW w \in Workers, wk[w].ph \in {"body", "write"}
  PROVE  /\ ~ Segmented => \A v \in Workers : wk[v].ph \in Holding => v = w
         /\ IfRange \/ ~ Ranges => \A b \in Recorded(segs) : disk[b] = wk[w].src
         /\ IfRange \/ ~ Ranges => \A v \in Workers : wk[v].ph \in {"body", "write"} => wk[v].src = wk[w].src
         /\ IfRange /\ Ranges => Answered(wk[w].src)
         /\ ~ Ranges => ~ Segmented
<1>1. ~ Ranges => ~ Segmented
  BY DEF Ranges, Segmented
<1>2. ~ Segmented => \A v \in Workers : wk[v].ph \in Holding => v = w
  BY OneClaim DEF Holding
<1>3. IfRange /\ Segmented => \A v \in Workers : wk[v].ph \in {"body", "write"} => wk[v].src = version
  BY DEF VInv, AnswersAgree, Answered, Ranges, Segmented
<1>4. IfRange \/ ~ Ranges => \A v \in Workers : wk[v].ph \in {"body", "write"} => wk[v].src = wk[w].src
  BY <1>1, <1>2, <1>3 DEF Holding
<1> QED
  BY <1>1, <1>2, <1>4 DEF VInv, AnswersAgree

LEMMA ReceiveAgrees ==
  ASSUME IInv, VInv, NEW w \in Workers, Receive(w)
  PROVE  VInv'
<1>1. PICK n \in 1 .. MaxWrite :
        /\ wk[w].pos + n <= EndOf(segs, wk[w].seg)
        /\ disk' = [b \in Bytes |-> IF b \in Span(wk[w].pos, wk[w].pos + n)
                                    THEN wk[w].src ELSE disk[b]]
        /\ wk' = [wk EXCEPT ![w].ph = "write", ![w].len = n]
  BY DEF Receive, WrittenAt
<1>2. /\ wk \in [Workers -> Worker] /\ wk[w].ph = "body" /\ wk[w].seg \in DOMAIN segs
      /\ UNCHANGED <<mode, segs, nextId, target, stop, phase, fatal, remote, version>>
  BY ClaimFacts DEF Receive, IInv, TypeOK, Holding
<1>3. /\ wk'[w].ph = "write" /\ wk'[w].src = wk[w].src /\ wk'[w].len = n
      /\ wk'[w].seg = wk[w].seg /\ wk'[w].pos = wk[w].pos
      /\ \A v \in Workers \ {w} : wk'[v] = wk[v]
  BY <1>1, <1>2 DEF Worker
<1>4. Segmented' = Segmented /\ Ranges' = Ranges /\ \A v : Answered(v) <=> v = version' \/ (~ Segmented' /\ version' < remote')
  BY <1>2 DEF Segmented, Ranges, Answered
<1>5. OnePosition'
  BY <1>1, <1>2, <1>3, <1>4 DEF VInv, OnePosition, Holding, EndOf
<1>6. IfRange \/ ~ Ranges => \A b \in Recorded(segs) : disk'[b] = wk[w].src
  <2>1. Recorded(segs) \subseteq Bytes
    BY RecordedInside, SegsIsMap DEF IInv
  <2> QED
    BY <1>1, <1>2, <2>1, BodyFacts
<1>7. ASSUME NEW v \in Workers, wk'[v].ph = "write", IfRange \/ ~ Ranges,
             NEW b \in Span(wk'[v].pos, wk'[v].pos + wk'[v].len)
      PROVE  disk'[b] = wk'[v].src
  <2>1. b \in Bytes
    BY <1>7, ReceiveKeeps DEF IInv, WritesAreThere
  <2>2. CASE v = w
    BY <1>1, <1>3, <1>7, <2>1, <2>2
  <2>3. CASE v # w
    <3>1. wk'[v] = wk[v] /\ disk[b] = wk[v].src /\ wk[v].src = wk[w].src
      BY <1>2, <1>3, <1>7, <2>3, BodyFacts DEF VInv, AnswersAgree
    <3> QED
      BY <1>1, <2>1, <3>1
  <2> QED
    BY <2>2, <2>3
<1>8. ASSUME NEW v \in Workers, wk'[v].ph \in {"body", "write"}
      PROVE  wk[v].ph \in {"body", "write"} /\ wk'[v].src = wk[v].src
  BY <1>2, <1>3, <1>8
<1>9. AnswersAgree'
  <2>1. IfRange \/ ~ Ranges =>
          /\ \A b, c \in Recorded(segs) : disk'[b] = disk'[c]
          /\ \A v \in Workers : wk'[v].ph \in {"body", "write"} =>
               \A b \in Recorded(segs) : disk'[b] = wk'[v].src
    BY <1>2, <1>6, <1>8, BodyFacts
  <2>2. IfRange /\ Ranges =>
          /\ \A b \in Recorded(segs) : Answered(disk'[b])
          /\ \A v \in Workers : wk'[v].ph \in {"body", "write"} => Answered(wk'[v].src)
    <3>1. IfRange /\ Ranges => \A v \in Workers : wk'[v].ph \in {"body", "write"} => Answered(wk'[v].src)
      BY <1>8 DEF VInv, AnswersAgree
    <3> QED
      BY <1>2, <1>6, <3>1, BodyFacts
  <2> QED
    BY <1>2, <1>4, <1>7, <2>1, <2>2 DEF AnswersAgree, OneVersion, Answered
<1> QED
  BY <1>2, <1>5, <1>9 DEF VInv, OneSegment, Segmented

LEMMA RecordAgrees ==
  ASSUME IInv, VInv, NEW w \in Workers, Record(w)
  PROVE  VInv'
<1> USE SizeAssumption
<1> DEFINE i == wk[w].seg
           from == wk[w].pos
           n == wk[w].len
<1>1. /\ wk[w].ph = "write" /\ segs' = Advance(segs, i, from, n)
      /\ wk' = [wk EXCEPT ![w].ph = "body", ![w].pos = @ + wk[w].len, ![w].len = 0]
      /\ UNCHANGED <<mode, nextId, target, disk, stop, phase, fatal, remote, version>>
  BY DEF Record
<1>2. /\ wk \in [Workers -> Worker] /\ from \in Nat /\ n \in Nat /\ i \in DOMAIN segs
      /\ IsMap(segs, Workers) /\ WellFormed(segs)
  BY <1>1, ClaimFacts, SegsIsMap DEF IInv, TypeOK, Holding
<1>3. /\ wk'[w].ph = "body" /\ wk'[w].src = wk[w].src
      /\ wk'[w].seg = i /\ wk'[w].pos = from + n
      /\ \A v \in Workers \ {w} : wk'[v] = wk[v]
  BY <1>1, <1>2 DEF Worker
<1>4. /\ IsMap(segs', Workers) /\ DOMAIN segs' = DOMAIN segs
      /\ Recorded(segs') \subseteq Recorded(segs) \cup Span(from, from + n)
  BY <1>1, <1>2, AdvanceKeeps
<1>5. Segmented' = Segmented /\ Ranges' = Ranges /\ \A v : Answered(v) <=> v = version' \/ (~ Segmented' /\ version' < remote')
  BY <1>1 DEF Segmented, Ranges, Answered
<1>6. ASSUME ~ Segmented PROVE segs'[i].pos = from + n
  <2>1. segs[i].pos = from /\ from + n <= segs[i].end
    BY <1>1, <1>6 DEF VInv, OnePosition, Holding
  <2>2. segs[i] \in Segment(Workers) /\ segs[i].end \in Nat
    BY <1>2, SegmentFields DEF IsMap
  <2>3. MinOf(n, segs[i].end - from) = n
    BY <1>2, <2>1, <2>2 DEF MinOf
  <2>4. segs' = [segs EXCEPT ![i].pos = from + n]
    BY <1>1, <1>2, <2>1, <2>3 DEF Advance
  <2> QED
    BY <1>2, <2>2, <2>4 DEF Segment
<1>7. OnePosition'
  <2> SUFFICES ASSUME ~ Segmented, NEW v \in Workers, wk'[v].ph \in Holding
               PROVE  /\ wk'[v].pos = segs'[wk'[v].seg].pos
                      /\ wk'[v].ph = "write" => wk'[v].pos + wk'[v].len <= segs'[wk'[v].seg].end
                      /\ ~ Ranges /\ wk'[v].ph = "request" => wk'[v].pos = 0
    BY <1>5 DEF OnePosition, Holding
  <2>1. v = w
    BY <1>1, <1>3, BodyFacts
  <2> QED
    BY <1>3, <1>6, <2>1
<1>8. IfRange \/ ~ Ranges => \A b \in Recorded(segs') : disk[b] = wk[w].src
  BY <1>1, <1>4 DEF VInv, AnswersAgree
<1>9. ASSUME NEW v \in Workers, wk'[v].ph \in {"body", "write"}
      PROVE  /\ wk[v].ph \in {"body", "write"} /\ wk'[v].src = wk[v].src
             /\ wk'[v].ph = "write" => wk'[v] = wk[v] /\ wk[v].ph = "write"
  BY <1>1, <1>3, <1>9
<1>10. AnswersAgree'
  <2>1. IfRange \/ ~ Ranges =>
          /\ \A b, c \in Recorded(segs') : disk[b] = disk[c]
          /\ \A v \in Workers : wk'[v].ph \in {"body", "write"} =>
               \A b \in Recorded(segs') : disk[b] = wk'[v].src
    BY <1>1, <1>8, <1>9, BodyFacts
  <2>2. IfRange \/ ~ Ranges =>
          \A v \in Workers : wk'[v].ph = "write" =>
            \A b \in Span(wk'[v].pos, wk'[v].pos + wk'[v].len) : disk[b] = wk'[v].src
    BY <1>9 DEF VInv, AnswersAgree
  <2>3. IfRange /\ Ranges =>
          \A v \in Workers : wk'[v].ph \in {"body", "write"} => Answered(wk'[v].src)
    BY <1>9 DEF VInv, AnswersAgree
  <2>4. IfRange /\ Ranges => \A b \in Recorded(segs') : Answered(disk[b])
    BY <1>1, <1>8, BodyFacts
  <2> QED
    BY <1>1, <1>5, <2>1, <2>2, <2>3, <2>4 DEF AnswersAgree, OneVersion, Answered
<1> QED
  BY <1>1, <1>4, <1>7, <1>10 DEF VInv, OneSegment, Segmented

LEMMA StepAgrees ==
  ASSUME IInv, VInv, [Next]_vars
  PROVE  VInv'
<1>1. wk \in [Workers -> Worker] /\ remote \in Nat /\ version \in Nat
  BY DEF IInv, TypeOK, Versions
<1>2. CASE UNCHANGED vars
  BY <1>1, <1>2, TasksAgree DEF vars
<1>3. ASSUME NEW w \in Workers, WorkerStep(w) PROVE VInv'
  <2>1. CASE LeaveOnStop(w) \/ Retire(w) \/ LeaveIdle(w)
    <3>1. /\ UNCHANGED <<mode, segs, disk, remote, version>>
          /\ wk' = [wk EXCEPT ![w].ph = "exited"]
      BY <2>1 DEF LeaveOnStop, Retire, LeaveIdle
    <3>2. wk'[w].ph = "exited" /\ \A v \in Workers \ {w} : wk'[v] = wk[v]
      BY <1>1, <3>1 DEF Worker
    <3>3. \A v \in Workers : wk'[v] = wk[v] \/ wk'[v].ph \notin Holding
      BY <3>2 DEF Holding
    <3> QED
      BY <1>1, <3>1, <3>3, TasksAgree
  <2>2. CASE Respond(w)
    BY <2>2, RespondAgrees
  <2>3. CASE ClaimPending(w) \/ ClaimSteal(w)
    BY <2>3, ClaimPendingKeeps, ClaimStealKeeps, QuietKeeps
  <2>4. CASE Receive(w)
    BY <2>4, ReceiveAgrees
  <2>5. CASE Record(w)
    BY <2>5, RecordAgrees
  <2>6. CASE Complete(w) \/ FailTransient(w) \/ FailPermanent(w) \/ Refresh(w) \/ StopBody(w)
    BY <2>6, GiveUpKeeps, QuietKeeps
  <2> QED
    BY <1>3, <2>1, <2>2, <2>3, <2>4, <2>5, <2>6 DEF WorkerStep
<1>4. ASSUME RunnerStep \/ RequestStop \/ ReplaceRemote PROVE VInv'
  <2>1. CASE ObserveStop \/ EndAttempt \/ RequestStop \/ ReplaceRemote
    <3>1. /\ UNCHANGED <<mode, segs, wk, disk, version>>
          /\ remote' = remote \/ remote' = remote + 1
      BY <2>1 DEF ObserveStop, EndAttempt, RequestStop, ReplaceRemote
    <3> QED
      BY <1>1, <3>1, TasksAgree
  <2>2. CASE Tick
    <3>1. PICK W \in SUBSET Idle : wk' = [v \in Workers |-> IF v \in W THEN Fresh ELSE wk[v]]
      BY <2>2 DEF Tick
    <3>2. \A v \in Workers : wk'[v] = wk[v] \/ wk'[v].ph \notin Holding
      BY <3>1, TaskTypes DEF Holding
    <3> QED
      BY <1>1, <2>2, <3>2, TasksAgree DEF Tick
  <2>3. ASSUME NEW w \in Workers, JoinExited(w) \/ JoinFatal(w) \/ Drain(w)
        PROVE  VInv'
    <3>1. \A v \in Workers : wk'[v] = wk[v] \/ wk'[v].ph \notin Holding
      <4>1. \A v \in Workers : wk'[v] \in {wk[v], Off, Fresh}
        BY <1>1, <2>3 DEF JoinExited, JoinFatal, Drain
      <4> QED
        BY <4>1, TaskTypes DEF Holding
    <3> QED
      BY <1>1, <2>3, <3>1, TasksAgree DEF JoinExited, JoinFatal, Drain
  <2> QED
    BY <1>4, <2>1, <2>2, <2>3 DEF RunnerStep
<1> QED
  BY <1>2, <1>3, <1>4 DEF Next

(***************************************************************************)
(* The theorems                                                            *)
(***************************************************************************)

LEMMA StepKeeps ==
  ASSUME IInv, [Next]_vars
  PROVE  IInv' /\ MapStep
<1>1. ASSUME segs' = segs PROVE MapStep
  BY <1>1 DEF MapStep
<1>2. CASE UNCHANGED vars
  <2>1. IInv'
    BY <1>2 DEF vars, IInv, TypeOK, OwnersAgree, RecordedIsWritten, WritesAreThere, PositionsAgree,
       ConnectionsBounded, StreamIsWhole, NoEarlyEnd, Live, ConnLimit, Segmented, Ranges
  <2> QED
    BY <1>1, <1>2, <2>1 DEF vars
<1>3. ASSUME NEW w \in Workers, WorkerStep(w) PROVE IInv' /\ MapStep
  <2>1. CASE LeaveOnStop(w) \/ Retire(w) \/ LeaveIdle(w)
    <3>1. segs' = segs
      BY <2>1 DEF LeaveOnStop, Retire, LeaveIdle
    <3> QED
      BY <1>1, <2>1, <3>1, LeaveKeeps
  <2>2. CASE Respond(w)
    BY <1>1, <2>2, RespondKeeps DEF Respond
  <2>3. CASE ClaimPending(w) \/ ClaimSteal(w)
    BY <2>3, ClaimPendingKeeps, ClaimStealKeeps
  <2>4. CASE Receive(w)
    BY <1>1, <2>4, ReceiveKeeps DEF Receive
  <2>5. CASE Record(w)
    BY <2>5, RecordKeeps
  <2>6. CASE Complete(w) \/ FailTransient(w) \/ FailPermanent(w) \/ Refresh(w) \/ StopBody(w)
    BY <2>6, GiveUpKeeps
  <2> QED
    BY <1>3, <2>1, <2>2, <2>3, <2>4, <2>5, <2>6 DEF WorkerStep
<1>4. ASSUME RunnerStep \/ RequestStop \/ ReplaceRemote PROVE IInv' /\ MapStep
  <2>1. CASE Tick
    BY <1>1, <2>1, TickKeeps DEF Tick
  <2>2. CASE ObserveStop \/ EndAttempt \/ RequestStop \/ ReplaceRemote
    <3>1. segs' = segs
      BY <2>2 DEF ObserveStop, EndAttempt, RequestStop, ReplaceRemote
    <3> QED
      BY <1>1, <2>2, <3>1, LoopKeeps
  <2>3. ASSUME NEW w \in Workers, JoinExited(w) \/ JoinFatal(w) \/ Drain(w)
        PROVE  IInv' /\ MapStep
    <3>1. segs' = segs
      BY <2>3 DEF JoinExited, JoinFatal, Drain
    <3> QED
      BY <1>1, <2>3, <3>1, JoinExitedKeeps, JoinFatalKeeps, LeaveKeeps
  <2> QED
    BY <1>4, <2>1, <2>2, <2>3 DEF RunnerStep
<1> QED
  BY <1>2, <1>3, <1>4 DEF Next

\* The inductive invariant: what the model checker finds in the instances of
\* MCKuHttpWorkers holds for every file, team of workers and write size.
THEOREM Invariant == Spec => []IInv
<1>1. IInv /\ [Next]_vars => IInv'
  BY StepKeeps
<1> QED
  BY InitIsInvariant, <1>1, PTL DEF Spec

\* Types.
THEOREM TypeCorrect == Spec => []TypeOK
<1>1. IInv => TypeOK
  BY DEF IInv
<1> QED
  BY <1>1, Invariant, PTL

\* No sequence of claims, splits, advances, failures, releases and merges
\* opens a gap or makes two segments overlap (segment.rs, check).
THEOREM SegmentsTileTheFile == Spec => []MapTiles
<1>1. IInv => MapTiles
  BY DEF IInv, WellFormed, MapTiles
<1> QED
  BY <1>1, Invariant, PTL

\* Every segment at work belongs to one task, and that task knows it.
THEOREM OwnershipIsExclusive == Spec => []OwnersAgree
<1>1. IInv => OwnersAgree
  BY DEF IInv
<1> QED
  BY <1>1, Invariant, PTL

\* Only what was written counts as downloaded, although a thief may move the
\* boundary between the write and the advance (worker.rs, flush).
THEOREM RecordedBytesAreWritten == Spec => []RecordedIsWritten
<1>1. IInv => RecordedIsWritten
  BY DEF IInv
<1> QED
  BY <1>1, Invariant, PTL

\* The reason why min_split is twice the write buffer: a write under way never
\* reaches into what a thief took.
THEOREM WritesAreExclusive == Spec => []WritesStayInside
<1>1. IInv => WritesStayInside
  BY DEF IInv, PositionsAgree, WritesStayInside, Holding
<1> QED
  BY <1>1, Invariant, PTL

\* What is recorded is one version of the remote file, when If-Range guards
\* the ranges or a stream starts over (validate_partial), although the file
\* may be replaced between any two requests.
THEOREM RecordedIsOneVersion == Spec => []OneVersion
<1>1. Init => IInv /\ VInv
  BY InitIsInvariant, InitVersions
<1>2. IInv /\ VInv /\ [Next]_vars => (IInv /\ VInv)'
  BY StepKeeps, StepAgrees
<1>3. VInv => OneVersion
  BY DEF VInv, AnswersAgree, OneVersion
<1> QED
  BY <1>1, <1>2, <1>3, PTL DEF Spec

\* Spawning and retiring from one counter never exceeds the maximum.
THEOREM ConnectionsAreBounded == Spec => []ConnectionsBounded
<1>1. IInv => ConnectionsBounded
  BY DEF IInv
<1> QED
  BY <1>1, Invariant, PTL

\* is_complete looks at positions; together with the tiling they are the file.
LEMMA CompleteIsAll ==
  ASSUME TypeOK, IsComplete(segs)
  PROVE  Recorded(segs) = Bytes
<1>1. ASSUME NEW b \in Bytes PROVE b \in Recorded(segs)
  <2>1. PICK j \in DOMAIN segs : b \in Span(segs[j].start, segs[j].end)
    BY DEF IsComplete, Tiles
  <2> QED
    BY <2>1, RecordedByte DEF IsComplete
<1> QED
  BY <1>1, RecordedInside, SegsIsMap

\* The select loop reports success only with every byte recorded.
THEOREM SuccessMeansComplete == Spec => []SuccessIsComplete
<1>1. IInv => SuccessIsComplete
  BY CompleteIsAll DEF IInv, NoEarlyEnd, SuccessIsComplete
<1> QED
  BY <1>1, Invariant, PTL

\* No split leaves a part below min_split.
THEOREM SplitsAreLarge == Spec => SplitsStayLarge
<1>1. IInv /\ [Next]_vars =>
        [\A i \in DOMAIN segs' \ DOMAIN segs :
           /\ Remaining(segs'[i]) >= MinSplit
           /\ \A j \in DOMAIN segs : segs'[j].end # segs[j].end =>
                Remaining(segs'[j]) >= MinSplit]_vars
  BY StepKeeps DEF MapStep
<1> QED
  BY <1>1, Invariant, PTL DEF Spec, SplitsStayLarge

\* The attempt implements the abstract transfer.
LEMMA StepRefines ==
  ASSUME IInv, IInv', [Next]_vars
  PROVE  [Transfer!Next]_<<Ranges, Recorded(segs), Outcome>>
<1>1. MapStep /\ Recorded(segs') \subseteq Bytes
  <2>1. /\ nextId' \in Nat /\ DOMAIN segs' \subseteq 0 .. nextId' - 1
        /\ \A i \in DOMAIN segs' : segs'[i] \in Segment(Workers)
    BY DEF IInv, TypeOK
  <2>2. \A n \in Nat : 0 .. n - 1 \subseteq Nat
    OBVIOUS
  <2>3. IsMap(segs', Workers)
    BY <2>1, <2>2 DEF IsMap
  <2> QED
    BY <2>3, StepKeeps, RecordedInside
<1>2. CASE UNCHANGED vars
  BY <1>2 DEF vars, Ranges, Recorded, Outcome
<1>3. CASE EndAttempt
  <2>1. phase = "Draining" /\ phase' = "Ended" /\ UNCHANGED <<mode, segs, stop, fatal>>
    BY <1>3 DEF EndAttempt
  <2>2. Ranges' = Ranges /\ Recorded(segs)' = Recorded(segs) /\ Outcome = "going"
    BY <2>1 DEF Ranges, Recorded, Outcome
  <2>3. CASE fatal \/ stop
    BY <2>1, <2>2, <2>3 DEF Outcome, Transfer!Next, Transfer!GiveUp
  <2>4. CASE ~ (fatal \/ stop)
    <3>1. Recorded(segs) = Bytes
      BY <2>1, <2>4, CompleteIsAll DEF IInv, NoEarlyEnd
    <3> QED
      BY <2>1, <2>2, <2>4, <3>1 DEF Outcome, Transfer!Next, Transfer!Succeed
  <2> QED
    BY <2>3, <2>4
<1>4. CASE phase # "Ended" /\ phase' # "Ended" /\ mode' = mode
  <2>1. Outcome = "going" /\ Outcome' = "going" /\ Ranges' = Ranges
    BY <1>4 DEF Outcome, Ranges
  <2>2. CASE Recorded(segs) \subseteq Recorded(segs')
    BY <1>1, <2>1, <2>2 DEF Transfer!Next, Transfer!Arrive
  <2>3. CASE ~ Ranges /\ Recorded(segs') = {}
    BY <2>1, <2>3 DEF Transfer!Next, Transfer!StartOver
  <2> QED
    BY <1>1, <2>2, <2>3 DEF MapStep
<1>5. ASSUME NEW w \in Workers, WorkerStep(w)
      PROVE  phase # "Ended" /\ phase' # "Ended" /\ mode' = mode
  <2>1. wk[w].ph # "off" /\ phase' = phase /\ mode' = mode
    BY <1>5 DEF WorkerStep, LeaveOnStop, Retire, MayClaim, ClaimPending, ClaimSteal, LeaveIdle, Respond,
       Receive, Record, Complete, FailTransient, FailPermanent, Refresh, StopBody, Holding
  <2> QED
    BY <2>1 DEF IInv, NoEarlyEnd
<1>6. ASSUME RunnerStep \/ RequestStop \/ ReplaceRemote, ~ EndAttempt
      PROVE  phase # "Ended" /\ phase' # "Ended" /\ mode' = mode
  BY <1>6 DEF RunnerStep, Tick, ObserveStop, JoinExited, JoinFatal, Drain, RequestStop, ReplaceRemote
<1> QED
  BY <1>2, <1>3, <1>4, <1>5, <1>6 DEF Next

\* No claim, split, failure, release, merge, retirement or abort loses a
\* recorded byte, a stream without ranges loses all or nothing, and success
\* means every byte, whatever the sizes and the number of workers.
THEOREM WorkersImplementTransfer == Spec => ImplementsTransfer
<1>1. Init => Transfer!Init
  <2> SUFFICES ASSUME Init PROVE Transfer!Init
    OBVIOUS
  <2>1. Recorded(segs) = {}
    BY SizeAssumption, ConstantTypes, InitialMapIsWellFormed DEF Init
  <2>2. Outcome = "going" /\ Ranges \in BOOLEAN
    BY DEF Init, Outcome, Ranges
  <2> QED
    BY <2>1, <2>2 DEF Transfer!Init
<1>2. IInv /\ IInv' /\ [Next]_vars => [Transfer!Next]_<<Ranges, Recorded(segs), Outcome>>
  BY StepRefines
<1> QED
  BY <1>1, <1>2, Invariant, PTL DEF Spec, ImplementsTransfer, Transfer!Spec
=============================================================================
