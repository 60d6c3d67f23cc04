----------------------------- MODULE SegmentMap -----------------------------
(***************************************************************************)
(* The live segment map of a segmented HTTP download                       *)
(* (crates/kucore/src/kuhttp/segment.rs), as operators on a map S from     *)
(* segment ids to segments.                                                *)
(*                                                                         *)
(* The code keeps the segments in a Vec sorted by start and looks them up  *)
(* by id; here the map is a function whose domain is the set of live ids   *)
(* and "before", "next to" are read off the offsets.  Speeds, sample times *)
(* and activity times are left out: nothing below depends on them.         *)
(***************************************************************************)
EXTENDS Integers, FiniteSets

CONSTANTS
  Total,      \* size of the file in bytes (the map covers 0 .. Total-1)
  Align,      \* split points are multiples of it (ALIGN, 64 KiB)
  MinSplit,   \* smallest part a split may create (Job::min_split)
  MaxRetries, \* RetryPolicy::max_retries, all that a retry count is compared with
  NoWorker    \* Segment::worker is None

\* min_split is max(min_segment_size, 2 * write_buffer), 2 MiB by default:
\* never below the alignment.  SegmentMap::new needs it for its ids to be
\* distinct (see InitialMap).
ASSUME SizeAssumption ==
  /\ Total \in Nat
  /\ Align \in Nat \ {0}
  /\ MinSplit \in Nat
  /\ MinSplit >= Align
  /\ MaxRetries \in Nat

MinOf(a, b) == IF a <= b THEN a ELSE b
MaxOf(a, b) == IF a >= b THEN a ELSE b

\* The offsets of the file.
Bytes == 0 .. Total - 1

\* The offsets of a range [from, to).
Span(from, to) == from .. to - 1

AlignUp(v) == ((v + Align - 1) \div Align) * Align

Remaining(s) == s.end - s.pos

\* Segment::new: nothing left to do makes a segment Done at once.
NewSegment(start, end, pos) ==
  [ start |-> start, end |-> end, pos |-> pos,
    state |-> IF pos >= end THEN "Done" ELSE "Pending",
    worker |-> NoWorker, retries |-> 0, claimPos |-> pos ]

\* Segments that one of the owners, or nobody, may hold.
Segment(owners) ==
  [ start : 0 .. Total, end : 0 .. Total, pos : 0 .. Total,
    state : {"Pending", "Active", "Done"}, worker : owners \cup {NoWorker},
    retries : 0 .. MaxRetries + 1, claimPos : 0 .. Total ]

-----------------------------------------------------------------------------
(* Building a map *)

\* How many segments a request for n of them really makes.
SegmentCount(n) ==
  IF Total = 0 THEN 1 ELSE MinOf(MaxOf(n, 1), MaxOf(Total \div MaxOf(MinSplit, 1), 1))

\* Where the i-th of k initial segments starts (and the one before it ends).
Boundary(i, k) ==
  IF i = k THEN Total ELSE MinOf(AlignUp((Total * i) \div k), Total)

\* SegmentMap::new.  A segment that would be empty is skipped but keeps its
\* number, so with empty ones the fresh id InitialNextId would already be in
\* use; MinSplit >= Align excludes it (theorem InitialMapIsFresh).
InitialMap(n) ==
  LET k == SegmentCount(n)
      kept == {i \in 0 .. k - 1 : \/ Boundary(i + 1, k) > Boundary(i, k)
                                  \/ Total = 0 /\ i = 0}
  IN  [i \in kept |-> NewSegment(Boundary(i, k), Boundary(i + 1, k), Boundary(i, k))]

NextIdOf(S) == Cardinality(DOMAIN S)

\* SegmentMap::persisted: what the resume state records of each segment.
Persisted(S) == {[start |-> S[i].start, end |-> S[i].end, pos |-> S[i].pos] : i \in DOMAIN S}

\* The bytes such a record says are written.
RecordedIn(P) == UNION {Span(r.start, r.pos) : r \in P}

\* SegmentMap::check: the segments tile [0, Total) and every position lies
\* inside its segment.  Byte by byte: each has exactly one segment.
Tiles(S) ==
  /\ \A i \in DOMAIN S : 0 <= S[i].start /\ S[i].start <= S[i].pos
                         /\ S[i].pos <= S[i].end /\ S[i].end <= Total
  /\ \A b \in Bytes : \E i \in DOMAIN S : b \in Span(S[i].start, S[i].end)
  /\ \A i, j \in DOMAIN S :
       i # j => S[i].end <= S[j].start \/ S[j].end <= S[i].start

\* Mutated form: a resumed segment starts again at its first byte.
FromPersistedStarts(P) ==
  [r \in 0 .. Cardinality(P) - 1 |->
     LET s == CHOOSE s \in P : Cardinality({t \in P : t.start < s.start}) = r
     IN  NewSegment(s.start, s.end, s.start)]

\* from_persisted followed by recovery's reset_active: ids are given in order
\* of start and no worker owns anything.
FromPersisted(P) ==
  [r \in 0 .. Cardinality(P) - 1 |->
     LET s == CHOOSE s \in P : Cardinality({t \in P : t.start < s.start}) = r
     IN  NewSegment(s.start, s.end, s.pos)]

-----------------------------------------------------------------------------
(* What the map says *)

\* The bytes recorded as written: [start, pos) of every segment.
Recorded(S) == UNION {Span(S[i].start, S[i].pos) : i \in DOMAIN S}

\* What the code keeps true of its map beside check: segments that start
\* together would be one too many, and Done means all of it.
WellFormed(S) ==
  /\ Tiles(S)
  /\ \A i, j \in DOMAIN S : i # j => S[i].start # S[j].start
  /\ \A i \in DOMAIN S : S[i].state = "Done" => S[i].pos = S[i].end

\* The same of a record of segments.
Recordable(P) ==
  /\ P \subseteq [start : 0 .. Total, end : 0 .. Total, pos : 0 .. Total]
  /\ \A r \in P : r.start <= r.pos /\ r.pos <= r.end
  /\ \A b \in Bytes : \E r \in P : b \in Span(r.start, r.end)
  /\ \A r, q \in P : r # q => /\ r.start # q.start
                              /\ r.end <= q.start \/ q.end <= r.start

IsComplete(S) == (\A i \in DOMAIN S : S[i].pos = S[i].end) /\ Tiles(S)

\* Mutated form: what another worker holds counts as pending.
UnfinishedWork(S) == {i \in DOMAIN S : S[i].pos < S[i].end}

PendingWork(S) == {i \in DOMAIN S : S[i].state = "Pending" /\ S[i].pos < S[i].end}

\* Mutated form: a rest is split that is large enough for one side only.
SplittableWithOneHalf(S) == {i \in DOMAIN S : S[i].state = "Active" /\ Remaining(S[i]) >= MinSplit}

Splittable(S) == {i \in DOMAIN S : S[i].state = "Active" /\ Remaining(S[i]) >= 2 * MinSplit}

HasWork(S) == PendingWork(S) # {} \/ Splittable(S) # {}

\* end_of and retries_of: 0 for a segment that is gone.
EndOf(S, i) == IF i \in DOMAIN S THEN S[i].end ELSE 0
RetriesOf(S, i) == IF i \in DOMAIN S THEN S[i].retries ELSE 0

-----------------------------------------------------------------------------
(* claim: pending work first, otherwise the back half of the largest rest *)

\* Segment i is the pending work that claim takes: the one furthest back.
IsNextPending(S, i) ==
  i \in PendingWork(S) /\ \A j \in PendingWork(S) : S[i].pos <= S[j].pos

TakePending(S, i, w) ==
  [S EXCEPT ![i].state = "Active", ![i].worker = w, ![i].claimPos = S[i].pos]

\* max_by_key returns the last of equals in the order of the file.
IsVictim(S, i) ==
  /\ PendingWork(S) = {}
  /\ i \in Splittable(S)
  /\ \A j \in Splittable(S) :
       \/ Remaining(S[j]) < Remaining(S[i])
       \/ Remaining(S[j]) = Remaining(S[i]) /\ S[j].start <= S[i].start

\* Mutated form: a rest is cut right where its owner has come to.
SplitPointAtRest(s) == MinOf(AlignUp(s.pos + 1), s.end - MinSplit)

SplitPoint(s) ==
  MaxOf(MinOf(AlignUp(s.pos + (Remaining(s) \div 2)), s.end - MinSplit), s.pos + MinSplit)

\* claim gives up when the split point leaves one side without work.
CanSplit(s) == s.pos < SplitPoint(s) /\ SplitPoint(s) < s.end

\* Mutated form: the victim keeps its end.
StealWithoutCutting(S, i, w, id) ==
  LET mid == SplitPoint(S[i]) IN
  [j \in DOMAIN S \cup {id} |->
     IF j = id THEN [NewSegment(mid, S[i].end, mid) EXCEPT !.state = "Active", !.worker = w] ELSE S[j]]

Steal(S, i, w, id) ==
  LET mid == SplitPoint(S[i]) IN
  [j \in DOMAIN S \cup {id} |->
     IF j = id THEN [NewSegment(mid, S[i].end, mid) EXCEPT !.state = "Active", !.worker = w]
     ELSE IF j = i THEN [S[i] EXCEPT !.end = mid] ELSE S[j]]

-----------------------------------------------------------------------------
(* advance, rewind, release *)

\* Mutated form: the position may pass the end.
AdvancePastEnd(S, i, from, n) ==
  IF i \in DOMAIN S /\ S[i].pos = from THEN [S EXCEPT ![i].pos = from + n] ELSE S

\* advance: stale positions are refused, and the end is never passed.
Advance(S, i, from, n) ==
  IF i \in DOMAIN S /\ S[i].pos = from
  THEN [S EXCEPT ![i].pos = from + MinOf(n, S[i].end - from)] ELSE S

Rewind(S, i) == [S EXCEPT ![i].pos = S[i].start]

\* Mutated forms: a worker that gives up leaves its segment done, loses what it
\* got, or does not count its failures.
ReleasedAsDone(s, failed) == [s EXCEPT !.worker = NoWorker, !.state = "Done"]

ReleasedFromStart(s, failed) ==
  IF s.pos >= s.end THEN [s EXCEPT !.worker = NoWorker, !.state = "Done"]
  ELSE [s EXCEPT !.worker = NoWorker, !.state = "Pending", !.pos = IF failed THEN s.start ELSE s.pos]

ReleasedUncounted(s, failed) ==
  [s EXCEPT !.worker = NoWorker, !.state = IF s.pos >= s.end THEN "Done" ELSE "Pending"]

\* Only failures without progress use up the retry budget.  The count stops at
\* the first value beyond the budget: renewed redirect targets can take it
\* further in the code, where no larger value is told apart.
Released(s, failed) ==
  IF s.pos >= s.end THEN [s EXCEPT !.worker = NoWorker, !.state = "Done"]
  ELSE [s EXCEPT !.worker = NoWorker, !.state = "Pending",
                 !.retries = IF ~failed THEN s.retries
                             ELSE IF s.pos > s.claimPos THEN 1
                             ELSE MinOf(s.retries, MaxRetries) + 1]

\* i and everything from it up to j is Done.
DoneUpTo(S, i, j) ==
  /\ S[i].start <= S[j].start
  /\ \A k \in DOMAIN S : S[i].start <= S[k].start /\ S[k].start <= S[j].start
                           => S[k].state = "Done"

\* The segments that open a run of completed ones, and all that are not Done.
RunHeads(S) == {i \in DOMAIN S : ~ \E j \in DOMAIN S : j # i /\ DoneUpTo(S, j, i)}

\* Mutated form: the merged run ends where its first segment does.
RunEndOfFirst(S, i) == S[i].end

RunEnd(S, i) ==
  CHOOSE e \in {S[j].end : j \in {j \in DOMAIN S : DoneUpTo(S, i, j)}} :
    \A j \in DOMAIN S : DoneUpTo(S, i, j) => S[j].end <= e

\* merge_done: every run of completed segments becomes its first one.
MergeDone(S) ==
  [i \in RunHeads(S) |->
     IF S[i].state = "Done"
     THEN [S[i] EXCEPT !.end = RunEnd(S, i), !.pos = RunEnd(S, i)] ELSE S[i]]

Release(S, i, failed) ==
  MergeDone(IF i \in DOMAIN S THEN [S EXCEPT ![i] = Released(S[i], failed)] ELSE S)
=============================================================================
