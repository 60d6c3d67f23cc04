---------------------------- MODULE ProgressWindow ----------------------------
(***************************************************************************)
(* The window of one download (app/ProgressWindow.tsx).  When it opens it  *)
(* asks for the download (get_download) and subscribes to the events; the  *)
(* two do not keep an order, and what the core sends before the            *)
(* subscription is lost.  While the download is live and the details are   *)
(* shown they are asked for again and again.  Its buttons pause, resume,   *)
(* open the file and close.                                                *)
(*                                                                         *)
(* A row is a status and the bytes done; Gone is a download that was       *)
(* removed.  Details are segments or a bit field, as the engine has them.  *)
(* Of the core (core.rs) there is the download, changed by its engine or   *)
(* by anybody, and what it does for the buttons; an event leaves with the  *)
(* change (module Store has what becomes of events that do not).           *)
(* Bounds: MaxChanges changes in the core, MaxCalls calls at a time.       *)
(***************************************************************************)
EXTENDS Integers, Sequences, FiniteSets

LOCAL INSTANCE SequencesExt
LOCAL INSTANCE FiniteSetsExt

CONSTANTS
  Answers,     \* of details: [segments, bits], one of them empty
  Total, CellCount, MaxChanges, MaxCalls

ProgressAssumption == Total \in Nat /\ CellCount \in Nat \ {0} /\ Total % CellCount = 0 /\ MaxChanges \in Nat /\ MaxCalls \in Nat

VARIABLES
  row, changes, events,     \* the core
  get, answer, listening,   \* the two requests of the opening window
  d, shown, closed, error,
  more, details, loads,     \* loads: details requests, alive or not
  calls,                    \* of the buttons; whether the window then closes
  missed, crossed           \* an event came before the subscription; before an older answer

winVars == <<d, shown, closed, error>>
detailVars == <<more, details, loads>>
pwVars == <<row, changes, events, get, answer, listening, winVars, detailVars, calls, missed, crossed>>

Row(status, done) == [status |-> status, done |-> done]
Gone == Row("gone", 0)
NoRow == Row("none", 0)
NoDetails == [segments |-> <<>>, bits |-> <<>>]
Statuses == {"queued", "downloading", "processing", "paused", "error", "completed", "seeding"}
Active == {"downloading", "processing", "seeding"}
Live == d.status \in Active
Complete == d.status \in {"completed", "seeding"}

PwInit ==
  /\ row = Row("downloading", 0) /\ changes = 0 /\ events = <<>>
  /\ get = "sent" /\ answer = NoRow /\ listening = FALSE
  /\ d = NoRow /\ shown = FALSE /\ closed = FALSE /\ error = FALSE
  /\ more = TRUE /\ details = NoDetails /\ loads = {}
  /\ calls = {} /\ missed = FALSE /\ crossed = FALSE

-----------------------------------------------------------------------------
(* The core *)

Emit(type) ==
  /\ events' = IF listening THEN Append(events, [type |-> type, row |-> row']) ELSE events
  /\ missed' = (missed \/ (~listening /\ get # "sent"))

CoreChanges(new) ==
  /\ changes < MaxChanges /\ changes' = changes + 1
  /\ row # Gone /\ row # new /\ row' = new
  /\ Emit(IF new = Gone THEN "removed" ELSE IF new.status = row.status THEN "progress" ELSE "upsert")
  /\ UNCHANGED <<get, answer, listening, winVars, detailVars, calls, crossed>>

CoreAnswers ==
  /\ get = "sent" /\ get' = "answered" /\ answer' = row
  /\ UNCHANGED <<row, changes, events, listening, winVars, detailVars, calls, missed, crossed>>

\* What a call makes of the status: seeding that is stopped is complete.
Result(kind, status) ==
  CASE kind = "pause" /\ status = "seeding" -> "completed"
    [] kind = "pause" /\ status \in (Active \cup {"queued"}) \ {"seeding"} -> "paused"
    [] kind = "resume" /\ status \in {"paused", "error"} -> "queued"
    [] OTHER -> status

\* Only opening the file may fail.
CoreActs(c, ok) ==
  /\ c \in calls /\ c.phase = "sent" /\ (ok \/ c.kind = "open")
  /\ LET to == Result(c.kind, row.status) IN
     IF to # row.status
     THEN /\ changes < MaxChanges /\ changes' = changes + 1
          /\ row' = Row(to, row.done) /\ Emit("upsert")
     ELSE UNCHANGED <<row, changes, events, missed>>
  /\ calls' = (calls \ {c}) \cup {[c EXCEPT !.phase = IF ok THEN "done" ELSE "failed"]}
  /\ UNCHANGED <<get, answer, listening, winVars, detailVars, crossed>>

-----------------------------------------------------------------------------
(* The window.  Once it is closed nothing is left of it. *)

\* Mutated form: requests outlive what they were made for.
StillAliveAlways == loads

\* The requests of details that still count after the step.
StillAlive == IF Live' /\ more' THEN loads ELSE {[l EXCEPT !.alive = FALSE] : l \in loads}

Shows(new) == d' = new /\ UNCHANGED <<more, details>> /\ loads' = StillAlive

Listen ==
  /\ ~closed /\ ~listening /\ listening' = TRUE
  /\ UNCHANGED <<row, changes, events, get, answer, winVars, detailVars, calls, missed, crossed>>

\* The answer is taken, even when events that are newer were handled before.
AnswerArrives ==
  /\ ~closed /\ get \in {"answered", "overtaken"} /\ get' = "taken"
  /\ IF answer = Gone THEN closed' = TRUE /\ UNCHANGED <<d, detailVars>> ELSE Shows(answer) /\ UNCHANGED closed
  /\ crossed' = (crossed \/ get = "overtaken")
  /\ UNCHANGED <<row, changes, events, answer, listening, shown, error, calls, missed>>

\* Mutated form: progress counts once the window is shown.
MergedShown(old, new) == IF old = NoRow \/ ~shown THEN old ELSE new

\* A progress event changes the progress of a row that is there.
Merged(old, new) == IF old = NoRow THEN old ELSE new

HandleEvent ==
  /\ ~closed /\ events # <<>> /\ events' = Tail(events)
  /\ LET e == Head(events) IN
       CASE e.type = "upsert" -> Shows(e.row) /\ UNCHANGED closed
         [] e.type = "progress" -> Shows(Merged(d, e.row)) /\ UNCHANGED closed
         [] e.type = "removed" -> closed' = TRUE /\ UNCHANGED <<d, detailVars>>
  /\ get' = IF get = "answered" THEN "overtaken" ELSE get
  /\ UNCHANGED <<row, changes, answer, listening, shown, error, calls, missed, crossed>>

\* The window fits its content, and is shown once it has some.
Fit ==
  /\ ~closed /\ d # NoRow /\ ~shown /\ shown' = TRUE
  /\ UNCHANGED <<row, changes, events, get, answer, listening, d, closed, error, detailVars, calls, missed, crossed>>

Steady == UNCHANGED <<row, changes, events, get, answer, listening, missed, crossed>>

\* A request that still counts at a time; any number of others.
Poll ==
  /\ ~closed /\ Live /\ more /\ \A l \in loads : ~l.alive
  /\ loads' = loads \cup {[alive |-> TRUE]}
  /\ Steady /\ UNCHANGED <<winVars, more, details, calls>>

\* A failure leaves what is shown.
LoadArrives(l, x) ==
  /\ ~closed /\ l \in loads /\ loads' = loads \ {l}
  /\ details' = IF l.alive THEN x ELSE details
  /\ Steady /\ UNCHANGED <<winVars, more, calls>>

ToggleMore ==
  /\ shown /\ ~closed /\ ~Complete /\ more' = ~more
  /\ Steady /\ UNCHANGED <<winVars, details, calls>> /\ loads' = StillAlive

\* The buttons stay while a call is on its way.
Act(kind, close) ==
  /\ shown /\ ~closed /\ Cardinality(calls) < MaxCalls
  /\ calls' = calls \cup {[kind |-> kind, close |-> close, phase |-> "sent"]}
  /\ Steady /\ UNCHANGED <<winVars, detailVars>>

\* Pause; Cancel does the same and closes.
Pause(close) == (Live \/ d.status = "queued") /\ ~Complete /\ Act("pause", close)
Resume == ~Live /\ d.status # "queued" /\ ~Complete /\ Act("resume", FALSE)

\* Open closes the window, Open folder does not.
Open(close) == Complete /\ Act("open", close)

Acted(c) ==
  /\ ~closed /\ c \in calls /\ c.phase # "sent" /\ calls' = calls \ {c}
  /\ closed' = (c.close /\ c.phase = "done") /\ error' = (error \/ c.phase = "failed")
  /\ Steady /\ UNCHANGED <<d, shown, detailVars>>

\* Hide, Close, or Cancel of what is not live.
Close ==
  /\ ~closed /\ shown /\ closed' = TRUE
  /\ Steady /\ UNCHANGED <<d, shown, error, detailVars, calls>>

PwNext ==
  \/ \E s \in Statuses : CoreChanges(Row(s, row.done))
  \/ row.done < Total /\ row.status \in Active /\ CoreChanges(Row(row.status, row.done + 1))
  \/ CoreChanges(Gone) \/ CoreAnswers \/ Listen \/ AnswerArrives \/ HandleEvent
  \/ Fit \/ Poll \/ ToggleMore \/ Resume \/ Close
  \/ \E b \in BOOLEAN : Pause(b) \/ Open(b) \/ \E c \in calls : CoreActs(c, b)
  \/ \E c \in calls : Acted(c)
  \/ \E l \in loads : \E x \in Answers \cup {details} : LoadArrives(l, x)

PwSpec == PwInit /\ [][PwNext]_pwVars

-----------------------------------------------------------------------------
(* mapCells: the bytes each cell of the map shows as downloaded; of a bit   *)
(* field, the pieces it stands for.                                        *)

Width == Total \div CellCount

\* Mutated form: a segment fills each cell it touches.
OverlapTouched(from, to, i) == IF from < (i + 1) * Width /\ i * Width < to THEN Width ELSE 0

Overlap(from, to, i) == Max({0, Min({(i + 1) * Width, to}) - Max({i * Width, from})})

Cells(segments) ==
  [i \in 0 .. CellCount - 1 |->
     Min({Width, FoldLeft(LAMBDA n, s : n + Overlap(s.start, s.start + s.got, i), 0, segments)})]

Slice(bits, i) ==
  LET m == Min({CellCount, Len(bits)}) IN ((i * Len(bits)) \div m) + 1 .. ((i + 1) * Len(bits)) \div m

-----------------------------------------------------------------------------
PwTypeOK ==
  /\ d.status \in Statuses \cup {"none"} /\ d.done \in 0 .. Total
  /\ {shown, closed, error, more} \subseteq BOOLEAN /\ details \in Answers \cup {NoDetails}

\* With every event handled, the window shows the download as it is and is
\* closed if it was removed, unless an event came before it listened or before
\* an older answer.
RowFollows ==
  ~closed /\ events = <<>> /\ get = "taken" /\ listening /\ ~missed /\ ~crossed => d = row

\* Details change only while the download is live and they are shown: an answer
\* that comes later is dropped.
DetailsOnlyLive == details' # details => Live /\ more

\* The map shows each downloaded byte once, and each piece in one cell.
MapAddsUp ==
  /\ LET c == Cells(details.segments) IN
       FoldLeft(LAMBDA n, i : n + c[i - 1], 0, [i \in 1 .. CellCount |-> i])
         = FoldLeft(LAMBDA n, s : n + s.got, 0, details.segments)
  /\ details.bits # <<>> =>
       LET m == Min({CellCount, Len(details.bits)}) IN
         \A p \in DOMAIN details.bits : Cardinality({i \in 0 .. m - 1 : p \in Slice(details.bits, i)}) = 1
===============================================================================
