------------------------------- MODULE ListRows -------------------------------
(***************************************************************************)
(* The list of downloads as it is drawn (app/downloads/DownloadList.tsx    *)
(* and DownloadsView.tsx): which rows are there at all while the list is   *)
(* scrolled, in which order, the field of the search, and what is dropped  *)
(* on the list.  Selection and the calls to the core are in               *)
(* DownloadsScreen.                                                        *)
(*                                                                         *)
(* Three parts with a next-state relation each.  External: the web view's  *)
(* layout (it keeps the scroll position within the content and tells of it *)
(* later) and its drag events.  Bounds: Counts of rows, Heights of the     *)
(* list, Samples of downloads, MaxSteps of the search and of drops.        *)
(***************************************************************************)
EXTENDS Integers, FiniteSets, Sequences

CONSTANTS Counts, Heights, Overscan, Samples, MaxSteps

ListRowsAssumption == Counts \cup Heights \cup {Overscan, MaxSteps} \subseteq Nat

VARIABLES
  count, height, compact, cursor, scroll, seen,  \* rows, pixels; seen: what the page was told of scroll and height
  trio, sort, scope,                             \* three downloads, in which order
  shown, search, searching, asked,               \* the downloads view, its field; Ctrl F's event to come
  over, hint, reading, dialog, notices, steps    \* a drag, the hint; files being read, the add dialog

rowVars == <<count, height, compact, cursor, scroll, seen>>
orderVars == <<trio, sort, scope>>
searchVars == <<shown, search, searching, asked>>
dropVars == <<over, hint, reading, dialog, notices>>
lrVars == <<rowVars, orderVars, searchVars, dropVars, steps>>

Least(a, b) == IF a < b THEN a ELSE b
Most(a, b) == IF a < b THEN b ELSE a
Up(a, b) == (a + b - 1) \div b

Scopes == {"all", "unfinished", "finished", "queue"}
Nothing == [kind |-> "none", queue |-> FALSE]

\* The downloads to be ordered were all added at different times.
Trios == {t \in SUBSET Samples : Cardinality(t) = 3 /\ Cardinality({d.created : d \in t}) = 3}

LrInit ==
  /\ count \in Counts /\ height \in Heights /\ compact = FALSE /\ cursor = -1 /\ scroll = 0 /\ seen = [top |-> 0, height |-> height]
  /\ trio = (CHOOSE t \in Trios : TRUE) /\ scope = "all" /\ sort = [key |-> "added", dir |-> -1]
  /\ shown = TRUE /\ search = "" /\ searching = FALSE /\ asked = FALSE
  /\ over = "outside" /\ hint = FALSE /\ reading = 0 /\ dialog = Nothing /\ notices = 0 /\ steps = 0

-----------------------------------------------------------------------------
(* Rows: only those in view, and some around them, are drawn *)

RowH == IF compact THEN 28 ELSE 34

\* The web view keeps the scroll position within the content.
Within(y, n, h) == Most(0, Least(y, n * h - height))

First == Most(0, seen.top \div RowH - Overscan)

\* Mutated form: the rows below the first ones in view are forgotten.
LastOfTop == Least(count, Up(seen.top, RowH) + Overscan)

Last == Least(count, Up(seen.top + seen.height, RowH) + Overscan)

Drawn == First .. Last - 1

\* The list is scrolled, or changes its height; the page is told later.
Scrolls(y) ==
  /\ scroll' = Within(y, count, RowH) /\ scroll' # scroll
  /\ UNCHANGED <<count, height, compact, cursor, seen, orderVars, searchVars, dropVars, steps>>

Resizes(h) ==
  /\ h # height /\ height' = h /\ scroll' = Most(0, Least(scroll, count * RowH - h))
  /\ UNCHANGED <<count, compact, cursor, seen, orderVars, searchVars, dropVars, steps>>

SetViewport ==
  /\ seen' = [top |-> scroll, height |-> height] /\ seen' # seen
  /\ UNCHANGED <<count, height, compact, cursor, scroll, orderVars, searchVars, dropVars, steps>>

\* Rows come and go; the cursor stays on one.
IdsChange(n) ==
  /\ n # count /\ count' = n /\ cursor' = Least(cursor, n - 1) /\ scroll' = Within(scroll, n, RowH)
  /\ UNCHANGED <<height, compact, seen, orderVars, searchVars, dropVars, steps>>

SetCompact ==
  /\ compact' = ~compact /\ scroll' = Within(scroll, count, IF compact THEN 34 ELSE 28)
  /\ UNCHANGED <<count, height, cursor, seen, orderVars, searchVars, dropVars, steps>>

\* Mutated form: a row that begins in view counts as in view.
EnsureBegins(i) ==
  IF i * RowH < scroll THEN i * RowH
  ELSE IF i * RowH > scroll + height THEN i * RowH + RowH - height ELSE scroll

EnsureVisible(i) ==
  IF i * RowH < scroll THEN i * RowH
  ELSE IF i * RowH + RowH > scroll + height THEN i * RowH + RowH - height ELSE scroll

\* As many rows as are in view, but one.
PageOf == Most(1, seen.height \div RowH - 1)

Move(i) ==
  /\ count > 0 /\ cursor' = Most(0, Least(i, count - 1)) /\ scroll' = Within(EnsureVisible(cursor'), count, RowH)
  /\ UNCHANGED <<count, height, compact, seen, orderVars, searchVars, dropVars, steps>>

NextRows ==
  \/ \E y \in {0, 39, count * RowH} : Scrolls(y)
  \/ \E h \in Heights : Resizes(h)
  \/ SetViewport \/ SetCompact
  \/ \E n \in Counts : IdsChange(n)
  \/ \E i \in {cursor + 1, IF cursor < 0 THEN 0 ELSE cursor - 1, cursor + PageOf, cursor - PageOf, 0, count - 1} : Move(i)

-----------------------------------------------------------------------------
(* Order *)

Percent(d) == IF d.total = 0 THEN 0 ELSE Least(100, (d.done * 100) \div d.total)

\* Seconds left; beyond all of them when nobody can say.
Endless == 1000000
Eta(d) == IF d.speed = 0 \/ d.total <= d.done THEN Endless ELSE (d.total - d.done) \div d.speed

\* As the status' names sort.
Alphabet == [completed |-> 1, downloading |-> 2, error |-> 3, paused |-> 4, processing |-> 5, queued |-> 6, seeding |-> 7]

LastTry(d) == IF d.completed > 0 THEN d.completed ELSE d.created

\* What the column says of two downloads; 0 when it tells nothing.
ByColumn(a, b) ==
  CASE sort.key = "name" -> a.name - b.name
    [] sort.key = "size" -> a.total - b.total
    [] sort.key = "status" -> IF Percent(a) # Percent(b) THEN Percent(a) - Percent(b) ELSE Alphabet[a.status] - Alphabet[b.status]
    [] sort.key = "speed" -> a.speed - b.speed
    [] sort.key = "eta" -> Eta(a) - Eta(b)
    [] sort.key = "queue" -> IF a.position # b.position THEN a.position - b.position ELSE a.created - b.created
    [] sort.key = "added" -> LastTry(a) - LastTry(b)

\* Mutated form: nothing decides between what the column calls equal.
CompareTies(a, b) == ByColumn(a, b) * sort.dir

\* Then what was added later comes first.
CompareBy(a, b) == IF ByColumn(a, b) # 0 THEN ByColumn(a, b) * sort.dir ELSE b.created - a.created

\* All downloads by date: the finished ones last.
Before(a, b) ==
  LET late(d) == scope = "all" /\ sort.key = "added" /\ d.status = "completed" IN
    IF late(a) # late(b) THEN late(b) ELSE CompareBy(a, b) < 0

OnSort(k) ==
  /\ sort' = [key |-> k, dir |-> IF sort.key = k THEN -sort.dir ELSE IF k = "name" THEN 1 ELSE -1]
  /\ UNCHANGED <<rowVars, trio, scope, searchVars, dropVars, steps>>

SetFilter(s) ==
  /\ s # scope /\ scope' = s
  /\ sort' = IF s = "queue" THEN [key |-> "queue", dir |-> 1] ELSE [key |-> "added", dir |-> -1]
  /\ UNCHANGED <<rowVars, trio, searchVars, dropVars, steps>>

\* Others are listed.
Others(t) == t # trio /\ trio' = t /\ UNCHANGED <<rowVars, sort, scope, searchVars, dropVars, steps>>

NextOrder ==
  \/ \E k \in {"name", "queue", "size", "status", "eta", "speed", "added"} : OnSort(k)
  \/ \E s \in Scopes : SetFilter(s)
  \/ \E t \in Trios : Others(t)

-----------------------------------------------------------------------------
(* The search: its text outlives the view, its field does not *)

Limited == steps < MaxSteps /\ steps' = steps + 1 /\ UNCHANGED <<rowVars, orderVars>>

\* Mutated form: the view comes back without its field.
OpenedClosed == FALSE

Opened == search # ""

Navigate(to) ==
  /\ Limited /\ to # shown /\ shown' = to /\ searching' = IF to THEN Opened ELSE searching
  /\ UNCHANGED <<search, asked, dropVars>>

\* Ctrl F: the list is shown, then its field is opened.
FindKey ==
  /\ Limited /\ asked' = TRUE /\ shown' = TRUE /\ searching' = IF shown THEN searching ELSE Opened
  /\ UNCHANGED <<search, dropVars>>

OnFind ==
  /\ asked /\ asked' = FALSE /\ searching' = (shown \/ searching)
  /\ UNCHANGED <<rowVars, orderVars, shown, search, dropVars, steps>>

OpenSearch == Limited /\ shown /\ ~searching /\ searching' = TRUE /\ UNCHANGED <<shown, search, asked, dropVars>>

SetSearch(s) == Limited /\ shown /\ searching /\ search' = s /\ UNCHANGED <<shown, searching, asked, dropVars>>

EscapeSearch == Limited /\ shown /\ searching /\ search' = "" /\ searching' = FALSE /\ UNCHANGED <<shown, asked, dropVars>>

\* The field is left: an empty one closes.
BlurSearch == Limited /\ shown /\ searching /\ searching' = (search # "") /\ UNCHANGED <<shown, search, asked, dropVars>>

NextSearch ==
  \/ \E to \in BOOLEAN : Navigate(to)
  \/ FindKey \/ OnFind \/ OpenSearch \/ EscapeSearch \/ BlurSearch \/ \E s \in {"", "x"} : SetSearch(s)

-----------------------------------------------------------------------------
(* Dropping links and .torrent files *)

Places == {"outside", "rows", "header"}

DragOver(p) ==
  /\ Limited /\ p # "outside" /\ over \in {p, "outside"} /\ over' = p /\ hint' = TRUE
  /\ UNCHANGED <<searchVars, reading, dialog, notices>>

\* Mutated form: only what is left for another part of the page counts.
InsideUnknown(to) == to \in {"outside", "rows", "header"}

Inside(to) == to # "outside"

\* From one place to the next: within the list the hint stays.
DragLeave(to) ==
  /\ Limited /\ over # "outside" /\ to # over /\ over' = to /\ hint' = IF Inside(to) THEN hint ELSE FALSE
  /\ UNCHANGED <<searchVars, reading, dialog, notices>>

\* A .torrent file is read first, the first of several alone; links go to the add
\* dialog, into the queue that is shown; anything else is refused.
OnDrop(what) ==
  /\ Limited /\ over # "outside" /\ over' = "outside" /\ hint' = FALSE
  /\ reading' = IF what = "torrent" THEN reading + 1 ELSE reading
  /\ dialog' = IF what = "links" THEN [kind |-> "links", queue |-> scope = "queue"] ELSE dialog
  /\ notices' = IF what = "file" THEN notices + 1 ELSE notices
  /\ UNCHANGED searchVars

TorrentRead(ok) ==
  /\ reading > 0 /\ reading' = reading - 1
  /\ IF ok THEN dialog' = [kind |-> "torrent", queue |-> FALSE] /\ UNCHANGED notices
     ELSE notices' = notices + 1 /\ UNCHANGED dialog
  /\ UNCHANGED <<rowVars, orderVars, searchVars, over, hint, steps>>

CloseAdd == Limited /\ dialog # Nothing /\ dialog' = Nothing /\ UNCHANGED <<searchVars, over, hint, reading, notices>>

NextDrop ==
  \/ \E p \in Places : DragOver(p) \/ DragLeave(p)
  \/ \E what \in {"torrent", "links", "file", "comments"} : OnDrop(what)
  \/ CloseAdd \/ \E ok \in BOOLEAN : TorrentRead(ok)

LrSpec == LrInit /\ [][NextRows \/ NextOrder \/ NextSearch \/ NextDrop]_lrVars

-----------------------------------------------------------------------------
(* Properties *)

LrTypeOK ==
  /\ count \in Counts /\ height \in Heights /\ cursor \in -1 .. count - 1 /\ scroll \in 0 .. count * 34
  /\ sort.dir \in {1, -1} /\ scope \in Scopes /\ over \in Places /\ {shown, searching, asked, hint, compact} \subseteq BOOLEAN
  /\ {reading, notices, steps} \subseteq 0 .. MaxSteps

InView(i) == scroll <= i * RowH /\ i * RowH + RowH <= scroll + height

\* As soon as the page was told of the scroll position every row in view, in part or
\* whole, is drawn: no hole in the list, whatever its length, height and rows.
NoHoles ==
  seen = [top |-> scroll, height |-> height] =>
    \A i \in 0 .. count - 1 : i * RowH < scroll + height /\ i * RowH + RowH > scroll => i \in Drawn

\* A key that moves the cursor brings its row into view, however the list was
\* scrolled, resized or made compact before.
CursorSeen == cursor' # cursor /\ count' = count => InView(cursor)'

\* Whatever the column, the rows have one order: no two downloads change places from
\* one rendering to the next, and sorting them ends the same from any start.
OneOrder ==
  \A a, b \in trio :
    /\ a # b => Before(a, b) = ~Before(b, a)
    /\ \A c \in trio : Before(a, b) /\ Before(b, c) => Before(a, c)

\* A search that hides downloads can be seen, and ended.
SearchSeen == shown /\ search # "" => searching

\* The hint that asks for a drop is gone when nothing is dragged over the list.
HintHonest == hint => over # "outside"

=============================================================================
