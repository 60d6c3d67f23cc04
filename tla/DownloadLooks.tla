---------------------------- MODULE DownloadLooks ----------------------------
(***************************************************************************)
(* One download as it is shown at four places: its row of the list         *)
(* (downloads/DownloadList.tsx), the toolbar while it alone is selected    *)
(* (DownloadsView.tsx), the details (Inspector.tsx) with their technical   *)
(* tabs and the map of its pieces, and the glyph.  What each place says    *)
(* and offers follows from the download, which changes underneath, or      *)
(* gives way to another one: the details stay open, and their tab with it. *)
(*                                                                         *)
(* Two parts with a next-state relation each: the looks and the pieces.    *)
(* External: the core, which sends any download it may have, and aria2's   *)
(* field of pieces.  Limit is the number of squares the map has at most    *)
(* (600 in the code).                                                      *)
(***************************************************************************)
EXTENDS Integers, FiniteSets, Sequences

CONSTANTS PieceCounts, Limit

DownloadLooksAssumption == PieceCounts \subseteq Nat /\ Limit \in Nat \ {0}

VARIABLES
  d, another,        \* the download; the state of another one that is listed
  open, tab,         \* the technical details
  have, count        \* the pieces it has, of how many

lookVars == <<d, another, open, tab>>
dlVars == <<lookVars, have, count>>

Made == {<<"http", "aria2">>, <<"http", "kuhttp">>, <<"magnet", "aria2">>, <<"torrent", "aria2">>, <<"media", "ytdlp">>}

Statuses == {"queued", "downloading", "processing", "paused", "seeding", "completed", "error"}

\* Only a torrent seeds and only media is merged; what is complete has its size.
Downloads ==
  {[kind |-> m[1], engine |-> m[2], status |-> s, total |-> n[1], done |-> n[2]] :
     m \in Made, s \in Statuses, n \in {<<0, 0>>, <<0, 5>>, <<10, 5>>, <<10, 10>>}}

Possible ==
  {x \in Downloads : /\ x.status = "seeding" => x.kind \in {"magnet", "torrent"}
                     /\ x.status = "processing" => x.kind = "media"
                     /\ x.status \in {"completed", "seeding"} => x.total = x.done
                     /\ x.total > 0 => x.done <= x.total}

-----------------------------------------------------------------------------
(* What can be done with it *)

CanPause(s) == s \in {"downloading", "processing", "queued", "seeding"}
CanResume(s) == s \in {"paused", "error"}

\* What is enabled in the toolbar, its menus included, while it alone is selected.
Toolbar ==
  {b \in {"resume", "stop", "stop selected", "delete selected", "delete completed"} :
    CASE b = "resume" -> CanResume(d.status)
      [] b = "stop" -> CanPause(d.status) \/ CanPause(another)
      [] b = "stop selected" -> CanPause(d.status)
      [] b = "delete selected" -> TRUE
      [] b = "delete completed" -> "completed" \in {d.status, another}}

Finished == d.status \in {"completed", "seeding"}
Active == d.status \in {"downloading", "processing"}

\* The details' notice of a failure, with what helps.
Failure == IF d.status = "error" THEN {"retry"} \cup (IF d.engine = "aria2" THEN {"new link"} ELSE {}) ELSE {}

\* Mutated form: a failed download is tried again in its notice only, and so is a paused one.
ActionsUnpaused ==
  {b \in {"open", "folder", "pause", "remove"} : (b = "open" => Finished) /\ (b = "pause" => CanPause(d.status))}

Actions ==
  {b \in {"open", "folder", "pause", "resume", "remove"} :
    CASE b = "open" -> Finished
      [] b = "pause" -> CanPause(d.status)
      [] b = "resume" -> CanResume(d.status) /\ d.status # "error"
      [] b \in {"folder", "remove"} -> TRUE}

\* The progress of what is not finished: how much, and whether a bar can tell it.
Progress ==
  IF Finished THEN "none"
  ELSE IF (Active /\ d.total = 0) \/ d.status = "processing" THEN "moving"
  ELSE IF d.total > 0 THEN "percent" ELSE "unknown"

-----------------------------------------------------------------------------
(* Its row *)

\* Mutated form: what waits or rests says so, however far it is.
StatusCellPlain == IF d.status \in {"queued", "paused"} THEN d.status ELSE IF d.total > 0 THEN "percent" ELSE "bytes"

StatusCell ==
  CASE d.status = "downloading" ->
         IF d.kind = "magnet" /\ d.total = 0 THEN "metadata" ELSE IF d.total > 0 THEN "percent" ELSE "bytes"
    [] d.status \in {"paused", "queued"} ->
         IF d.done > 0 /\ d.total > 0 THEN "percent" ELSE IF d.status = "queued" THEN "queued" ELSE "not started"
    [] OTHER -> d.status

Row ==
  [status |-> StatusCell,
   bar    |-> d.status \in {"downloading", "paused", "queued"} /\ d.total > 0 /\ d.done > 0,
   size   |-> IF d.total > 0 THEN "total" ELSE IF d.done > 0 THEN "done" ELSE "",
   left   |-> IF d.status # "downloading" THEN "" ELSE IF d.total > d.done THEN "time" ELSE "dash",
   rate   |-> IF d.status = "downloading" THEN "down" ELSE IF d.status = "seeding" THEN "up" ELSE "",
   date   |-> ~(d.status = "queued" /\ d.done = 0)]

-----------------------------------------------------------------------------
(* The technical details *)

Bt == d.kind \in {"torrent", "magnet"}

Tabs ==
  (IF (d.engine = "aria2" /\ ~Bt) \/ d.engine = "kuhttp" THEN <<"connections">> ELSE <<>>)
  \o (IF d.engine = "aria2" THEN <<"pieces">> ELSE <<>>)
  \o (IF Bt THEN <<"files", "peers", "trackers">> ELSE <<>>) \o <<"log">>

\* What the tab's page needs to have something to show.
Pane ==
  CASE tab = "connections" -> IF d.engine = "kuhttp" THEN "segments" ELSE "servers"
    [] tab = "pieces" -> "map"
    [] tab \in {"files", "peers", "trackers"} -> "torrent"
    [] tab = "log" -> "log"

Provided == {"log"} \cup (IF d.engine = "kuhttp" THEN {"segments"} ELSE IF d.engine = "aria2" THEN {"servers", "map"} ELSE {})
  \cup (IF Bt THEN {"torrent"} ELSE {})

\* Mutated form: the tab stays.
SettledKept(t, tabs) == t

\* The effect after the rendering: a tab that is gone gives way to the first.
Settled(t, tabs) == IF \E k \in DOMAIN tabs : tabs[k] = t THEN t ELSE tabs[1]

-----------------------------------------------------------------------------

DlInit ==
  /\ d = [kind |-> "http", engine |-> "aria2", status |-> "queued", total |-> 0, done |-> 0] /\ another \in {"paused", "completed"}
  /\ open = FALSE /\ tab = Tabs[1]
  /\ count \in PieceCounts /\ have = {}

\* The download changes, or another is selected.
Shows(x) == x # d /\ d' = x /\ tab' = Settled(tab, Tabs') /\ UNCHANGED <<another, open, have, count>>

Expand == open' = ~open /\ UNCHANGED <<d, another, tab, have, count>>

SetTab == \E k \in DOMAIN Tabs : open /\ tab' = Tabs[k] /\ UNCHANGED <<d, another, open, have, count>>

NextLooks == (\E x \in Possible : Shows(x)) \/ Expand \/ SetTab

-----------------------------------------------------------------------------
(* The map of pieces *)

Up(a, b) == (a + b - 1) \div b

\* aria2: a hexadecimal digit for four pieces, the first of them its highest bit.
Bit(p) == IF p \in have THEN 1 ELSE 0
Bitfield == [k \in 1 .. Up(count, 4) |-> 8 * Bit(4 * k - 4) + 4 * Bit(4 * k - 3) + 2 * Bit(4 * k - 2) + Bit(4 * k - 1)]

\* Mutated form: the lowest bit first.
PiecesLowFirst(digits, n) == [p \in 1 .. n |-> (digits[Up(p, 4)] \div 2 ^ ((p - 1) % 4)) % 2 = 1]

Pieces(digits, n) == [p \in 1 .. n |-> (digits[Up(p, 4)] \div 2 ^ (3 - ((p - 1) % 4))) % 2 = 1]

\* A long map shows every so many pieces only.
MapShown ==
  LET map == Pieces(Bitfield, count)  every == IF count > Limit THEN Up(count, Limit) ELSE 1 IN
    [k \in 1 .. Up(count, every) |-> map[(k - 1) * every + 1]]

NextPieces == \E p \in 0 .. count - 1 : p \notin have /\ have' = have \cup {p} /\ UNCHANGED <<lookVars, count>>

DlSpec == DlInit /\ [][NextLooks \/ NextPieces]_dlVars

-----------------------------------------------------------------------------
(* Properties *)

DlTypeOK ==
  /\ d \in Possible /\ another \in Statuses /\ open \in BOOLEAN
  /\ tab \in {"connections", "pieces", "files", "peers", "trackers", "log"} /\ have \subseteq 0 .. count - 1

\* Every place offers the same way on: what is not finished can be stopped or
\* continued, in the details just when in the toolbar, and never both.
SameWay ==
  /\ ("resume" \in Toolbar) = ("resume" \in Actions \/ "retry" \in Failure)
  /\ ("stop selected" \in Toolbar) = ("pause" \in Actions)
  /\ d.status # "completed" => ("resume" \in Toolbar) # ("stop selected" \in Toolbar)

\* A row with a bar says how far it is, and the details do so too; time left is
\* there only when the size is known.
RowAgrees ==
  /\ Row.bar => Row.status = "percent" /\ Progress = "percent"
  /\ Row.left = "time" => Row.size = "total"

\* The technical details show a page the download has, also after it, or its engine,
\* was replaced by another while they were open.
PaneProvided == Pane \in Provided

\* The map never has more squares than fit, is lit all over when every piece is
\* there, and a lit square is a piece that is there.
MapHonest ==
  /\ Len(MapShown) <= Limit /\ (count > 0 => Len(MapShown) > 0)
  /\ have = 0 .. count - 1 => \A k \in DOMAIN MapShown : MapShown[k]
  /\ Cardinality({k \in DOMAIN MapShown : MapShown[k]}) <= Cardinality(have)
  /\ count <= Limit => \A p \in 0 .. count - 1 : MapShown[p + 1] = (p \in have)

=============================================================================
