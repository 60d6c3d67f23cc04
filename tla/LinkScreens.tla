------------------------------ MODULE LinkScreens ------------------------------
(***************************************************************************)
(* The two screens that add many links at once.                            *)
(*                                                                         *)
(* The links of a page (app/views/GrabberView.tsx): a page is read by the  *)
(* core, or the browser hands its links over (grabPrefill); they are       *)
(* filtered by type and text, ticked, and added.  The screen is shown all  *)
(* along; what a menu of queues would add is fixed when it opens.          *)
(*                                                                         *)
(* Batch downloads (app/views/BatchView.tsx): a text with a link per line, *)
(* a pattern that is expanded into links, and the call that adds them.     *)
(* A pattern is a sequence of ranges (text between them changes nothing    *)
(* and is left out), a line is the values of its ranges, padded to one     *)
(* width in the code; "junk" is a line that is no link, a "note" starts    *)
(* with #.  Limit is 5000 in the code.                                     *)
(*                                                                         *)
(* Bounds: MaxReads pages read or handed over, MaxLines lines typed,       *)
(* MaxAdds calls that add lines.                                           *)
(***************************************************************************)
EXTENDS Integers, Sequences, FiniteSets

LOCAL INSTANCE SequencesExt
LOCAL INSTANCE FiniteSetsExt

CONSTANTS
  Pages, Found,     \* the links of a page
  Kind, PageKinds,  \* of a link; those of web pages
  Matching,         \* the links the text filter finds
  MaxReads,
  Patterns, Limit, MaxLines, MaxAdds

LinksAssumption ==
  /\ DOMAIN Found = Pages /\ MaxReads \in Nat
  /\ Limit \in Nat \ {0} /\ MaxLines \in Nat /\ MaxAdds \in Nat

VARIABLES
  pageUrl, links, reading, error,
  filesOnly, filtered, types,
  selected, menu, adding, busy, reads,
  text, pattern, batchBusy, urls, edited, added, adds

viewVars == <<filesOnly, filtered>>
grabberVars == <<pageUrl, links, reading, error, viewVars, types, selected, menu, adding, busy, reads>>
batchVars == <<text, pattern, batchBusy, urls, edited, added, adds>>

-----------------------------------------------------------------------------
(* The links of a page *)

None == "none"

GrInit ==
  /\ pageUrl = None /\ links = {} /\ reading = None /\ error = FALSE
  /\ filesOnly = TRUE /\ filtered = FALSE /\ types = {}
  /\ selected = {} /\ menu = {} /\ adding = {} /\ busy = FALSE /\ reads = 0

\* The chips: the types of the links that are files (the sixteen most frequent).
AllTypes == {Kind[l] : l \in links} \ PageKinds

Visible ==
  {l \in links :
     /\ ~(filesOnly /\ Kind[l] \in PageKinds)
     /\ types # {} => Kind[l] \in types
     /\ filtered => l \in Matching}

Chosen == Visible \cap selected

\* Mutated form: the types chosen for the last page keep filtering.
NewListTypes(new) == links' = new /\ selected' = {} /\ UNCHANGED types

NewList(new) == links' = new /\ selected' = {} /\ types' = {}

\* An effect of grabPrefill.
HandedOver(p) ==
  /\ reads < MaxReads /\ reads' = reads + 1 /\ pageUrl' = p /\ NewList(Found[p])
  /\ UNCHANGED <<reading, error, viewVars, menu, adding, busy>>

User == menu' = {}

SetPageUrl(p) ==
  /\ User /\ pageUrl' = p
  /\ UNCHANGED <<links, reading, error, viewVars, types, selected, adding, busy, reads>>

FetchPage ==
  /\ User /\ pageUrl # None /\ reading = None
  /\ reads < MaxReads /\ reads' = reads + 1 /\ reading' = pageUrl /\ error' = FALSE
  /\ UNCHANGED <<pageUrl, links, viewVars, types, selected, adding, busy>>

\* The list is replaced even if one was handed over meanwhile.
Fetched(ok) ==
  /\ reading # None /\ reading' = None
  /\ IF ok THEN NewList(Found[reading]) /\ UNCHANGED error
     ELSE error' = TRUE /\ UNCHANGED <<links, selected, types>>
  /\ UNCHANGED <<pageUrl, viewVars, menu, adding, busy, reads>>

SetFilter(files, matching) ==
  /\ User /\ links # {} /\ filesOnly' = files /\ filtered' = matching
  /\ UNCHANGED <<pageUrl, links, reading, error, types, selected, adding, busy, reads>>

ToggleType(k) ==
  /\ User /\ k \in AllTypes /\ types' = IF k \in types THEN types \ {k} ELSE types \cup {k}
  /\ UNCHANGED <<pageUrl, links, reading, error, viewVars, selected, adding, busy, reads>>

Ticks(new) ==
  /\ User /\ selected' = new
  /\ UNCHANGED <<pageUrl, links, reading, error, viewVars, types, adding, busy, reads>>

ToggleLink(l) == l \in Visible /\ Ticks(IF l \in selected THEN selected \ {l} ELSE selected \cup {l})

\* All that is visible, or none of it.
TickAll == Visible # {} /\ Ticks(IF Visible \subseteq selected THEN selected \ Visible ELSE selected \cup Visible)

Add(chosen) ==
  /\ menu' = {} /\ adding' = chosen /\ busy' = TRUE
  /\ UNCHANGED <<pageUrl, links, reading, error, viewVars, types, selected, reads>>

Download == Chosen # {} /\ ~busy /\ Add(Chosen)

OpenQueueMenu ==
  /\ Chosen # {} /\ ~busy /\ menu' = Chosen
  /\ UNCHANGED <<pageUrl, links, reading, error, viewVars, types, selected, adding, busy, reads>>

AddToQueue == menu # {} /\ Add(menu)

\* With an answer, also of links that could not be added, nothing is ticked.
Added(ok) ==
  /\ busy /\ busy' = FALSE /\ adding' = {}
  /\ selected' = IF ok THEN {} ELSE selected
  /\ UNCHANGED <<pageUrl, links, reading, error, viewVars, types, menu, reads>>

NextGrabber ==
  /\ UNCHANGED batchVars
  /\ \/ \E p \in Pages : HandedOver(p) \/ SetPageUrl(p)
     \/ FetchPage \/ TickAll \/ Download \/ OpenQueueMenu \/ AddToQueue
     \/ \E ok \in BOOLEAN : Fetched(ok) \/ Added(ok)
     \/ \E f, x \in BOOLEAN : SetFilter(f, x)
     \/ \E k \in AllTypes : ToggleType(k)
     \/ \E l \in links : ToggleLink(l)

-----------------------------------------------------------------------------
(* Batch downloads *)

Link(values) == [type |-> "link", values |-> values]
Junk == [type |-> "junk", values |-> <<>>]
Note == [type |-> "note", values |-> <<>>]
Typed == {Link(<<1>>), Junk, Note}

BsInit ==
  /\ text = <<>> /\ pattern = <<>> /\ batchBusy = FALSE /\ urls = {} /\ edited = FALSE /\ added = {} /\ adds = 0

-----------------------------------------------------------------------------
(* expandPattern *)

Between(a, b, step) == [i \in 1 .. (b - a) \div step + 1 |-> a + (i - 1) * step]

\* Mutated form: a range that counts down starts at its lower end.
PatternValuesUp(r) ==
  IF r.letters \/ r.from <= r.to THEN Between(r.from, r.to, r.step) ELSE Between(r.to, r.from, r.step)

\* Numbers count up or down in steps, letters from the first to the last.
PatternValues(r) ==
  IF r.letters THEN Between(Min({r.from, r.to}), Max({r.from, r.to}), 1)
  ELSE IF r.from <= r.to THEN Between(r.from, r.to, r.step)
  ELSE [i \in 1 .. (r.from - r.to) \div r.step + 1 |-> r.from - (i - 1) * r.step]

\* Each value of the first range with each expansion of the rest, until there
\* are limit of them.
RECURSIVE ExpandPattern(_, _)
ExpandPattern(p, limit) ==
  IF p = <<>> THEN << <<>> >>
  ELSE LET rests == ExpandPattern(Tail(p), limit)
           push(out, v) == out \o [i \in DOMAIN rests |-> <<v>> \o rests[i]]
           all == FoldLeft(push, <<>>, PatternValues(Head(p)))
       IN SubSeq(all, 1, Min({limit, Len(all)}))

IsLink(line) == line.type = "link"
Urls(lines) == {l \in Range(lines) : IsLink(l)}

SetText(lines) ==
  /\ text' = lines /\ edited' = TRUE /\ UNCHANGED <<pattern, batchBusy, urls, added, adds>>

SetPattern(p) == pattern' = p /\ UNCHANGED <<text, batchBusy, urls, edited, added, adds>>

\* What the pattern expands to is appended to the text.
AddPattern ==
  /\ pattern # <<>> /\ pattern' = <<>> /\ Len(text) <= MaxLines
  /\ LET preview == ExpandPattern(pattern, Limit) IN
       text' = text \o [i \in DOMAIN preview |-> Link(preview[i])]
  /\ edited' = TRUE /\ UNCHANGED <<batchBusy, urls, added, adds>>

AddLines ==
  /\ Urls(text) # {} /\ ~batchBusy /\ batchBusy' = TRUE /\ urls' = Urls(text) /\ edited' = FALSE
  /\ adds < MaxAdds /\ adds' = adds + 1
  /\ UNCHANGED <<text, pattern, added>>

\* Mutated form: the text is cleared when at least one link was added.
ClearedSome(failed) == IF failed = urls THEN text ELSE <<>>

\* The text is cleared when every link was added.
Cleared(failed) == IF failed = {} THEN <<>> ELSE text

LinesAdded(failed) ==
  /\ batchBusy /\ batchBusy' = FALSE /\ added' = added \cup (urls \ failed) /\ urls' = {}
  /\ text' = Cleared(failed) /\ UNCHANGED <<pattern, edited, adds>>

\* The call fails.
LinesNotAdded == batchBusy /\ batchBusy' = FALSE /\ urls' = {} /\ UNCHANGED <<text, pattern, edited, added, adds>>

NextBatch ==
  /\ UNCHANGED grabberVars
  /\ \/ \E n \in 0 .. MaxLines : \E lines \in [1 .. n -> Typed] : SetText(lines)
     \/ \E p \in Patterns : SetPattern(p)
     \/ AddPattern \/ AddLines \/ LinesNotAdded
     \/ \E failed \in {{}, urls} \cup {{u} : u \in urls} : LinesAdded(failed)

-----------------------------------------------------------------------------
LsInit == GrInit /\ BsInit
LsNext == NextGrabber \/ NextBatch

LsSpec == LsInit /\ [][LsNext]_<<grabberVars, batchVars>>

-----------------------------------------------------------------------------
LsTypeOK ==
  /\ pageUrl \in Pages \cup {None} /\ reading \in Pages \cup {None}
  /\ {error, filesOnly, filtered, busy} \subseteq BOOLEAN /\ adding \subseteq UNION {Found[p] : p \in Pages}
  /\ pattern \in Patterns \cup {<<>>} /\ {batchBusy, edited} \subseteq BOOLEAN /\ adds \in 0 .. MaxAdds
  /\ \A l \in Range(text) \cup urls \cup added : l.type \in {"link", "junk", "note"}

\* Only links of the list are ticked, and only by types that the list has a chip
\* for is it filtered: a list that came up while another was being read, ticked
\* or filtered is neither added in part nor hidden by what the user no longer
\* sees.
ListFits == selected \subseteq links /\ types \subseteq AllTypes

\* A pattern gives every combination of the values its ranges name, once, and in
\* the order in which the ranges count, as far as the limit allows.
ExpandsInOrder ==
  LET e == ExpandPattern(pattern, Limit)
      values(r) ==
        {v \in Min({r.from, r.to}) .. Max({r.from, r.to}) : r.letters \/ (v - r.from) % r.step = 0}
      up(r) == r.letters \/ r.from <= r.to
      before(a, b) ==
        \E i \in DOMAIN pattern :
          /\ \A j \in 1 .. i - 1 : a[j] = b[j]
          /\ IF up(pattern[i]) THEN a[i] < b[i] ELSE b[i] < a[i]
      size == FoldLeft(LAMBDA n, r : n * Cardinality(values(r)), 1, pattern)
  IN /\ Len(e) = Min({Limit, size})
     /\ \A k \in DOMAIN e : \A i \in DOMAIN pattern : e[k][i] \in values(pattern[i])
     /\ \A k \in 2 .. Len(e) : before(e[k - 1], e[k])
     /\ e # <<>> => \A i \in DOMAIN pattern : e[1][i] = IF pattern[i].letters THEN Min(values(pattern[i])) ELSE pattern[i].from

\* A link leaves the text without being added only by the user's hand; a text
\* typed while the links before were being added is not protected.
LostOnlyByHand ==
  ~batchBusy' /\ batchBusy => edited \/ Urls(text) \subseteq Urls(text') \cup added'
===============================================================================
