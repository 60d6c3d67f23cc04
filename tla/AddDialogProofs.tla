---------------------------- MODULE AddDialogProofs ----------------------------
(***************************************************************************)
(* Proofs that the dialog that adds downloads shows what belongs to its    *)
(* link and adds once, for every number of links, edits, openings and      *)
(* presses of the button, and whatever order the answers come in.          *)
(***************************************************************************)
EXTENDS AddDialog, FiniteSetTheorems, TLAPS

(* What every reachable state satisfies: the types, what an answer under way is about, and  *)
(* where an add is.                                                                         *)

Categories == {"", "files", "video", "torrents", "other"}
Names == Links \cup {"", "typed"}
Keys == [link : Links \cup {NoLink}, dir : Categories \cup {"typed"}, name : Names]

FormType ==
  [open : BOOLEAN, n : Nat, prefill : Nat, wantsTorrent : BOOLEAN, text : Texts, name : Names,
   nameTouched : BOOLEAN, category : Categories, dir : Categories \cup {"typed"}, dirTouched : BOOLEAN,
   probe : {Unknown} \cup [of : Links, ok : BOOLEAN], probing : BOOLEAN, dup : Keys, torrent : Nat,
   chosen : BOOLEAN, remember : BOOLEAN, busy : BOOLEAN, error : BOOLEAN]

ProbeType == [link : Links, asked : BOOLEAN, alive : BOOLEAN, touched : BOOLEAN, category : Categories]
DupType == [key : Keys, asked : BOOLEAN, alive : BOOLEAN]

\* An answer that will be taken is one for what the form shows now, and there
\* is at most one; a timer that has not fired is always of that kind.
Fits ==
  /\ form.open \/ form = Closed
  /\ \A p \in probes : p.alive => form.open /\ p.link = Single(form)
  /\ \A d \in dups : d.alive => form.open /\ d.key = DupKey(form)
  /\ \A t \in probes \cup dups : t.asked \/ t.alive
  /\ \A p, q \in probes : p.alive /\ q.alive => p = q
  /\ \A d, e \in dups : d.alive /\ e.alive => d = e
  /\ ProbeIsOfLink /\ DupIsOfForm /\ DirFollows

FormInv == form \in FormType /\ probes \subseteq ProbeType /\ dups \subseteq DupType /\ Fits

\* An add under way is the first of its dialog, which is busy as long as it is
\* open; when the core has added the download the dialog is gone.  A dialog
\* that remembers its folder is not among these.
OneAdd(n) ==
  /\ \A s \in sends : s.dialog = n => s.step = "adding" /\ added[n].times = 0 /\ (Mine(s) => form.busy)
  /\ \A s, t \in sends : s.dialog = n /\ t.dialog = n => s = t
  /\ added[n].times <= 1
  /\ added[n].times = 1 => ~(form.open /\ form.n = n)

SendType(dialogs) ==
  [step : {"remembering", "adding"}, nth : 1 .. MaxSends, dialog : 1 .. dialogs, outcome : {"nothing", "error", "add"}]

SendInv ==
  /\ opens \in 0 .. MaxOpens /\ form.n \in 0 .. opens /\ (form.open => form.n # 0)
  /\ reads \subseteq [dialog : Nat, id : Nat, picked : BOOLEAN, sets : BOOLEAN]
  /\ IsFiniteSet(sends)
  /\ sends \subseteq SendType(opens)
  /\ added \in [1 .. MaxOpens -> [times : Nat, remembered : BOOLEAN]]
  /\ \A n \in 1 .. MaxOpens :
       /\ n > opens => added[n] = [times |-> 0, remembered |-> FALSE]
       /\ added[n].remembered \/ OneAdd(n)

AdInv == FormInv /\ SendInv

(* What the form shows *)

LEMMA SingleOfText == ASSUME NEW f, NEW g, f.text = g.text PROVE Single(f) = Single(g)
<1> DEFINE One(links) == IF Cardinality(links) = 1 THEN CHOOSE u \in Links : links = {u} ELSE NoLink
<1>1. Single(f) = One(f.text.good) /\ Single(g) = One(g.text.good)
  BY DEF Single
<1> HIDE DEF One
<1> QED
  BY <1>1

LEMMA SingleTyped ==
  ASSUME AddAssumption, NEW f, f.text \in Texts
  PROVE  Single(f) \in Links \cup {NoLink}
<1>1. CASE Cardinality(f.text.good) = 1
  <2>1. f.text.good \subseteq Links /\ IsFiniteSet(f.text.good)
    BY FS_Subset DEF AddAssumption, Texts
  <2>2. \E u \in Links : f.text.good = {u}
    BY <1>1, <2>1, FS_Singleton
  <2>3. (CHOOSE u \in Links : f.text.good = {u}) \in Links
    BY <2>2
  <2> QED
    BY <1>1, <2>3 DEF Single
<1>2. CASE Cardinality(f.text.good) # 1
  BY <1>2 DEF Single
<1> QED
  BY <1>1, <1>2

LEMMA ProbedTyped ==
  ASSUME NEW f \in FormType
  PROVE  ProbedName(f) \in Names /\ ProbedCategory(f) \in Categories /\ ResolveDir(f) \in Categories
<1>1. f.probe \in {Unknown} \cup [of : Links, ok : BOOLEAN] /\ f.category \in Categories
  BY DEF FormType
<1>2. f.probe # Unknown => f.probe.of \in Links
  BY <1>1
<1>3. ProbedName(f) \in Names
  BY <1>2 DEF ProbedName, Names
<1>4. ProbedCategory(f) \in Categories
  BY DEF ProbedCategory, CategoryOf, Categories
<1> QED
  BY <1>1, <1>3, <1>4 DEF ResolveDir

LEMMA KeyTyped == ASSUME AddAssumption, NEW f \in FormType PROVE DupKey(f) \in Keys
<1>1. f.text \in Texts /\ f.dir \in Categories \cup {"typed"} /\ f.name \in Names
  BY DEF FormType
<1>2. Single(f) \in Links \cup {NoLink} /\ ProbedName(f) \in Names
  BY <1>1, SingleTyped, ProbedTyped
<1>3. NotAsked \in Keys
  BY DEF NotAsked, Keys, Categories, Names
<1>4. [link |-> Single(f), dir |-> f.dir, name |-> IF f.name # "" THEN f.name ELSE ProbedName(f)] \in Keys
  BY <1>1, <1>2 DEF Keys
<1> QED
  BY <1>3, <1>4 DEF DupKey

LEMMA ClosedTyped == Closed \in FormType
<1>1. Empty \in Texts /\ NotAsked \in Keys
  BY DEF Empty, Texts, NotAsked, Keys, Categories, Names
<1> QED
  BY <1>1 DEF Closed, FormType, Categories, Names

\* Abandoned tasks have no answer that will be taken.
LEMMA AbandonedTyped ==
  /\ probes \subseteq ProbeType => Abandon(probes) \subseteq {p \in ProbeType : p.asked /\ ~p.alive}
  /\ dups \subseteq DupType => Abandon(dups) \subseteq {d \in DupType : d.asked /\ ~d.alive}
  BY DEF Abandon, ProbeType, DupType

-----------------------------------------------------------------------------
(* The effects, and a change of the form *)

\* The key is not touched by storing an answer.
LEMMA DupEffectKeeps ==
  ASSUME NEW f \in FormType
  PROVE  /\ DupEffect(f) \in FormType /\ DupKey(DupEffect(f)) = DupKey(f)
         /\ DupEffect(f) = [f EXCEPT !.dup = DupEffect(f).dup]
         /\ Single(DupEffect(f)) = Single(f)
<1> DEFINE g == DupEffect(f)
<1>1. g \in FormType /\ g = [f EXCEPT !.dup = g.dup]
  <2>1. NotAsked \in Keys
    BY DEF NotAsked, Keys, Categories, Names
  <2> QED
    BY <2>1 DEF DupEffect, FormType
<1>2. /\ g.text = f.text /\ g.torrent = f.torrent /\ g.probe = f.probe /\ g.dir = f.dir /\ g.name = f.name
  BY <1>1 DEF FormType
<1> HIDE DEF g
<1>3. Single(g) = Single(f)
  BY <1>2, SingleOfText
<1>4. DupKey(g) = DupKey(f)
  BY <1>2, <1>3 DEF DupKey, Media, ProbedName
<1> QED
  BY <1>1, <1>3, <1>4 DEF g

\* Following the category leaves an untouched folder at that of the category shown.
LEMMA FollowKeeps ==
  ASSUME NEW f \in FormType
  PROVE  /\ FollowCategory(f) \in FormType
         /\ FollowCategory(f) = [f EXCEPT !.dir = FollowCategory(f).dir]
         /\ ~f.dirTouched => FollowCategory(f).dir = ResolveDir(f)
         /\ ResolveDir(FollowCategory(f)) = ResolveDir(f)
         /\ Single(FollowCategory(f)) = Single(f)
<1> DEFINE g == FollowCategory(f)
<1>1. ResolveDir(f) \in Categories
  BY ProbedTyped
<1>2. g \in FormType /\ g = [f EXCEPT !.dir = g.dir] /\ (~f.dirTouched => g.dir = ResolveDir(f))
  <2> HIDE DEF ResolveDir
  <2> QED
    BY <1>1 DEF FollowCategory, FormType
<1>3. g.text = f.text /\ g.category = f.category /\ g.probe = f.probe
  BY <1>2 DEF FormType
<1> HIDE DEF g
<1>4. Single(g) = Single(f) /\ ResolveDir(g) = ResolveDir(f)
  BY <1>3, SingleOfText DEF ResolveDir, ProbedCategory
<1> QED
  BY <1>2, <1>4 DEF g

\* A change of the link forgets what the last probe said.
LEMMA ProbeEffectKeeps ==
  ASSUME FormInv, NEW f \in FormType, form.open => f.probe = form.probe
  PROVE  /\ ProbeEffect(f) \in FormType
         /\ ProbeEffect(f) = [f EXCEPT !.probe = ProbeEffect(f).probe]
         /\ ProbeEffect(f).probe # Unknown => ProbeEffect(f).probe.of = Single(f)
         /\ Single(ProbeEffect(f)) = Single(f)
<1> DEFINE g == ProbeEffect(f)
<1>1. g \in FormType /\ g = [f EXCEPT !.probe = g.probe]
  BY DEF ProbeEffect, FormType
<1>2. g.probe # Unknown => g.probe.of = Single(f)
  <2>1. SUFFICES ASSUME g.probe # Unknown PROVE g.probe.of = Single(f)
    OBVIOUS
  <2>2. CASE SameLink(f)
    <3>1. g.probe = form.probe /\ Single(f) = Single(form)
      BY <2>2 DEF ProbeEffect, SameLink
    <3> QED
      BY <2>1, <3>1 DEF FormInv, Fits, ProbeIsOfLink
  <2>3. CASE ~SameLink(f)
    BY <2>1, <2>3, <1>1 DEF ProbeEffect, FormType
  <2> QED
    BY <2>2, <2>3
<1>3. g.text = f.text
  BY <1>1 DEF FormType
<1> HIDE DEF g
<1> QED
  BY <1>1, <1>2, <1>3, SingleOfText DEF g

\* The notice and its look-up follow the form g: what it says, and what it will be told, is
\* about the link, folder and name of g.
LEMMA DupsFollow ==
  ASSUME AddAssumption, FormInv, NEW f \in FormType, f.open, form.open => f.dup = form.dup
  PROVE  /\ DupEffect(f).dup # NotAsked => DupEffect(f).dup = DupKey(f)
         /\ DupsAfter(DupEffect(f)) \subseteq DupType
         /\ \A d \in DupsAfter(DupEffect(f)) :
              /\ d.asked \/ d.alive
              /\ d.alive => d.key = DupKey(f)
         /\ \A d, e \in DupsAfter(DupEffect(f)) : d.alive /\ e.alive => d = e
<1> DEFINE g == DupEffect(f)
<1>1. g \in FormType /\ DupKey(g) = DupKey(f) /\ DupKey(f) \in Keys
  BY DupEffectKeeps, KeyTyped
<1>2. SameDup(g) <=> SameDup(f)
  BY <1>1 DEF SameDup
<1>3. dups \subseteq DupType /\ Fits
  BY DEF FormInv
<1>4. CASE SameDup(f)
  <2>1. form.open /\ DupKey(form) = DupKey(f) /\ f.dup = form.dup
    BY <1>4 DEF SameDup
  <2>2. g.dup = form.dup /\ DupsAfter(g) = dups
    BY <1>2, <1>4, <2>1 DEF DupEffect, DupsAfter
  <2>3. /\ form.dup # NotAsked => form.dup = DupKey(form)
        /\ \A d \in dups : (d.asked \/ d.alive) /\ (d.alive => d.key = DupKey(form))
        /\ \A d, e \in dups : d.alive /\ e.alive => d = e
    BY <1>3 DEF Fits, DupIsOfForm
  <2> HIDE DEF g
  <2> QED
    BY <1>3, <2>1, <2>2, <2>3 DEF g
<1>5. CASE ~SameDup(f)
  <2> DEFINE new == {[key |-> k, asked |-> FALSE, alive |-> TRUE] : k \in {DupKey(f)} \ {NotAsked}}
  <2>1. g.dup = NotAsked
    BY <1>5 DEF DupEffect, FormType
  <2>2. DupsAfter(g) = Abandon(dups) \cup new
    BY <1>1, <1>2, <1>5 DEF DupsAfter
  <2>3. \A d \in new : d = [key |-> DupKey(f), asked |-> FALSE, alive |-> TRUE]
    OBVIOUS
  <2> HIDE DEF new
  <2>4. ASSUME NEW d \in new PROVE d \in DupType /\ d.alive /\ d.key = DupKey(f)
    <3>1. d = [key |-> DupKey(f), asked |-> FALSE, alive |-> TRUE]
      BY <2>3
    <3> QED
      BY <1>1, <3>1 DEF DupType
  <2>5. \A d \in Abandon(dups) : d \in DupType /\ d.asked /\ ~d.alive
    BY <1>3, AbandonedTyped
  <2> HIDE DEF g
  <2> QED
    BY <2>1, <2>2, <2>3, <2>4, <2>5 DEF g
<1> QED
  BY <1>4, <1>5

LEMMA ProbesFollow ==
  ASSUME AddAssumption, FormInv, NEW g \in FormType, g.open
  PROVE  /\ ProbesAfter(g) \subseteq ProbeType
         /\ \A p \in ProbesAfter(g) :
              /\ p.asked \/ p.alive
              /\ p.alive => p.link = Single(g)
         /\ \A p, q \in ProbesAfter(g) : p.alive /\ q.alive => p = q
<1>1. probes \subseteq ProbeType /\ Fits
  BY DEF FormInv
<1>2. CASE SameLink(g)
  BY <1>1, <1>2 DEF ProbesAfter, SameLink, Fits
<1>3. CASE ~SameLink(g)
  <2> DEFINE new == {[link |-> u, asked |-> FALSE, alive |-> TRUE, touched |-> g.nameTouched, category |-> g.category] :
                       u \in IF g.wantsTorrent THEN {} ELSE {Single(g)} \ {NoLink}}
  <2>1. ProbesAfter(g) = Abandon(probes) \cup new
    BY <1>3 DEF ProbesAfter
  <2>2. Single(g) \in Links \cup {NoLink} /\ g.nameTouched \in BOOLEAN /\ g.category \in Categories
    BY SingleTyped DEF FormType
  <2>3. \A p \in new : /\ Single(g) # NoLink
                       /\ p = [link |-> Single(g), asked |-> FALSE, alive |-> TRUE,
                               touched |-> g.nameTouched, category |-> g.category]
    OBVIOUS
  <2> HIDE DEF new
  <2>4. ASSUME NEW p \in new PROVE p \in ProbeType /\ p.alive /\ p.link = Single(g)
    <3>1. /\ p = [link |-> Single(g), asked |-> FALSE, alive |-> TRUE,
                  touched |-> g.nameTouched, category |-> g.category]
          /\ Single(g) \in Links
      BY <2>2, <2>3
    <3> QED
      BY <2>2, <3>1 DEF ProbeType
  <2>5. \A p \in Abandon(probes) : p \in ProbeType /\ p.asked /\ ~p.alive
    BY <1>1, AbandonedTyped
  <2> QED
    BY <2>1, <2>3, <2>4, <2>5
<1> QED
  BY <1>2, <1>3


LEMMA ChangeKeeps ==
  ASSUME AddAssumption, FormInv, NEW f \in FormType, f.open,
         form.open => f.probe = form.probe /\ f.dup = form.dup, Change(f)
  PROVE  FormInv' /\ form'.open /\ form'.n = f.n /\ form'.busy = f.busy
<1> DEFINE e == ProbeEffect(f)
           g == FollowCategory(e)
<1>1. /\ e \in FormType /\ e = [f EXCEPT !.probe = e.probe] /\ Single(e) = Single(f)
      /\ e.probe # Unknown => e.probe.of = Single(f)
  BY ProbeEffectKeeps
<1>2. /\ g \in FormType /\ g = [e EXCEPT !.dir = g.dir] /\ Single(g) = Single(e)
      /\ ~e.dirTouched => g.dir = ResolveDir(e)
      /\ ResolveDir(g) = ResolveDir(e)
  BY <1>1, FollowKeeps
<1>3. form' = DupEffect(g)
  BY DEF Change
<1> HIDE DEF e, g
<1>4. g.open /\ g.n = f.n /\ g.busy = f.busy /\ g.dup = f.dup /\ g.probe = e.probe /\ g.dirTouched = e.dirTouched
  BY <1>1, <1>2 DEF FormType
<1>5. /\ form' \in FormType /\ DupKey(form') = DupKey(g) /\ form' = [g EXCEPT !.dup = form'.dup]
      /\ Single(form') = Single(g)
  BY <1>2, <1>3, DupEffectKeeps
<1>6. /\ form'.open /\ form'.n = f.n /\ form'.busy = f.busy /\ form'.probe = e.probe /\ form'.category = g.category
      /\ form'.dir = g.dir /\ form'.dirTouched = e.dirTouched
  BY <1>2, <1>4, <1>5 DEF FormType
<1>7. /\ form'.dup # NotAsked => form'.dup = DupKey(form')
      /\ dups' \subseteq DupType
      /\ \A d \in dups' : (d.asked \/ d.alive) /\ (d.alive => d.key = DupKey(form'))
      /\ \A c, d \in dups' : c.alive /\ d.alive => c = d
  <2>1. dups' = DupsAfter(DupEffect(g))
    BY <1>3 DEF Change
  <2>2. /\ DupEffect(g).dup # NotAsked => DupEffect(g).dup = DupKey(g)
        /\ DupsAfter(DupEffect(g)) \subseteq DupType
        /\ \A d \in DupsAfter(DupEffect(g)) : (d.asked \/ d.alive) /\ (d.alive => d.key = DupKey(g))
        /\ \A c, d \in DupsAfter(DupEffect(g)) : c.alive /\ d.alive => c = d
    BY <1>2, <1>4, DupsFollow
  <2> QED
    BY <1>3, <1>5, <2>1, <2>2
<1>8. /\ probes' \subseteq ProbeType
      /\ \A p \in probes' : (p.asked \/ p.alive) /\ (p.alive => p.link = Single(form'))
      /\ \A p, q \in probes' : p.alive /\ q.alive => p = q
  <2>1. probes' = ProbesAfter(form')
    BY DEF Change
  <2> QED
    BY <1>5, <1>6, <2>1, ProbesFollow
<1>9. form'.probe # Unknown => form'.probe.of = Single(form')
  BY <1>1, <1>2, <1>5, <1>6
<1>10. ~form'.dirTouched => form'.dir = ResolveDir(form')
  <2>1. ResolveDir(form') = ResolveDir(g)
    BY <1>4, <1>6 DEF ResolveDir, ProbedCategory
  <2> QED
    BY <1>2, <1>6, <2>1
<1> QED
  BY <1>5, <1>6, <1>7, <1>8, <1>9, <1>10 DEF FormInv, Fits, ProbeIsOfLink, DupIsOfForm, DirFollows

LEMMA CloseKeeps == ASSUME FormInv, Close PROVE FormInv' /\ ~form'.open /\ form'.n = 0
<1>1. form' = Closed /\ probes' = Abandon(probes) /\ dups' = Abandon(dups)
  BY DEF Close
<1>2. /\ \A p \in probes' : p \in ProbeType /\ p.asked /\ ~p.alive
      /\ \A d \in dups' : d \in DupType /\ d.asked /\ ~d.alive
  BY <1>1, AbandonedTyped DEF FormInv
<1>3. form'.probe = Unknown /\ form'.dup = NotAsked /\ ~form'.open /\ form'.n = 0
  BY <1>1 DEF Closed
<1> QED
  BY <1>1, <1>2, <1>3, ClosedTyped DEF FormInv, Fits, ProbeIsOfLink, DupIsOfForm, DirFollows

-----------------------------------------------------------------------------
(* The steps that leave the adds alone *)

\* While the dialog is the same one, and as busy, the adds under way stay what they were.
LEMMA SendsKeep ==
  ASSUME SendInv, UNCHANGED <<sends, added>>,
         opens' \in opens .. MaxOpens, form'.n \in 0 .. opens', form'.open => form'.n # 0,
         form'.open => \/ form.open /\ form'.n = form.n /\ form'.busy = form.busy
                       \/ form'.n > opens,
         reads' \subseteq [dialog : Nat, id : Nat, picked : BOOLEAN, sets : BOOLEAN]
  PROVE  SendInv'
<1>1. opens \in Nat /\ opens' \in 0 .. MaxOpens /\ opens <= opens'
  BY DEF SendInv
<1>2. sends' \subseteq SendType(opens')
  <2>1. 1 .. opens \subseteq 1 .. opens'
    BY <1>1
  <2> QED
    BY <2>1 DEF SendInv, SendType
<1>3. ASSUME NEW n \in 1 .. MaxOpens
      PROVE  /\ n > opens' => added'[n] = [times |-> 0, remembered |-> FALSE]
             /\ added'[n].remembered \/ OneAdd(n)'
  <2>1. n > opens => added[n] = [times |-> 0, remembered |-> FALSE]
    BY DEF SendInv
  <2>2. n > opens' => added'[n] = [times |-> 0, remembered |-> FALSE]
    BY <1>1, <2>1
  <2>3. SUFFICES ASSUME ~added[n].remembered PROVE OneAdd(n)'
    BY <2>2
  <2>4. OneAdd(n)
    BY <2>3 DEF SendInv
  <2>5. ASSUME form'.open, form'.n = n
        PROVE  /\ added[n].times # 1
               /\ \A s \in sends : s.dialog = n => form'.busy
    <3>1. CASE form.open /\ form'.n = form.n /\ form'.busy = form.busy
      BY <2>4, <2>5, <3>1 DEF OneAdd, Mine
    <3>2. CASE form'.n > opens
      <4>1. added[n].times = 0
        BY <2>1, <2>5, <3>2
      <4>2. \A s \in sends : s.dialog # n
        BY <1>1, <2>5, <3>2 DEF SendInv, SendType
      <4> QED
        BY <4>1, <4>2
    <3> QED
      BY <2>5, <3>1, <3>2
  <2> QED
    BY <2>4, <2>5 DEF OneAdd, Mine
<1> QED
  BY <1>1, <1>2, <1>3 DEF SendInv

\* The dialog changes under the user's hands or by an answer.
LEMMA SameDialog ==
  ASSUME SendInv, UNCHANGED <<sends, added, opens>>,
         form'.n \in {0, form.n}, form'.open => form.open /\ form'.n = form.n /\ form'.busy = form.busy,
         reads' \subseteq [dialog : Nat, id : Nat, picked : BOOLEAN, sets : BOOLEAN]
  PROVE  SendInv'
<1>1. opens' \in opens .. MaxOpens /\ form'.n \in 0 .. opens' /\ (form'.open => form'.n # 0)
  BY DEF SendInv
<1> QED
  BY <1>1, SendsKeep

LEMMA EditKeeps ==
  ASSUME AddAssumption, AdInv, NEW f \in FormType, f.open = form.open, f.n = form.n, f.busy = form.busy,
         f.probe = form.probe, f.dup = form.dup, Edit(f)
  PROVE  AdInv'
<1>1. form.open /\ Change(f) /\ UNCHANGED <<reads, sends, added, opens>>
  BY DEF Edit
<1>2. FormInv' /\ form'.open /\ form'.n = f.n /\ form'.busy = f.busy
  BY <1>1, ChangeKeeps DEF AdInv
<1>3. SendInv'
  BY <1>1, <1>2, SameDialog DEF AdInv, SendInv
<1> QED
  BY <1>2, <1>3 DEF AdInv

\* What the user types and chooses.
LEMMA UserKeeps ==
  ASSUME AddAssumption, AdInv,
         \/ \E text \in Texts : SetText(text)
         \/ SetName \/ SetDir \/ SetRemember \/ SetChosen
         \/ \E c \in {"", "files", "other"} : SetCategory(c)
  PROVE  AdInv'
<1>1. form \in FormType
  BY DEF AdInv, FormInv
<1>2. ASSUME NEW text \in Texts, SetText(text) PROVE AdInv'
  <2> DEFINE f == [form EXCEPT !.text = text]
  <2>1. f \in FormType /\ f.open = form.open /\ f.n = form.n /\ f.busy = form.busy /\ f.probe = form.probe
        /\ f.dup = form.dup
    BY <1>1 DEF FormType
  <2>2. Edit(f)
    BY <1>2 DEF SetText
  <2> HIDE DEF f
  <2> QED
    BY <2>1, <2>2, EditKeeps
<1>3. ASSUME SetName PROVE AdInv'
  <2> DEFINE f == [form EXCEPT !.name = "typed", !.nameTouched = TRUE]
  <2>1. f \in FormType /\ f.open = form.open /\ f.n = form.n /\ f.busy = form.busy /\ f.probe = form.probe
        /\ f.dup = form.dup
    BY <1>1 DEF FormType, Names
  <2>2. Edit(f)
    BY <1>3 DEF SetName
  <2> HIDE DEF f
  <2> QED
    BY <2>1, <2>2, EditKeeps
<1>4. ASSUME NEW c \in {"", "files", "other"}, SetCategory(c) PROVE AdInv'
  <2> DEFINE f == [form EXCEPT !.category = c, !.dirTouched = FALSE]
  <2>1. f \in FormType /\ f.open = form.open /\ f.n = form.n /\ f.busy = form.busy /\ f.probe = form.probe
        /\ f.dup = form.dup
    BY <1>1 DEF FormType, Categories
  <2>2. Edit(f)
    BY <1>4 DEF SetCategory
  <2> HIDE DEF f
  <2> QED
    BY <2>1, <2>2, EditKeeps
<1>5. ASSUME SetDir PROVE AdInv'
  <2> DEFINE f == [form EXCEPT !.dir = "typed", !.dirTouched = TRUE]
  <2>1. f \in FormType /\ f.open = form.open /\ f.n = form.n /\ f.busy = form.busy /\ f.probe = form.probe
        /\ f.dup = form.dup
    BY <1>1 DEF FormType
  <2>2. Edit(f)
    BY <1>5 DEF SetDir
  <2> HIDE DEF f
  <2> QED
    BY <2>1, <2>2, EditKeeps
<1>6. ASSUME SetRemember PROVE AdInv'
  <2> DEFINE f == [form EXCEPT !.remember = ~@]
  <2>1. f \in FormType /\ f.open = form.open /\ f.n = form.n /\ f.busy = form.busy /\ f.probe = form.probe
        /\ f.dup = form.dup
    BY <1>1 DEF FormType
  <2>2. Edit(f)
    BY <1>6 DEF SetRemember
  <2> HIDE DEF f
  <2> QED
    BY <2>1, <2>2, EditKeeps
<1>7. ASSUME SetChosen PROVE AdInv'
  <2> DEFINE f == [form EXCEPT !.chosen = ~@]
  <2>1. f \in FormType /\ f.open = form.open /\ f.n = form.n /\ f.busy = form.busy /\ f.probe = form.probe
        /\ f.dup = form.dup
    BY <1>1 DEF FormType
  <2>2. Edit(f)
    BY <1>7 DEF SetChosen
  <2> HIDE DEF f
  <2> QED
    BY <2>1, <2>2, EditKeeps
<1> QED
  BY <1>2, <1>3, <1>4, <1>5, <1>6, <1>7

LEMMA PrefilledTyped ==
  ASSUME NEW link \in Links \cup {NoLink}, NEW torrent \in BOOLEAN, NEW given \in Prefills, NEW n \in Nat
  PROVE  /\ Prefilled(link, torrent, given, n) \in FormType
         /\ Prefilled(link, torrent, given, n).open /\ Prefilled(link, torrent, given, n).n = n
<1> DEFINE text == [good |-> {link} \ {NoLink}, junk |-> FALSE]
           bare == [Closed EXCEPT !.open = TRUE, !.n = n, !.prefill = n, !.wantsTorrent = torrent, !.text = text]
           named == IF "name" \in given THEN [bare EXCEPT !.name = "typed", !.nameTouched = TRUE] ELSE bare
           placed == IF "dir" \in given THEN [named EXCEPT !.dir = "typed", !.dirTouched = TRUE] ELSE named
           first == IF "category" \in given THEN [placed EXCEPT !.category = "other"] ELSE placed
<1>1. Prefilled(link, torrent, given, n) = first
  BY DEF Prefilled
<1>2. text \in Texts /\ "typed" \in Names /\ "other" \in Categories
  BY DEF Texts, Names, Categories
<1> HIDE DEF text
<1>3. bare \in FormType
  BY <1>2, ClosedTyped DEF FormType
<1>4. bare.open /\ bare.n = n
  BY DEF Closed
<1> HIDE DEF bare
<1>5. named \in FormType /\ named.open /\ named.n = n
  <2> DEFINE typed == [bare EXCEPT !.name = "typed", !.nameTouched = TRUE]
  <2>1. typed \in FormType
    BY <1>2, <1>3, <1>4 DEF FormType
  <2>2. typed.open /\ typed.n = n
    BY <1>2, <1>3, <1>4 DEF FormType
  <2>3. named = typed \/ named = bare
    OBVIOUS
  <2> HIDE DEF typed, named
  <2> QED
    BY <1>2, <1>3, <1>4, <2>1, <2>2, <2>3
<1> HIDE DEF named
<1>6. placed \in FormType /\ placed.open /\ placed.n = n
  <2> DEFINE typed == [named EXCEPT !.dir = "typed", !.dirTouched = TRUE]
  <2>1. typed \in FormType
    BY <1>5 DEF FormType
  <2>2. typed.open /\ typed.n = n
    BY <1>5 DEF FormType
  <2>3. placed = typed \/ placed = named
    OBVIOUS
  <2> HIDE DEF typed, placed
  <2> QED
    BY <1>5, <2>1, <2>2, <2>3
<1> HIDE DEF placed
<1>7. first \in FormType /\ first.open /\ first.n = n
  <2> DEFINE typed == [placed EXCEPT !.category = "other"]
  <2>1. typed \in FormType
    BY <1>2, <1>6 DEF FormType
  <2>2. typed.open /\ typed.n = n
    BY <1>2, <1>6 DEF FormType
  <2>3. first = typed \/ first = placed
    OBVIOUS
  <2> HIDE DEF typed, first
  <2> QED
    BY <1>2, <1>6, <2>1, <2>2, <2>3
<1> QED
  BY <1>1, <1>7

LEMMA OpenKeeps ==
  ASSUME AddAssumption, AdInv, NEW link \in Links \cup {NoLink}, NEW torrent \in BOOLEAN,
         NEW given \in Prefills, Open(link, torrent, given)
  PROVE  AdInv'
<1> DEFINE again == [form EXCEPT !.prefill = opens', !.wantsTorrent = torrent]
           first == Prefilled(link, torrent, given, opens')
           f == IF form.open THEN again ELSE first
<1>1. opens' = opens + 1 /\ opens < MaxOpens /\ opens \in Nat /\ opens' \in Nat
  <2>1. opens' = opens + 1 /\ opens < MaxOpens
    BY DEF Open
  <2> QED
    BY <2>1 DEF AdInv, SendInv
<1>2. form \in FormType /\ (form.open => form.n \in 1 .. opens)
  BY DEF AdInv, FormInv, SendInv
<1>3. /\ again \in FormType /\ again.open = form.open /\ again.n = form.n /\ again.busy = form.busy
      /\ again.probe = form.probe /\ again.dup = form.dup
  BY <1>1, <1>2 DEF FormType
<1>4. first \in FormType /\ first.open /\ first.n = opens'
  BY <1>1, PrefilledTyped
<1>5. Change(f) /\ UNCHANGED <<sends, added>>
  BY DEF Open
<1> HIDE DEF again, first
<1>6. FormInv' /\ form'.open /\ form'.n = f.n /\ form'.busy = f.busy
  <2>1. f \in FormType /\ f.open /\ (form.open => f.probe = form.probe /\ f.dup = form.dup)
    BY <1>3, <1>4
  <2> HIDE DEF f
  <2> QED
    BY <1>5, <2>1, ChangeKeeps DEF AdInv
<1>7. form'.n \in 1 .. opens' /\ (\/ form.open /\ form'.n = form.n /\ form'.busy = form.busy
                                  \/ form'.n > opens)
  BY <1>1, <1>2, <1>3, <1>4, <1>6
<1>8. reads' \subseteq [dialog : Nat, id : Nat, picked : BOOLEAN, sets : BOOLEAN]
  <2>1. HandedOver(form'.n, opens', form'.category) \in [dialog : Nat, id : Nat, picked : BOOLEAN, sets : BOOLEAN]
    BY <1>1, <1>7 DEF HandedOver
  <2>2. reads \subseteq [dialog : Nat, id : Nat, picked : BOOLEAN, sets : BOOLEAN]
    BY DEF AdInv, SendInv
  <2>3. reads' = reads \/ reads' = reads \cup {HandedOver(form'.n, opens', form'.category)}
    BY DEF Open
  <2> QED
    BY <2>1, <2>2, <2>3
<1>9. opens' \in opens .. MaxOpens /\ form'.n \in 0 .. opens' /\ form'.n # 0
  BY <1>1, <1>7 DEF AddAssumption
<1> QED
  BY <1>5, <1>6, <1>7, <1>8, <1>9, SendsKeep DEF AdInv

\* Nothing but flags of the dialog changes.
LEMMA ShownKeeps ==
  ASSUME form'.text = form.text, form'.torrent = form.torrent, form'.probe = form.probe, form'.dir = form.dir,
         form'.name = form.name, form'.category = form.category
  PROVE  Single(form') = Single(form) /\ DupKey(form') = DupKey(form) /\ ResolveDir(form') = ResolveDir(form)
<1>1. Single(form') = Single(form)
  BY SingleOfText
<1> QED
  BY <1>1 DEF DupKey, Media, ProbedName, ResolveDir, ProbedCategory

LEMMA FlagsKeep ==
  ASSUME FormInv, form.open, UNCHANGED <<probes, dups>>, NEW b \in BOOLEAN, NEW e \in BOOLEAN,
         form' = [form EXCEPT !.busy = b, !.error = e]
  PROVE  FormInv' /\ form'.open /\ form'.n = form.n /\ form'.busy = b
<1>1. /\ form' \in FormType /\ form'.open /\ form'.n = form.n /\ form'.busy = b
      /\ form'.text = form.text /\ form'.torrent = form.torrent /\ form'.probe = form.probe /\ form'.dir = form.dir
      /\ form'.name = form.name /\ form'.category = form.category /\ form'.dirTouched = form.dirTouched
      /\ form'.dup = form.dup
  BY DEF FormInv, FormType
<1>2. Single(form') = Single(form) /\ DupKey(form') = DupKey(form) /\ ResolveDir(form') = ResolveDir(form)
  BY <1>1, ShownKeeps
<1> QED
  BY <1>1, <1>2 DEF FormInv, Fits, ProbeIsOfLink, DupIsOfForm, DirFollows

LEMMA FormStays == ASSUME FormInv, UNCHANGED <<form, probes, dups>> PROVE FormInv'
  BY DEF FormInv, Fits, ProbeIsOfLink, DupIsOfForm, DirFollows

LEMMA PickKeeps == ASSUME AddAssumption, AdInv, PickTorrent PROVE AdInv'
<1>1. opens \in Nat /\ opens' \in opens .. MaxOpens /\ form'.n \in 0 .. opens' /\ (form'.open => form'.n # 0)
  BY DEF AddAssumption, AdInv, SendInv, PickTorrent
<1>2. reads' \subseteq [dialog : Nat, id : Nat, picked : BOOLEAN, sets : BOOLEAN]
  <2>1. [dialog |-> form.n, id |-> opens', picked |-> TRUE, sets |-> TRUE] \in [dialog : Nat, id : Nat, picked : BOOLEAN, sets : BOOLEAN]
    BY <1>1 DEF PickTorrent
  <2>2. reads' = reads \cup {[dialog |-> form.n, id |-> opens', picked |-> TRUE, sets |-> TRUE]}
    BY DEF PickTorrent
  <2> QED
    BY <2>1, <2>2 DEF AdInv, SendInv
<1>3. SendInv'
  BY <1>1, <1>2, SendsKeep DEF AdInv, PickTorrent
<1> QED
  BY <1>3, FormStays DEF AdInv, PickTorrent

LEMMA ReadKeeps ==
  ASSUME AddAssumption, AdInv, NEW r \in reads, NEW ok \in BOOLEAN, TorrentRead(r, ok)
  PROVE  AdInv'
<1>1. /\ form \in FormType /\ UNCHANGED <<sends, added, opens>> /\ r.id \in Nat
      /\ reads' \subseteq [dialog : Nat, id : Nat, picked : BOOLEAN, sets : BOOLEAN]
  BY DEF AdInv, FormInv, SendInv, TorrentRead
<1>2. CASE ~form.open \/ r.dialog # form.n
  <2>1. UNCHANGED <<form, probes, dups>>
    BY <1>2 DEF TorrentRead
  <2>2. SendInv'
    BY <1>1, <2>1, SameDialog DEF AdInv
  <2> QED
    BY <2>1, <2>2, FormStays DEF AdInv
<1> DEFINE failed == [form EXCEPT !.error = TRUE]
           read == [form EXCEPT !.torrent = r.id, !.chosen = TRUE,
                                !.text = IF r.picked THEN Empty ELSE @,
                                !.category = IF r.sets THEN "torrents" ELSE @]
           f == IF ~ok THEN failed ELSE read
<1>3. CASE form.open /\ r.dialog = form.n
  <2>1. /\ failed \in FormType /\ failed.open = form.open /\ failed.n = form.n /\ failed.busy = form.busy
        /\ failed.probe = form.probe /\ failed.dup = form.dup
    BY <1>1 DEF FormType
  <2>2. /\ read \in FormType /\ read.open = form.open /\ read.n = form.n /\ read.busy = form.busy
        /\ read.probe = form.probe /\ read.dup = form.dup
    <3> DEFINE text == IF r.picked THEN Empty ELSE form.text
               category == IF r.sets THEN "torrents" ELSE form.category
    <3>1. text \in Texts /\ category \in Categories
      BY <1>1 DEF FormType, Categories, Empty, Texts
    <3>2. read = [form EXCEPT !.torrent = r.id, !.chosen = TRUE, !.text = text, !.category = category]
      OBVIOUS
    <3> HIDE DEF text, category, read
    <3> QED
      BY <1>1, <3>1, <3>2 DEF FormType
  <2>3. Change(f)
    BY <1>3 DEF TorrentRead
  <2> HIDE DEF failed, read
  <2>4. f \in FormType /\ f.open /\ f.n = form.n /\ f.busy = form.busy /\ f.probe = form.probe /\ f.dup = form.dup
    BY <1>3, <2>1, <2>2
  <2> HIDE DEF f
  <2>5. FormInv' /\ form'.open /\ form'.n = form.n /\ form'.busy = form.busy
    BY <2>3, <2>4, ChangeKeeps DEF AdInv
  <2>6. SendInv'
    BY <1>1, <1>3, <2>5, SameDialog DEF AdInv
  <2> QED
    BY <2>5, <2>6 DEF AdInv
<1> QED
  BY <1>2, <1>3

\* The dialog closes and nothing else happens.
LEMMA GoneKeeps ==
  ASSUME AdInv, Close, UNCHANGED <<reads, sends, added, opens>>
  PROVE  AdInv'
<1>1. FormInv' /\ ~form'.open /\ form'.n = 0
  BY CloseKeeps DEF AdInv
<1>2. SendInv'
  BY <1>1, SameDialog DEF AdInv, SendInv
<1> QED
  BY <1>1, <1>2 DEF AdInv

-----------------------------------------------------------------------------
(* The answers *)

LEMMA ProbeStartsKeeps == ASSUME AdInv, NEW p \in probes, ProbeStarts(p) PROVE AdInv'
<1> DEFINE asked == [p EXCEPT !.asked = TRUE]
<1>1. /\ ~p.asked /\ probes' = (probes \ {p}) \cup {asked} /\ form' = [form EXCEPT !.probing = TRUE]
      /\ UNCHANGED <<dups, reads, sends, added, opens>>
  BY DEF ProbeStarts
<1>2. form \in FormType /\ p \in ProbeType /\ Fits /\ probes \subseteq ProbeType /\ dups \subseteq DupType
  BY DEF AdInv, FormInv
<1>3. p.alive /\ form.open /\ p.link = Single(form)
  BY <1>1, <1>2 DEF Fits
<1>4. asked \in ProbeType /\ asked.asked /\ asked.link = Single(form)
  BY <1>2, <1>3 DEF ProbeType
<1>5. /\ form' \in FormType /\ form'.open /\ form'.n = form.n /\ form'.busy = form.busy
      /\ form'.text = form.text /\ form'.torrent = form.torrent /\ form'.probe = form.probe /\ form'.dir = form.dir
      /\ form'.name = form.name /\ form'.category = form.category /\ form'.dirTouched = form.dirTouched
      /\ form'.dup = form.dup
  BY <1>1, <1>2, <1>3 DEF FormType
<1>6. Single(form') = Single(form) /\ DupKey(form') = DupKey(form) /\ ResolveDir(form') = ResolveDir(form)
  BY <1>5, ShownKeeps
<1> HIDE DEF asked
<1>7. \A q \in probes' : (q.alive => q = asked) /\ q \in ProbeType /\ (q.asked \/ q.alive)
  BY <1>1, <1>2, <1>3, <1>4 DEF Fits
<1>8. FormInv'
  BY <1>1, <1>2, <1>4, <1>5, <1>6, <1>7 DEF FormInv, Fits, ProbeIsOfLink, DupIsOfForm, DirFollows
<1>9. SendInv'
  BY <1>1, <1>3, <1>5, SameDialog DEF AdInv, SendInv
<1> QED
  BY <1>8, <1>9 DEF AdInv

\* The answer of the only probe that is alive is about the link shown.
LEMMA ProbeAnsweredKeeps ==
  ASSUME AddAssumption, AdInv, NEW p \in probes, NEW ok \in BOOLEAN, ProbeAnswered(p, ok)
  PROVE  AdInv'
<1>1. /\ form \in FormType /\ p \in ProbeType /\ Fits /\ probes \subseteq ProbeType /\ dups \subseteq DupType
      /\ probes' = probes \ {p} /\ UNCHANGED <<reads, sends, added, opens>>
  BY DEF AdInv, FormInv, ProbeAnswered
<1>2. CASE ~p.alive
  <2>1. UNCHANGED <<form, dups>>
    BY <1>2 DEF ProbeAnswered, Alive
  <2>2. FormInv'
    BY <1>1, <2>1 DEF FormInv, Fits, ProbeIsOfLink, DupIsOfForm, DirFollows
  <2>3. SendInv'
    BY <1>1, <2>1, SameDialog DEF AdInv, SendInv
  <2> QED
    BY <2>2, <2>3 DEF AdInv
<1>3. CASE p.alive
  <2> DEFINE f == Probed(p, ok)
             g == FollowCategory(f)
  <2>1. form.open /\ p.link = Single(form) /\ p.link \in Links
    BY <1>1, <1>3 DEF Fits, ProbeType
  <2>2. /\ f \in FormType /\ f.open /\ f.n = form.n /\ f.busy = form.busy /\ f.text = form.text
        /\ f.dup = form.dup /\ f.dirTouched = form.dirTouched
        /\ f.probe = [of |-> p.link, ok |-> ok]
    <3> DEFINE name == IF ok /\ ~p.touched THEN p.link ELSE form.name
               category == IF ok /\ p.category = "" THEN CategoryOf(p.link) ELSE form.category
               probe == [of |-> p.link, ok |-> ok]
    <3>1. name \in Names /\ category \in Categories /\ probe \in {Unknown} \cup [of : Links, ok : BOOLEAN]
      BY <1>1, <2>1 DEF FormType, Names, Categories, CategoryOf
    <3>2. f = [form EXCEPT !.probe = probe, !.name = name, !.category = category, !.probing = FALSE]
      BY <1>1 DEF Probed, Filled, FormType
    <3> HIDE DEF f, name, category, probe
    <3>3. /\ f \in FormType /\ f.open /\ f.n = form.n /\ f.busy = form.busy /\ f.text = form.text
          /\ f.dup = form.dup /\ f.dirTouched = form.dirTouched /\ f.probe = probe
      BY <1>1, <2>1, <3>1, <3>2 DEF FormType
    <3> QED
      BY <3>3 DEF probe
  <2> HIDE DEF f
  <2>3. Single(f) = Single(form)
    BY <2>2, SingleOfText
  <2>4. /\ g \in FormType /\ g = [f EXCEPT !.dir = g.dir]
        /\ ~f.dirTouched => g.dir = ResolveDir(f)
        /\ ResolveDir(g) = ResolveDir(f)
        /\ Single(g) = Single(f)
    BY <2>2, FollowKeeps
  <2> HIDE DEF g
  <2>5. form' = DupEffect(g) /\ dups' = DupsAfter(DupEffect(g))
    BY <1>3 DEF ProbeAnswered, Alive, f, g
  <2>6. g.open /\ g.n = form.n /\ g.busy = form.busy /\ g.dup = form.dup /\ g.probe = f.probe /\ g.dirTouched = f.dirTouched
    BY <2>2, <2>4 DEF FormType
  <2>7. /\ form' \in FormType /\ DupKey(form') = DupKey(g) /\ form' = [g EXCEPT !.dup = form'.dup]
        /\ Single(form') = Single(g)
    BY <2>4, <2>5, DupEffectKeeps
  <2>8. /\ form'.open /\ form'.n = form.n /\ form'.busy = form.busy /\ form'.probe = f.probe
        /\ form'.category = g.category /\ form'.dir = g.dir /\ form'.dirTouched = f.dirTouched
    BY <2>4, <2>6, <2>7 DEF FormType
  <2>9. /\ DupEffect(g).dup # NotAsked => DupEffect(g).dup = DupKey(g)
        /\ DupsAfter(DupEffect(g)) \subseteq DupType
        /\ \A d \in DupsAfter(DupEffect(g)) : (d.asked \/ d.alive) /\ (d.alive => d.key = DupKey(g))
        /\ \A c, d \in DupsAfter(DupEffect(g)) : c.alive /\ d.alive => c = d
    BY <2>4, <2>6, DupsFollow DEF AdInv
  <2>10. ResolveDir(form') = ResolveDir(g)
    BY <2>6, <2>8 DEF ResolveDir, ProbedCategory
  <2>11. form'.probe.of = Single(form')
    BY <2>1, <2>2, <2>3, <2>4, <2>7, <2>8
  <2>12. \A q \in probes' : q \in probes /\ ~q.alive
    BY <1>1, <1>3 DEF Fits
  <2>13. FormInv'
    BY <1>1, <2>2, <2>4, <2>5, <2>7, <2>8, <2>9, <2>10, <2>11, <2>12
       DEF FormInv, Fits, ProbeIsOfLink, DupIsOfForm, DirFollows
  <2>14. SendInv'
    BY <1>1, <2>1, <2>8, SameDialog DEF AdInv, SendInv
  <2> QED
    BY <2>13, <2>14 DEF AdInv
<1> QED
  BY <1>2, <1>3

LEMMA DupStepKeeps ==
  ASSUME AddAssumption, AdInv, NEW d \in dups, DupStarts(d) \/ DupAnswered(d)
  PROVE  AdInv'
<1>1. /\ form \in FormType /\ d \in DupType /\ Fits /\ probes \subseteq ProbeType /\ dups \subseteq DupType
      /\ UNCHANGED <<probes, reads, sends, added, opens>>
  BY DEF AdInv, FormInv, DupStarts, DupAnswered
<1>2. CASE DupStarts(d)
  <2> DEFINE asked == [d EXCEPT !.asked = TRUE]
  <2>1. ~d.asked /\ dups' = (dups \ {d}) \cup {asked} /\ form' = form
    BY <1>2 DEF DupStarts
  <2>2. d.alive /\ form.open /\ d.key = DupKey(form)
    BY <1>1, <2>1 DEF Fits
  <2>3. asked \in DupType /\ asked.asked /\ asked.key = DupKey(form)
    BY <1>1, <2>2 DEF DupType
  <2> HIDE DEF asked
  <2>4. \A e \in dups' : (e.alive => e = asked) /\ e \in DupType /\ (e.asked \/ e.alive)
    BY <1>1, <2>1, <2>2, <2>3 DEF Fits
  <2>5. FormInv'
    BY <1>1, <2>1, <2>2, <2>3, <2>4 DEF FormInv, Fits, ProbeIsOfLink, DupIsOfForm, DirFollows
  <2>6. SendInv'
    BY <1>1, <2>1, SameDialog DEF AdInv, SendInv
  <2> QED
    BY <2>5, <2>6 DEF AdInv
<1>3. CASE DupAnswered(d) /\ d.alive
  <2>1. dups' = dups \ {d} /\ form' = [form EXCEPT !.dup = d.key]
    BY <1>3 DEF DupAnswered, DupAlive
  <2>2. form.open /\ d.key = DupKey(form) /\ d.key \in Keys
    BY <1>1, <1>3 DEF Fits, DupType
  <2>3. /\ form' \in FormType /\ form'.open /\ form'.n = form.n /\ form'.busy = form.busy
        /\ form'.text = form.text /\ form'.torrent = form.torrent /\ form'.probe = form.probe /\ form'.dir = form.dir
        /\ form'.name = form.name /\ form'.category = form.category /\ form'.dirTouched = form.dirTouched
        /\ form'.dup = d.key
    BY <1>1, <2>1, <2>2 DEF FormType
  <2>4. Single(form') = Single(form) /\ DupKey(form') = DupKey(form) /\ ResolveDir(form') = ResolveDir(form)
    BY <2>3, ShownKeeps
  <2>5. FormInv'
    BY <1>1, <2>1, <2>2, <2>3, <2>4 DEF FormInv, Fits, ProbeIsOfLink, DupIsOfForm, DirFollows
  <2>6. SendInv'
    BY <1>1, <2>2, <2>3, SameDialog DEF AdInv, SendInv
  <2> QED
    BY <2>5, <2>6 DEF AdInv
<1>4. CASE DupAnswered(d) /\ ~d.alive
  <2>1. dups' = dups \ {d} /\ form' = form
    BY <1>4 DEF DupAnswered, DupAlive
  <2>2. FormInv'
    BY <1>1, <2>1 DEF FormInv, Fits, ProbeIsOfLink, DupIsOfForm, DirFollows
  <2>3. SendInv'
    BY <1>1, <2>1, SameDialog DEF AdInv, SendInv
  <2> QED
    BY <2>2, <2>3 DEF AdInv
<1> QED
  BY <1>2, <1>3, <1>4

-----------------------------------------------------------------------------
(* go and submit *)

\* A press is told apart from those under way: fewer than MaxSends of them
\* leave a number free.
LEMMA NumberFree ==
  ASSUME AddAssumption, SendInv, Cardinality(sends) < MaxSends
  PROVE  \E n \in 1 .. MaxSends : \A t \in sends : t.nth # n
<1> SUFFICES ASSUME \A n \in 1 .. MaxSends : \E t \in sends : t.nth = n PROVE FALSE
  OBVIOUS
<1> DEFINE used == {t.nth : t \in sends}
<1>1. IsFiniteSet(used) /\ Cardinality(used) <= Cardinality(sends)
  <2> DEFINE f == [t \in sends |-> t.nth]
  <2>1. f \in Surjection(sends, used)
    BY DEF Surjection
  <2> HIDE DEF f, used
  <2> QED
    BY <2>1, FS_Surjection DEF SendInv
<1>2. 1 .. MaxSends \subseteq used
  OBVIOUS
<1>3. Cardinality(1 .. MaxSends) = MaxSends
  BY FS_Interval DEF AddAssumption
<1>4. Cardinality(1 .. MaxSends) <= Cardinality(used)
  BY <1>1, <1>2, FS_Subset
<1>5. Cardinality(sends) \in Nat /\ Cardinality(used) \in Nat
  BY <1>1, FS_CardinalityType DEF SendInv
<1> QED
  BY <1>1, <1>3, <1>4, <1>5 DEF AddAssumption

\* submit, by a dialog that remembered its folder, or at once by one that may
\* submit: then nothing of it is under way.
LEMMA SubmitKeeps ==
  ASSUME AdInv, NEW s \in SendType(opens), NEW others \in SUBSET sends, Submit(s, others),
         UNCHANGED <<probes, dups, reads, added, opens>>,
         \/ added[s.dialog].remembered
         \/ form.open /\ form.n = s.dialog /\ (s.outcome = "add" => ~form.busy)
  PROVE  AdInv'
<1>1. form \in FormType /\ FormInv /\ SendInv
  BY DEF AdInv, FormInv
<1>2. /\ FormInv' /\ form'.n = form.n /\ (form'.open <=> form.open)
      /\ form.busy => form'.busy
      /\ form.n # s.dialog => form'.busy = form.busy
      /\ Mine(s) /\ s.outcome = "add" => form'.busy
  <2>1. CASE Mine(s) /\ s.outcome = "add"
    <3>1. form' = [form EXCEPT !.busy = TRUE, !.error = FALSE]
      BY <2>1 DEF Submit
    <3>2. FormInv' /\ form'.open /\ form'.n = form.n /\ form'.busy = TRUE
      BY <1>1, <2>1, <3>1, FlagsKeep DEF Mine
    <3> QED
      BY <2>1, <3>2 DEF Mine
  <2>2. CASE Mine(s) /\ s.outcome = "error"
    <3>1. form' = [form EXCEPT !.busy = form.busy, !.error = TRUE] /\ form.busy \in BOOLEAN
      BY <1>1, <2>2 DEF Submit, FormType
    <3>2. FormInv' /\ form'.open /\ form'.n = form.n /\ form'.busy = form.busy
      BY <1>1, <2>2, <3>1, FlagsKeep DEF Mine
    <3> QED
      BY <2>2, <3>2 DEF Mine
  <2>3. CASE ~(Mine(s) /\ s.outcome \in {"add", "error"})
    <3>1. form' = form
      BY <2>3 DEF Submit
    <3> QED
      BY <1>1, <2>3, <3>1, FormStays
  <2> QED
    BY <2>1, <2>2, <2>3
<1> DEFINE adding == [s EXCEPT !.step = "adding"]
<1>3. adding \in SendType(opens) /\ adding.dialog = s.dialog /\ adding.step = "adding"
  BY DEF SendType
<1>4. sends' = others \cup (IF s.outcome = "add" THEN {adding} ELSE {})
  BY DEF Submit
<1> HIDE DEF adding
<1>5. sends' \subseteq SendType(opens') /\ IsFiniteSet(sends')
  <2>1. IsFiniteSet(others)
    BY <1>1, FS_Subset DEF SendInv
  <2>2. IsFiniteSet(sends')
    BY <1>4, <2>1, FS_AddElement
  <2> QED
    BY <1>1, <1>3, <1>4, <2>2 DEF SendInv
<1>6. ASSUME NEW n \in 1 .. MaxOpens
      PROVE  /\ n > opens' => added'[n] = [times |-> 0, remembered |-> FALSE]
             /\ added'[n].remembered \/ OneAdd(n)'
  <2>1. n > opens' => added'[n] = [times |-> 0, remembered |-> FALSE]
    BY <1>1 DEF SendInv
  <2>2. SUFFICES ASSUME ~added[n].remembered PROVE OneAdd(n)'
    BY <2>1
  <2>3. OneAdd(n)
    BY <1>1, <2>2 DEF SendInv
  <2>4. CASE n # s.dialog
    <3>1. \A t \in sends' : t.dialog = n => t \in sends
      BY <1>3, <1>4, <2>4
    <3>2. form'.n = n => form'.busy = form.busy
      BY <1>2, <2>4
    <3> QED
      BY <1>2, <2>3, <3>1, <3>2 DEF OneAdd, Mine
  <2>5. CASE n = s.dialog /\ s.outcome = "add"
    <3>1. form.open /\ form.n = n /\ ~form.busy
      BY <2>2, <2>5
    <3>2. (\A t \in sends : t.dialog # n) /\ added[n].times # 1
      BY <2>3, <3>1 DEF OneAdd, Mine
    <3>3. added[n].times = 0
      BY <1>1, <2>3, <3>2 DEF OneAdd, SendInv
    <3>4. \A t \in sends' : t.dialog = n => t = adding
      BY <1>4, <3>2
    <3>5. form'.busy
      BY <1>2, <2>5, <3>1 DEF Mine
    <3> QED
      BY <1>3, <3>3, <3>4, <3>5 DEF OneAdd, Mine
  <2>6. CASE n = s.dialog /\ s.outcome # "add"
    <3>1. sends' \subseteq sends
      BY <1>4, <2>6
    <3>2. form'.open => form.open
      BY <1>2
    <3>3. form.busy => form'.busy
      BY <1>2
    <3> QED
      BY <1>2, <2>3, <3>1, <3>2, <3>3 DEF OneAdd, Mine
  <2> QED
    BY <2>4, <2>5, <2>6
<1>7. SendInv'
  BY <1>1, <1>2, <1>5, <1>6 DEF SendInv
<1> QED
  BY <1>2, <1>7 DEF AdInv

LEMMA GoKeeps == ASSUME AddAssumption, AdInv, NEW limitReads \in BOOLEAN, Go(limitReads) PROVE AdInv'
<1> DEFINE remembers == form.remember /\ form.category # "" /\ form.dir # ""
           nth == CHOOSE n \in 1 .. MaxSends : \A t \in sends : t.nth # n
           s == [step |-> "remembering", nth |-> nth, dialog |-> form.n, outcome |-> Outcome(form, limitReads)]
<1>1. /\ form.open /\ Cardinality(sends) < MaxSends /\ UNCHANGED <<probes, dups, reads, opens, edits>>
      /\ IF remembers
         THEN /\ sends' = sends \cup {s} /\ added' = [added EXCEPT ![form.n].remembered = TRUE]
              /\ UNCHANGED form
         ELSE Submit(s, sends) /\ UNCHANGED added
  BY DEF Go
<1> HIDE DEF remembers
<1>2. nth \in 1 .. MaxSends
  <2>1. \E n \in 1 .. MaxSends : \A t \in sends : t.nth # n
    BY <1>1, NumberFree DEF AdInv
  <2> QED
    BY <2>1
<1> HIDE DEF nth
<1>3. form.n \in 1 .. opens /\ opens \in 0 .. MaxOpens
  BY <1>1 DEF AdInv, SendInv
<1>4. s \in SendType(opens) /\ s.dialog = form.n /\ (s.outcome = "add" => ~form.busy)
  BY <1>2, <1>3 DEF SendType, Outcome, CanSubmit
<1> HIDE DEF s
<1>5. CASE ~remembers
  BY <1>1, <1>4, <1>5, SubmitKeeps
<1>6. CASE remembers
  <2>1. /\ sends' = sends \cup {s} /\ UNCHANGED <<form, probes, dups, reads, opens>>
        /\ added' = [added EXCEPT ![form.n] = [added[form.n] EXCEPT !.remembered = TRUE]]
    BY <1>1, <1>6
  <2>2. added \in [1 .. MaxOpens -> [times : Nat, remembered : BOOLEAN]] /\ SendInv
    BY DEF AdInv, SendInv
  <2> DEFINE a == [added[form.n] EXCEPT !.remembered = TRUE]
  <2>3. a \in [times : Nat, remembered : BOOLEAN] /\ a.remembered /\ form.n \in 1 .. MaxOpens
    <3>1. form.n \in 1 .. MaxOpens
      BY <1>3 DEF AddAssumption
    <3>2. added[form.n] \in [times : Nat, remembered : BOOLEAN]
      BY <2>2, <3>1
    <3> QED
      BY <3>1, <3>2
  <2> HIDE DEF a
  <2>4. /\ added' \in [1 .. MaxOpens -> [times : Nat, remembered : BOOLEAN]] /\ added'[form.n].remembered
        /\ \A n \in 1 .. MaxOpens : n # form.n => added'[n] = added[n]
    BY <2>1, <2>2, <2>3 DEF a
  <2>5. IsFiniteSet(sends') /\ sends' \subseteq SendType(opens')
    BY <1>4, <2>1, <2>2, FS_AddElement DEF SendInv
  <2>6. ASSUME NEW n \in 1 .. MaxOpens
        PROVE  /\ n > opens' => added'[n] = [times |-> 0, remembered |-> FALSE]
               /\ added'[n].remembered \/ OneAdd(n)'
    <3>1. CASE n = form.n
      BY <1>3, <2>1, <2>4, <3>1
    <3>2. CASE n # form.n
      <4>1. added'[n] = added[n] /\ (\A t \in sends' : t.dialog = n => t \in sends)
        BY <1>4, <2>1, <2>4, <3>2
      <4>2. n > opens => added[n] = [times |-> 0, remembered |-> FALSE]
        BY <2>2 DEF SendInv
      <4>3. added[n].remembered \/ OneAdd(n)
        BY <2>2 DEF SendInv
      <4>4. OneAdd(n) => OneAdd(n)'
        BY <2>1, <4>1 DEF OneAdd, Mine
      <4> QED
        BY <2>1, <4>1, <4>2, <4>3, <4>4
    <3> QED
      BY <3>1, <3>2
  <2>7. SendInv'
    BY <2>1, <2>2, <2>4, <2>5, <2>6 DEF SendInv
  <2> QED
    BY <2>1, <2>7, FormStays DEF AdInv
<1> QED
  BY <1>5, <1>6

LEMMA RememberedKeeps == ASSUME AddAssumption, AdInv, NEW s \in sends, Remembered(s) PROVE AdInv'
<1>1. s \in SendType(opens) /\ s.step = "remembering" /\ opens \in 0 .. MaxOpens
  BY DEF AdInv, SendInv, Remembered
<1>2. s.dialog \in 1 .. MaxOpens
  <2>1. s.dialog \in 1 .. opens
    BY <1>1 DEF SendType
  <2> QED
    BY <1>1, <2>1 DEF AddAssumption
<1>3. added[s.dialog].remembered
  BY <1>1, <1>2 DEF AdInv, SendInv, OneAdd
<1>4. Submit(s, sends \ {s}) /\ UNCHANGED <<probes, dups, reads, added, opens>>
  BY DEF Remembered
<1> QED
  BY <1>1, <1>3, <1>4, SubmitKeeps

LEMMA AddedKeeps == ASSUME AddAssumption, AdInv, NEW s \in sends, Added(s) PROVE AdInv'
<1>1. /\ s.step = "adding" /\ sends' = sends \ {s} /\ Close /\ UNCHANGED <<reads, opens>>
      /\ added' = [added EXCEPT ![s.dialog] = [added[s.dialog] EXCEPT !.times = @ + 1]]
  BY DEF Added
<1>2. FormInv' /\ ~form'.open /\ form'.n = 0
  BY <1>1, CloseKeeps DEF AdInv
<1>3. SendInv /\ s \in SendType(opens) /\ added \in [1 .. MaxOpens -> [times : Nat, remembered : BOOLEAN]]
  BY DEF AdInv, SendInv
<1>4. s.dialog \in 1 .. opens /\ s.dialog \in 1 .. MaxOpens
  <2>1. s.dialog \in 1 .. opens /\ opens \in 0 .. MaxOpens
    BY <1>3 DEF SendInv, SendType
  <2> QED
    BY <2>1 DEF AddAssumption
<1> DEFINE a == [added[s.dialog] EXCEPT !.times = @ + 1]
<1>5. /\ a \in [times : Nat, remembered : BOOLEAN] /\ a.remembered = added[s.dialog].remembered
      /\ a.times = added[s.dialog].times + 1
  <2>1. added[s.dialog] \in [times : Nat, remembered : BOOLEAN]
    BY <1>3, <1>4
  <2> QED
    BY <2>1
<1> HIDE DEF a
<1>6. /\ added' \in [1 .. MaxOpens -> [times : Nat, remembered : BOOLEAN]] /\ added'[s.dialog] = a
      /\ \A n \in 1 .. MaxOpens : n # s.dialog => added'[n] = added[n]
  BY <1>1, <1>3, <1>4, <1>5 DEF a
<1>7. IsFiniteSet(sends') /\ sends' \subseteq SendType(opens')
  BY <1>1, <1>3, FS_RemoveElement DEF SendInv
<1>8. ASSUME NEW n \in 1 .. MaxOpens
      PROVE  /\ n > opens' => added'[n] = [times |-> 0, remembered |-> FALSE]
             /\ added'[n].remembered \/ OneAdd(n)'
  <2>1. n > opens => added[n] = [times |-> 0, remembered |-> FALSE]
    BY <1>3 DEF SendInv
  <2>2. added[n].remembered \/ OneAdd(n)
    BY <1>3 DEF SendInv
  <2>3. CASE n # s.dialog
    BY <1>1, <1>2, <1>6, <2>1, <2>2, <2>3 DEF OneAdd, Mine
  <2>4. CASE n = s.dialog
    <3>1. ~(n > opens')
      BY <1>1, <1>3, <1>4, <2>4 DEF SendInv
    <3>2. SUFFICES ASSUME ~added[n].remembered PROVE OneAdd(n)'
      BY <1>5, <1>6, <2>4, <3>1
    <3>3. added[n].times = 0 /\ (\A t \in sends' : t.dialog # n)
      BY <1>1, <2>2, <2>4, <3>2 DEF OneAdd
    <3>4. added'[n].times = 1
      BY <1>5, <1>6, <2>4, <3>3
    <3> QED
      BY <1>2, <3>3, <3>4 DEF OneAdd, Mine
  <2> QED
    BY <2>3, <2>4
<1>9. opens' \in 0 .. MaxOpens /\ form'.n \in 0 .. opens'
  BY <1>1, <1>2, <1>3 DEF SendInv
<1>10. SendInv'
  BY <1>1, <1>2, <1>3, <1>6, <1>7, <1>8, <1>9 DEF SendInv
<1> QED
  BY <1>2, <1>10 DEF AdInv

LEMMA NotAddedKeeps == ASSUME AdInv, NEW s \in sends, NotAdded(s) PROVE AdInv'
<1>1. /\ s.step = "adding" /\ sends' = sends \ {s} /\ UNCHANGED <<probes, dups, reads, added, opens>>
      /\ form' = IF Mine(s) THEN [form EXCEPT !.error = TRUE, !.busy = FALSE] ELSE form
  BY DEF NotAdded
<1>2. FormInv /\ SendInv
  BY DEF AdInv
<1>3. /\ FormInv' /\ form'.n = form.n /\ (form'.open <=> form.open)
      /\ form.n # s.dialog => form'.busy = form.busy
  <2>1. CASE Mine(s)
    <3>1. form' = [form EXCEPT !.busy = FALSE, !.error = TRUE]
      BY <1>1, <2>1
    <3>2. FormInv' /\ form'.open /\ form'.n = form.n
      BY <1>1, <1>2, <2>1, <3>1, FlagsKeep DEF Mine
    <3> QED
      BY <2>1, <3>2 DEF Mine
  <2>2. CASE ~Mine(s)
    BY <1>1, <1>2, <2>2, FormStays
  <2> QED
    BY <2>1, <2>2
<1>4. IsFiniteSet(sends') /\ sends' \subseteq SendType(opens')
  BY <1>1, <1>2, FS_RemoveElement DEF SendInv
<1>5. ASSUME NEW n \in 1 .. MaxOpens
      PROVE  /\ n > opens' => added'[n] = [times |-> 0, remembered |-> FALSE]
             /\ added'[n].remembered \/ OneAdd(n)'
  <2>1. n > opens => added[n] = [times |-> 0, remembered |-> FALSE]
    BY <1>2 DEF SendInv
  <2>2. SUFFICES ASSUME ~added[n].remembered PROVE OneAdd(n)'
    BY <1>1, <2>1
  <2>3. OneAdd(n)
    BY <1>2, <2>2 DEF SendInv
  <2>4. CASE n # s.dialog
    BY <1>1, <1>3, <2>3, <2>4 DEF OneAdd, Mine
  <2>5. CASE n = s.dialog
    <3>1. \A t \in sends' : t.dialog # n
      BY <1>1, <2>3, <2>5 DEF OneAdd
    <3> QED
      BY <1>1, <1>3, <2>3, <3>1 DEF OneAdd
  <2> QED
    BY <2>4, <2>5
<1>6. SendInv'
  BY <1>1, <1>2, <1>3, <1>4, <1>5 DEF SendInv
<1> QED
  BY <1>3, <1>6 DEF AdInv

-----------------------------------------------------------------------------
LEMMA AdInitHolds == ASSUME AddAssumption, AdInit PROVE AdInv
<1>1. form = Closed /\ probes = {} /\ dups = {} /\ ~form.open /\ form.n = 0 /\ form.probe = Unknown
      /\ form.dup = NotAsked
  BY DEF AdInit, Closed
<1>2. FormInv
  BY <1>1, ClosedTyped DEF FormInv, Fits, ProbeIsOfLink, DupIsOfForm, DirFollows
<1>3. SendInv
  BY <1>1, FS_EmptySet DEF AdInit, AddAssumption, SendInv, OneAdd
<1> QED
  BY <1>2, <1>3 DEF AdInv

LEMMA AdStepKeeps == ASSUME AddAssumption, AdInv, [AdNext]_adVars PROVE AdInv'
<1>1. CASE Cancel \/ DupHandled
  BY <1>1, GoneKeeps DEF Cancel, DupHandled
<1>2. CASE ProbeStep
  BY <1>2, ProbeStartsKeeps, ProbeAnsweredKeeps DEF ProbeStep
<1>3. CASE DupStep
  BY <1>3, DupStepKeeps DEF DupStep
<1>4. CASE ReadStep
  BY <1>4, ReadKeeps DEF ReadStep
<1>5. CASE RememberStep \/ AddStep
  BY <1>5, RememberedKeeps, AddedKeeps, NotAddedKeeps DEF RememberStep, AddStep
<1>6. CASE UNCHANGED adVars
  <2>1. FormInv'
    BY <1>6, FormStays DEF AdInv, adVars
  <2>2. SendInv'
    BY <1>6, SameDialog DEF AdInv, SendInv, adVars
  <2> QED
    BY <2>1, <2>2 DEF AdInv
<1> QED
  BY <1>1, <1>2, <1>3, <1>4, <1>5, <1>6, OpenKeeps, UserKeeps, PickKeeps, GoKeeps DEF AdNext

\* Every reachable state of AddDownloadDialog.tsx, over any number of links, edits, openings
\* and presses of the button: every answer under way that will be taken is for what the
\* form shows, every add under way is the only one of its dialog.
THEOREM AddInvariant == ASSUME AddAssumption PROVE AdSpec => []AdInv
<1>1. AdInit => AdInv
  BY AdInitHolds
<1>2. AdInv /\ [AdNext]_adVars => AdInv'
  BY AdStepKeeps
<1> QED
  BY <1>1, <1>2, PTL DEF AdSpec

LEMMA AdTyped == ASSUME AddAssumption, AdInv PROVE AdTypeOK
<1>1. form \in FormType /\ Fits
  BY DEF AdInv, FormInv
<1>2. form.probe \in {Unknown} \cup [of : Links, ok : BOOLEAN] /\ form.text \in Texts /\ form.category \in Categories
      /\ form.name \in Names
  BY <1>1 DEF FormType
<1>3. form.probe.of \in Links \cup {NoLink}
  BY <1>2 DEF Unknown
<1>4. ASSUME NEW tasks, \A t, u \in tasks : t.alive /\ u.alive => t = u
      PROVE  Cardinality({t \in tasks : t.alive}) <= 1
  <2> DEFINE alive == {t \in tasks : t.alive}
  <2>1. CASE alive = {}
    BY <2>1, FS_EmptySet
  <2>2. CASE alive # {}
    <3>1. PICK t \in alive : TRUE
      BY <2>2
    <3>2. alive = {t}
      BY <1>4, <3>1
    <3> HIDE DEF alive
    <3>3. Cardinality({t}) = 1
      BY FS_Singleton
    <3> QED
      BY <3>2, <3>3 DEF alive
  <2> QED
    BY <2>1, <2>2
<1>5. Cardinality({p \in probes : p.alive}) <= 1 /\ Cardinality({d \in dups : d.alive}) <= 1
  BY <1>1, <1>4 DEF Fits
<1> QED
  BY <1>2, <1>3, <1>5 DEF AdTypeOK, Categories, Names

LEMMA FitsShown == ASSUME AdInv PROVE ProbeIsOfLink /\ DupIsOfForm /\ DirFollows
  BY DEF AdInv, FormInv, Fits

\* What the dialog says about a link, and whether it is a duplicate, is about what it
\* shows, in whatever order useEffect's requests are answered, and an untouched folder is
\* that of the category shown.
THEOREM AnswersFitTheForm ==
  ASSUME AddAssumption PROVE AdSpec => [](ProbeIsOfLink /\ DupIsOfForm /\ DirFollows)
<1>1. AdInv => ProbeIsOfLink /\ DupIsOfForm /\ DirFollows
  BY FitsShown
<1> QED
  BY <1>1, AddInvariant, PTL

LEMMA OnceHolds == ASSUME AdInv PROVE AddedOnce
  BY DEF AdInv, SendInv, OneAdd, AddedOnce

\* go and submit: one dialog adds its download once, however often and fast the button is
\* pressed and whatever other dialogs are opened meanwhile, unless the folder was to be
\* remembered.
THEOREM AddsOnce == ASSUME AddAssumption PROVE AdSpec => []AddedOnce
<1>1. AdInv => AddedOnce
  BY OnceHolds
<1> QED
  BY <1>1, AddInvariant, PTL
===============================================================================
