----------------------------- MODULE TakeoverProofs -----------------------------
(***************************************************************************)
(* Proofs that the extension neither loses a download nor has it twice,    *)
(* for every number of downloads, ends of the worker, outages of the       *)
(* application and changes of its settings, and whatever the handlers of   *)
(* different downloads do in between.                                      *)
(***************************************************************************)
EXTENDS Takeover, TLAPS

ItemType ==
  [url : Urls, own : BOOLEAN, private : BOOLEAN, origin : Nat,
   state : {"progress", "complete", "cancelled", "erased"}]
HandlerType ==
  [pc : Busy \cup Cut \cup {"done"}, answer : Settings \cup {None}, cfg : Settings, paused : BOOLEAN,
   replyLost : BOOLEAN, at : Busy \cup {"done"}]

TkRecords ==
  /\ items \in Seq(ItemType) /\ handler \in Seq(HandlerType) /\ Len(items) = Len(handler)
  /\ conf \in [intercept : BOOLEAN, skip : SUBSET Urls, fresh : BOOLEAN]
  /\ stored \in [config : Settings \cup {None}, paused : BOOLEAN]
  /\ startup \in [pc : {"asking", "answered", "done"}, answer : Settings \cup {None}]
  /\ app \in [up : BOOLEAN, config : Settings, got : SUBSET Ids]
  /\ passThrough \subseteq Urls /\ Len(items) <= MaxItems

\* Where a handler is tells where its download is: before the cancel it is the
\* browser's alone, afterwards it is gone there; what the application has, a
\* handler gives back only if the reply was lost.
Undecided == {"asking", "answered", "decide", "cancel"}

Stage(i) ==
  /\ handler[i].pc \in Undecided => InBrowser(i)
  /\ handler[i].pc \in Undecided \cup {"send"} => i \notin app.got
  /\ handler[i].pc \in {"send", "erase", "giveBack", "again"} => ~InBrowser(i)
  /\ handler[i].pc = "erase" => i \in app.got
  /\ handler[i].pc \in {"giveBack", "again"} /\ i \in app.got => handler[i].replyLost
  /\ i \in app.got => ~InBrowser(i)
  /\ handler[i].pc = "cut" =>
       /\ handler[i].at \in Undecided => InBrowser(i)
       /\ handler[i].at = "erase" => i \in app.got
       /\ handler[i].at \in Busy

\* A download of the user stands for itself.  One of the extension is never
\* taken, and stands for one that was given back, by a handler that is done.
Lineage(i) ==
  IF ~items[i].own THEN items[i].origin = i
  ELSE LET o == items[i].origin
       IN /\ handler[i].pc \in {"asking", "answered", "decide", "done", "cut"} /\ InBrowser(i)
          /\ o \in Ids /\ o < i /\ ~items[o].own /\ handler[o].pc = "done"
          /\ o \in app.got => handler[o].replyLost

TkInv == TkRecords /\ (\A i \in Ids : Stage(i) /\ Lineage(i)) /\ Conserved

\* At the start there are no downloads.
LEMMA TkInitHolds == ASSUME TakeoverAssumption, TkInit PROVE TkInv
<1>1. TkRecords
  BY DEF TakeoverAssumption, TkInit, TkRecords, Settings, Default, Cached, None, Ids
<1>2. Ids = {}
  BY DEF TkInit, Ids
<1> QED
  BY <1>1, <1>2 DEF TkInv, Conserved

\* Records stay records, whatever happens.
LEMMA LoadedIsSettings ==
  ASSUME TkRecords, NEW a \in Settings \cup {None}
  PROVE  LoadedConfig(a) \in Settings
  BY DEF TkRecords, LoadedConfig, Settings, Default, None

LEMMA KeepTyped ==
  ASSUME TkRecords, NEW a \in Settings \cup {None}, Keep(a)
  PROVE  /\ conf' \in [intercept : BOOLEAN, skip : SUBSET Urls, fresh : BOOLEAN]
         /\ stored' \in [config : Settings \cup {None}, paused : BOOLEAN]
<1>1. LoadedConfig(a) \in Settings
  BY LoadedIsSettings
<1>2. conf' \in [intercept : BOOLEAN, skip : SUBSET Urls, fresh : BOOLEAN]
  BY <1>1 DEF Keep, Cached, Settings
<1>3. stored' \in [config : Settings \cup {None}, paused : BOOLEAN]
  BY DEF Keep, TkRecords
<1> QED
  BY <1>2, <1>3

\* A step that changes no item's record and no handler changes nothing below.
LEMMA TkOthersKeep ==
  ASSUME TkInv, TkRecords', UNCHANGED <<items, handler>>, app'.got = app.got
  PROVE  TkInv'
<1>1. \A i \in Ids : Stage(i)' /\ Lineage(i)'
  BY DEF TkInv, Stage, Lineage, InBrowser, Ids
<1>2. Conserved'
  BY DEF TkInv, Conserved, InBrowser, Ids, Lost
<1> QED
  BY <1>1, <1>2 DEF TkInv, Ids

LEMMA TkOthersTyped ==
  ASSUME TakeoverAssumption, TkInv,
         \/ \E c \in Settings : ChangeSettings(c)
         \/ \E u \in Urls : MinutePasses(u)
         \/ AppComesOrGoes \/ SetInterceptPaused \/ StartupAnswered \/ StartupLoaded \/ ConfigAges
         \/ UNCHANGED tkVars
  PROVE  TkInv'
<1> USE DEF TkInv, TkRecords, Ids
<1>1. CASE \E c \in Settings : ChangeSettings(c)
  <2>1. TkRecords'
    BY <1>1 DEF ChangeSettings
  <2> QED
    BY <1>1, <2>1, TkOthersKeep DEF ChangeSettings
<1>2. CASE \E u \in Urls : MinutePasses(u)
  <2>1. TkRecords'
    BY <1>2 DEF MinutePasses
  <2> QED
    BY <1>2, <2>1, TkOthersKeep DEF MinutePasses
<1>3. CASE AppComesOrGoes
  <2>1. TkRecords'
    BY <1>3 DEF AppComesOrGoes
  <2> QED
    BY <1>3, <2>1, TkOthersKeep DEF AppComesOrGoes
<1>4. CASE SetInterceptPaused
  <2>1. TkRecords'
    BY <1>4 DEF SetInterceptPaused
  <2> QED
    BY <1>4, <2>1, TkOthersKeep DEF SetInterceptPaused
<1>5. CASE StartupAnswered
  <2>1. startup' \in [pc : {"asking", "answered", "done"}, answer : Settings \cup {None}]
    BY <1>5 DEF StartupAnswered, Answer
  <2>2. TkRecords'
    BY <1>5, <2>1 DEF StartupAnswered
  <2> QED
    BY <1>5, <2>2, TkOthersKeep DEF StartupAnswered
<1>6. CASE StartupLoaded
  <2>1. /\ conf' \in [intercept : BOOLEAN, skip : SUBSET Urls, fresh : BOOLEAN]
        /\ stored' \in [config : Settings \cup {None}, paused : BOOLEAN]
    BY <1>6, KeepTyped DEF StartupLoaded
  <2>2. TkRecords'
    BY <1>6, <2>1 DEF StartupLoaded
  <2> QED
    BY <1>6, <2>2, TkOthersKeep DEF StartupLoaded
<1>7. CASE ConfigAges
  <2>1. TkRecords'
    BY <1>7 DEF ConfigAges
  <2> QED
    BY <1>7, <2>1, TkOthersKeep DEF ConfigAges
<1>8. CASE UNCHANGED tkVars
  <2>1. TkRecords'
    BY <1>8 DEF tkVars
  <2> QED
    BY <1>8, <2>1, TkOthersKeep DEF tkVars
<1> QED
  BY <1>1, <1>2, <1>3, <1>4, <1>5, <1>6, <1>7, <1>8

\* A step of one download, the browser's or its handler's, disturbs no other:
\* what another one stands for is a handler that is done.
LEMMA TkOneKeeps ==
  ASSUME TkInv, TkRecords', NEW i \in Ids, Ids' = Ids,
         \A j \in Ids \ {i} : items'[j] = items[j] /\ handler'[j] = handler[j],
         items'[i].own = items[i].own, items'[i].origin = items[i].origin,
         app.got \subseteq app'.got, app'.got \subseteq app.got \cup {i},
         handler[i].pc = "done" => handler'[i] = handler[i] /\ app'.got = app.got,
         Stage(i)', Lineage(i)',
         InBrowser(i)' \/ i \in app'.got \/ handler'[i].pc \in Busy \cup {"refused"}
           \/ (handler[i].pc = "done" /\ ~InBrowser(i))
  PROVE  TkInv'
<1>1. ASSUME NEW j \in Ids, j # i PROVE Stage(j)' /\ Lineage(j)'
  <2>1. Stage(j) /\ Lineage(j) /\ items'[j] = items[j] /\ handler'[j] = handler[j]
    BY <1>1 DEF TkInv
  <2>2. Stage(j)'
    BY <1>1, <2>1 DEF Stage, InBrowser
  <2>3. CASE ~items[j].own
    BY <2>1, <2>2, <2>3 DEF Lineage
  <2>4. CASE items[j].own
    <3> DEFINE o == items[j].origin
    <3>1. o \in Ids /\ o < j /\ ~items[o].own /\ handler[o].pc = "done" /\ (o \in app.got => handler[o].replyLost)
      BY <2>1, <2>4 DEF Lineage
    <3>2. ~items'[o].own /\ handler'[o] = handler[o] /\ (o \in app'.got => o \in app.got)
      BY <3>1
    <3>3. InBrowser(j)' /\ handler'[j].pc \in {"asking", "answered", "decide", "done", "cut"}
      BY <2>1, <2>4 DEF Lineage, InBrowser
    <3> QED
      BY <2>1, <2>2, <2>4, <3>1, <3>2, <3>3 DEF Lineage
  <2> QED
    BY <2>2, <2>3, <2>4
<1>2. ASSUME NEW j \in Ids, ~InBrowser(j)'
      PROVE  \/ j \in app'.got \/ handler'[j].pc \in Busy \/ Lost(j)'
             \/ \E k \in Ids : items'[k].own /\ k > j /\ items'[k].origin = items'[j].origin
  <2>1. \A k \in Ids : items'[k].own = items[k].own /\ items'[k].origin = items[k].origin
    OBVIOUS
  <2>2. CASE InBrowser(j) \/ j = i
    <3>1. j = i
      BY <1>2, <2>2 DEF InBrowser
    <3>2. CASE handler[i].pc = "done" /\ ~InBrowser(i)
      <4>1. \/ i \in app.got \/ handler[i].pc \in Busy \/ Lost(i)
            \/ \E k \in Ids : items[k].own /\ k > i /\ items[k].origin = items[i].origin
        BY <3>2 DEF TkInv, Conserved
      <4> QED
        BY <2>1, <3>1, <3>2, <4>1 DEF Busy, Lost
    <3> QED
      BY <1>2, <3>1, <3>2 DEF Lost
  <2>3. CASE ~InBrowser(j) /\ j # i
    <3>1. \/ j \in app.got \/ handler[j].pc \in Busy \/ Lost(j)
          \/ \E k \in Ids : items[k].own /\ k > j /\ items[k].origin = items[j].origin
      BY <2>3 DEF TkInv, Conserved
    <3> QED
      BY <2>1, <2>3, <3>1 DEF Lost
  <2> QED
    BY <2>2, <2>3
<1>3. Conserved'
  BY <1>2 DEF Conserved
<1> QED
  BY <1>1, <1>3 DEF TkInv

\* What a step of one handler writes is a handler, and likewise an item.
LEMMA GoesTyped ==
  ASSUME TkRecords, NEW i \in Ids, NEW pc \in Busy \cup Cut \cup {"done"}, Goes(i, pc)
  PROVE  /\ handler' \in Seq(HandlerType) /\ Len(handler') = Len(handler)
         /\ handler'[i].pc = pc /\ handler'[i].replyLost = handler[i].replyLost
         /\ \A j \in Ids \ {i} : handler'[j] = handler[j]
<1>1. i \in 1 .. Len(handler) /\ handler[i] \in HandlerType
  BY DEF TkRecords, Ids
<1>2. [handler[i] EXCEPT !.pc = pc] \in HandlerType
  BY <1>1 DEF HandlerType
<1> QED
  BY <1>1, <1>2 DEF TkRecords, Ids, HandlerType, Goes

LEMMA StateTyped ==
  ASSUME TkRecords, NEW i \in Ids, NEW st \in {"progress", "complete", "cancelled", "erased"},
         items' = [items EXCEPT ![i].state = st]
  PROVE  /\ items' \in Seq(ItemType) /\ Len(items') = Len(items) /\ Ids' = Ids
         /\ items'[i].own = items[i].own /\ items'[i].origin = items[i].origin /\ items'[i].state = st
         /\ \A j \in Ids \ {i} : items'[j] = items[j]
<1>1. i \in 1 .. Len(items) /\ items[i] \in ItemType
  BY DEF TkRecords, Ids
<1>2. [items[i] EXCEPT !.state = st] \in ItemType
  BY <1>1 DEF ItemType
<1> QED
  BY <1>1, <1>2 DEF TkRecords, Ids, ItemType

LEMMA NewTyped ==
  ASSUME TkRecords
  PROVE  NewHandler \in HandlerType
<1>1. [intercept |-> conf.intercept, skip |-> conf.skip] \in Settings /\ stored.paused \in BOOLEAN
  BY DEF TkRecords, Settings
<1> QED
  BY <1>1 DEF NewHandler, HandlerType, Busy, None

\* A download keeps what it stands for; a handler of one of the extension only
\* decides.
LEMMA StepLineage ==
  ASSUME TkInv, TkRecords', NEW i \in Ids, Ids' = Ids,
         \A j \in Ids \ {i} : items'[j] = items[j] /\ handler'[j] = handler[j],
         items'[i].own = items[i].own, items'[i].origin = items[i].origin,
         app.got \subseteq app'.got, app'.got \subseteq app.got \cup {i},
         items[i].own => InBrowser(i)' /\ handler'[i].pc \in {"asking", "answered", "decide", "done", "cut"}
  PROVE  Lineage(i)'
<1>1. Lineage(i)
  BY DEF TkInv
<1>2. CASE ~items[i].own
  BY <1>1, <1>2 DEF Lineage
<1>3. CASE items[i].own
  <2>1. items[i].origin \in Ids /\ items[i].origin < i /\ items[i].origin # i
    BY <1>1, <1>3 DEF Lineage, Ids, TkInv, TkRecords
  <2> QED
    BY <1>1, <1>3, <2>1 DEF Lineage
<1> QED
  BY <1>2, <1>3

LEMMA FinishesKeeps == ASSUME TkInv, NEW i \in Ids, BrowserFinishes(i) PROVE TkInv'
<1>1. TkRecords /\ Stage(i) /\ Lineage(i)
  BY DEF TkInv
<1>2. items' = [items EXCEPT ![i].state = "complete"]
  BY DEF BrowserFinishes
<1>3. /\ items' \in Seq(ItemType) /\ Len(items') = Len(items) /\ Ids' = Ids
      /\ items'[i].own = items[i].own /\ items'[i].origin = items[i].origin /\ items'[i].state = "complete"
      /\ \A j \in Ids \ {i} : items'[j] = items[j]
  BY <1>1, <1>2, StateTyped
<1>4. TkRecords'
  BY <1>1, <1>3 DEF TkRecords, BrowserFinishes
<1>5. InBrowser(i) /\ InBrowser(i)'
  BY <1>3 DEF InBrowser, BrowserFinishes
<1>6. Stage(i)'
  BY <1>1, <1>5 DEF Stage, BrowserFinishes
<1>7. Lineage(i)'
  <2>1. items[i].own => handler[i].pc \in {"asking", "answered", "decide", "done", "cut"}
    BY <1>1 DEF Lineage
  <2> QED
    BY <1>3, <1>4, <1>5, <2>1, StepLineage DEF BrowserFinishes
<1> QED
  BY <1>3, <1>4, <1>5, <1>6, <1>7, TkOneKeeps DEF BrowserFinishes

LEMMA HostAnswersKeeps == ASSUME TkInv, NEW i \in Ids, HostAnswers(i) PROVE TkInv'
<1>1. TkRecords /\ Stage(i) /\ Lineage(i)
  BY DEF TkInv
<1>2. i \in 1 .. Len(handler) /\ handler[i] \in HandlerType /\ Answer \in Settings \cup {None}
  BY <1>1 DEF TkRecords, Ids, Answer
<1>3. [handler[i] EXCEPT !.pc = "answered", !.answer = Answer] \in HandlerType
  BY <1>2 DEF HandlerType, Busy
<1>4. /\ handler' \in Seq(HandlerType) /\ Len(handler') = Len(handler) /\ handler'[i].pc = "answered"
      /\ \A j \in Ids \ {i} : handler'[j] = handler[j]
  <2> DEFINE h == [handler[i] EXCEPT !.pc = "answered", !.answer = Answer]
  <2>1. handler' = [handler EXCEPT ![i] = h]
    BY <1>1, <1>2 DEF TkRecords, Ids, HostAnswers
  <2>2. h.pc = "answered" /\ h \in HandlerType
    BY <1>2, <1>3 DEF HandlerType
  <2> HIDE DEF h
  <2> QED
    BY <1>1, <1>2, <2>1, <2>2 DEF TkRecords, Ids
<1>5. TkRecords' /\ Ids' = Ids
  BY <1>1, <1>4 DEF TkRecords, HostAnswers, Ids
<1>6. InBrowser(i) /\ InBrowser(i)' /\ handler[i].pc = "asking"
  BY <1>1 DEF InBrowser, HostAnswers, At, Stage, Undecided
<1>7. Stage(i)' /\ Lineage(i)'
  <2>1. Stage(i)'
    BY <1>1, <1>4, <1>6 DEF Stage, HostAnswers, Undecided
  <2>2. Lineage(i)'
    BY <1>1, <1>4, <1>5, <1>6, StepLineage DEF HostAnswers
  <2> QED
    BY <2>1, <2>2
<1> QED
  BY <1>4, <1>5, <1>6, <1>7, TkOneKeeps DEF HostAnswers

LEMMA ConfigLoadedKeeps == ASSUME TkInv, NEW i \in Ids, ConfigLoaded(i) PROVE TkInv'
<1>1. TkRecords /\ Stage(i) /\ Lineage(i) /\ i \in 1 .. Len(handler) /\ handler[i] \in HandlerType
  BY DEF TkInv, TkRecords, Ids
<1>3. handler[i].answer \in Settings \cup {None} /\ Keep(handler[i].answer)
  BY <1>1 DEF HandlerType, ConfigLoaded
<1>2. /\ handler' \in Seq(HandlerType) /\ Len(handler') = Len(handler) /\ handler'[i].pc = "decide"
      /\ \A j \in Ids \ {i} : handler'[j] = handler[j]
  <2> DEFINE h == [handler[i] EXCEPT !.pc = "decide", !.cfg = LoadedConfig(handler[i].answer)]
  <2>1. handler' = [handler EXCEPT ![i] = h]
    BY <1>1 DEF TkRecords, Ids, ConfigLoaded
  <2>2. LoadedConfig(handler[i].answer) \in Settings
    BY <1>1, <1>3, LoadedIsSettings
  <2>3. h.pc = "decide" /\ h \in HandlerType
    BY <1>1, <2>2 DEF HandlerType, Busy
  <2> HIDE DEF h
  <2> QED
    BY <1>1, <2>1, <2>3 DEF TkRecords, Ids
<1>4. /\ conf' \in [intercept : BOOLEAN, skip : SUBSET Urls, fresh : BOOLEAN]
      /\ stored' \in [config : Settings \cup {None}, paused : BOOLEAN]
  BY <1>1, <1>3, KeepTyped
<1>5. TkRecords' /\ Ids' = Ids
  BY <1>1, <1>2, <1>4 DEF TkRecords, ConfigLoaded, Ids
<1>6. InBrowser(i) /\ InBrowser(i)' /\ handler[i].pc = "answered"
  BY <1>1 DEF InBrowser, ConfigLoaded, At, Stage, Undecided
<1>7. Stage(i)'
  BY <1>1, <1>2, <1>6 DEF Stage, ConfigLoaded, Undecided
<1>8. Lineage(i)'
  BY <1>2, <1>5, <1>6, StepLineage DEF ConfigLoaded
<1> QED
  BY <1>2, <1>5, <1>6, <1>7, <1>8, TkOneKeeps DEF ConfigLoaded

\* An own download is left to the browser here.
LEMMA DecideKeeps == ASSUME TkInv, NEW i \in Ids, Decide(i) PROVE TkInv'
<1> DEFINE pc == IF handler[i].cfg.intercept /\ ~handler[i].paused /\ ShouldIntercept(i) THEN "cancel" ELSE "done"
<1>1. TkRecords /\ Stage(i) /\ Lineage(i) /\ i \in 1 .. Len(handler) /\ handler[i] \in HandlerType
  BY DEF TkInv, TkRecords, Ids
<1>2. pc \in {"cancel", "done"} /\ (items[i].own => pc = "done")
  BY DEF ShouldIntercept
<1>3. /\ handler' \in Seq(HandlerType) /\ Len(handler') = Len(handler) /\ handler'[i].pc = pc
      /\ \A j \in Ids \ {i} : handler'[j] = handler[j]
  <2> DEFINE h == Decided(handler[i], pc)
  <2>1. handler' = [handler EXCEPT ![i] = h]
    BY <1>1 DEF TkRecords, Ids, Decide
  <2>2. None \in Settings \cup {None} /\ Default \in Settings
    BY DEF Settings, Default
  <2> HIDE DEF pc
  <2>3. h.pc = pc /\ h \in HandlerType
    BY <1>1, <1>2, <2>2 DEF Decided, Forgot, HandlerType, Busy
  <2> HIDE DEF h
  <2> QED
    BY <1>1, <2>1, <2>3 DEF TkRecords, Ids
<1> HIDE DEF pc
<1>4. TkRecords' /\ Ids' = Ids
  BY <1>1, <1>3 DEF TkRecords, Decide, Ids
<1>5. InBrowser(i) /\ InBrowser(i)' /\ handler[i].pc = "decide" /\ i \notin app.got
  BY <1>1 DEF InBrowser, Decide, At, Stage, Undecided
<1>6. Stage(i)'
  BY <1>2, <1>3, <1>5 DEF Stage, Decide, Undecided
<1>7. Lineage(i)'
  BY <1>2, <1>3, <1>4, <1>5, StepLineage DEF Decide
<1> QED
  BY <1>3, <1>4, <1>5, <1>6, <1>7, TkOneKeeps DEF Decide

\* A download that is over is left to the browser, the others are stopped.
LEMMA CancelKeeps == ASSUME TkInv, NEW i \in Ids, Cancel(i) PROVE TkInv'
<1>1. TkRecords /\ Stage(i) /\ Lineage(i) /\ {"send", "done"} \subseteq Busy \cup Cut \cup {"done"}
  BY DEF TkInv, Busy
<1>2. InBrowser(i) /\ handler[i].pc = "cancel" /\ i \notin app.got /\ ~items[i].own
  BY <1>1 DEF Cancel, At, Stage, Undecided, Lineage
<1>3. ASSUME items[i].state = "progress", items' = [items EXCEPT ![i].state = "cancelled"], Goes(i, "send")
      PROVE TkInv'
  <2>1. /\ handler' \in Seq(HandlerType) /\ Len(handler') = Len(handler) /\ handler'[i].pc = "send"
        /\ \A j \in Ids \ {i} : handler'[j] = handler[j]
    BY <1>1, <1>3, GoesTyped
  <2>2. /\ items' \in Seq(ItemType) /\ Len(items') = Len(items) /\ Ids' = Ids
        /\ items'[i].own = items[i].own /\ items'[i].origin = items[i].origin /\ items'[i].state = "cancelled"
        /\ \A j \in Ids \ {i} : items'[j] = items[j]
    BY <1>1, <1>3, StateTyped
  <2>3. TkRecords'
    BY <1>1, <2>1, <2>2 DEF TkRecords, Cancel
  <2>4. ~InBrowser(i)'
    BY <2>2 DEF InBrowser
  <2>5. Stage(i)'
    BY <1>2, <2>1, <2>4 DEF Stage, Cancel, Undecided
  <2>6. Lineage(i)'
    BY <1>2, <2>1, <2>2, <2>3, StepLineage DEF Cancel
  <2>7. handler'[i].pc \in Busy
    BY <2>1 DEF Busy
  <2> QED
    BY <1>2, <2>1, <2>2, <2>3, <2>5, <2>6, <2>7, TkOneKeeps DEF Cancel
<1>4. ASSUME UNCHANGED items, Goes(i, "done")
      PROVE TkInv'
  <2>1. /\ handler' \in Seq(HandlerType) /\ Len(handler') = Len(handler) /\ handler'[i].pc = "done"
        /\ \A j \in Ids \ {i} : handler'[j] = handler[j]
    BY <1>1, <1>4, GoesTyped
  <2>2. TkRecords' /\ Ids' = Ids
    BY <1>1, <1>4, <2>1 DEF TkRecords, Cancel, Ids
  <2>3. InBrowser(i)'
    BY <1>2, <1>4 DEF InBrowser
  <2>4. Stage(i)'
    BY <1>2, <2>1, <2>3 DEF Stage, Cancel, Undecided
  <2>5. Lineage(i)'
    BY <1>2, <1>4, <2>1, <2>2, StepLineage DEF Cancel
  <2> QED
    BY <1>2, <1>4, <2>1, <2>2, <2>3, <2>4, <2>5, TkOneKeeps DEF Cancel
<1> QED
  BY <1>3, <1>4 DEF Cancel

\* What the application takes is no longer in the browser; its handler will
\* erase it, or give it back if the reply was lost.
LEMMA SendLinkKeeps == ASSUME TkInv, NEW i \in Ids, SendLink(i) PROVE TkInv'
<1>1. TkRecords /\ Stage(i) /\ Lineage(i) /\ {"erase", "giveBack"} \subseteq Busy
  BY DEF TkInv, Busy
<1>2. ~InBrowser(i) /\ handler[i].pc = "send" /\ i \notin app.got /\ ~items[i].own
  BY <1>1 DEF SendLink, At, Stage, Undecided, Lineage
<1>3. Ids' = Ids /\ UNCHANGED items /\ ~InBrowser(i)'
  BY <1>2 DEF SendLink, Ids, InBrowser
<1>4. ASSUME NEW pc \in {"erase", "giveBack"}, NEW r \in BOOLEAN,
             handler' \in Seq(HandlerType), Len(handler') = Len(handler),
             handler'[i].pc = pc, handler'[i].replyLost = r, \A j \in Ids \ {i} : handler'[j] = handler[j],
             app' \in [up : BOOLEAN, config : Settings, got : SUBSET Ids],
             app'.got = IF pc = "erase" \/ r THEN app.got \cup {i} ELSE app.got
      PROVE TkInv'
  <2>1. TkRecords'
    BY <1>1, <1>3, <1>4 DEF TkRecords, SendLink
  <2>2. Stage(i)'
    BY <1>2, <1>3, <1>4 DEF Stage, Undecided
  <2>3. Lineage(i)'
    BY <1>2, <1>3, <1>4, <2>1, StepLineage
  <2> QED
    BY <1>1, <1>2, <1>3, <1>4, <2>1, <2>2, <2>3, TkOneKeeps
<1>5. app \in [up : BOOLEAN, config : Settings, got : SUBSET Ids]
  BY <1>1 DEF TkRecords
<1>6. [app EXCEPT !.got = @ \cup {i}] \in [up : BOOLEAN, config : Settings, got : SUBSET Ids]
  BY <1>5
<1>7. [app EXCEPT !.got = @ \cup {i}].got = app.got \cup {i}
  BY <1>5
<1>8. CASE app' = [app EXCEPT !.got = @ \cup {i}] /\ Goes(i, "erase")
  <2>1. /\ handler' \in Seq(HandlerType) /\ Len(handler') = Len(handler) /\ handler'[i].pc = "erase"
        /\ handler'[i].replyLost = handler[i].replyLost /\ \A j \in Ids \ {i} : handler'[j] = handler[j]
    BY <1>1, <1>8, GoesTyped
  <2>2. handler'[i] \in HandlerType
    BY <1>1, <2>1 DEF TkRecords, Ids
  <2>3. handler'[i].replyLost \in BOOLEAN
    BY <2>2 DEF HandlerType
  <2> QED
    BY <1>4, <1>6, <1>7, <1>8, <2>1, <2>3
<1>9. i \in 1 .. Len(handler) /\ handler[i] \in HandlerType
  BY <1>1 DEF TkRecords, Ids
<1>10. CASE Goes(i, "giveBack") /\ UNCHANGED app
  <2>1. /\ handler' \in Seq(HandlerType) /\ Len(handler') = Len(handler) /\ handler'[i].pc = "giveBack"
        /\ handler'[i].replyLost = handler[i].replyLost /\ \A j \in Ids \ {i} : handler'[j] = handler[j]
    BY <1>1, <1>10, GoesTyped
  <2>2. TkRecords'
    BY <1>1, <1>3, <1>10, <2>1 DEF TkRecords, SendLink
  <2>3. Stage(i)'
    BY <1>2, <1>3, <1>10, <2>1 DEF Stage, Undecided
  <2>4. Lineage(i)'
    BY <1>2, <1>3, <1>10, <2>1, <2>2, StepLineage
  <2> QED
    BY <1>1, <1>2, <1>3, <1>10, <2>1, <2>2, <2>3, <2>4, TkOneKeeps
<1>11. CASE /\ app' = [app EXCEPT !.got = @ \cup {i}]
            /\ handler' = [handler EXCEPT ![i].pc = "giveBack", ![i].replyLost = TRUE]
  <2> DEFINE h == [handler[i] EXCEPT !.pc = "giveBack", !.replyLost = TRUE]
  <2>1. handler' = [handler EXCEPT ![i] = h]
    BY <1>1, <1>9, <1>11 DEF TkRecords, Ids
  <2>2. h.pc = "giveBack" /\ h.replyLost = TRUE /\ h \in HandlerType
    BY <1>1, <1>9 DEF HandlerType
  <2> HIDE DEF h
  <2>3. /\ handler' \in Seq(HandlerType) /\ Len(handler') = Len(handler) /\ handler'[i] = h
        /\ \A j \in Ids \ {i} : handler'[j] = handler[j]
    BY <1>1, <1>9, <2>1, <2>2 DEF TkRecords, Ids
  <2> QED
    BY <1>4, <1>6, <1>7, <1>11, <2>2, <2>3
<1> QED
  BY <1>8, <1>10, <1>11 DEF SendLink

LEMMA EraseKeeps == ASSUME TkInv, NEW i \in Ids, Erase(i) PROVE TkInv'
<1>1. TkRecords /\ Stage(i) /\ Lineage(i)
  BY DEF TkInv
<1>2. i \in app.got /\ handler[i].pc = "erase" /\ ~items[i].own
  BY <1>1 DEF Erase, At, Stage, Lineage
<1>3. /\ handler' \in Seq(HandlerType) /\ Len(handler') = Len(handler) /\ handler'[i].pc = "done"
      /\ \A j \in Ids \ {i} : handler'[j] = handler[j]
  BY <1>1, GoesTyped DEF Erase
<1>4. items' = [items EXCEPT ![i].state = "erased"]
  BY DEF Erase
<1>5. /\ items' \in Seq(ItemType) /\ Len(items') = Len(items) /\ Ids' = Ids
      /\ items'[i].own = items[i].own /\ items'[i].origin = items[i].origin /\ items'[i].state = "erased"
      /\ \A j \in Ids \ {i} : items'[j] = items[j]
  BY <1>1, <1>4, StateTyped
<1>6. TkRecords'
  BY <1>1, <1>3, <1>5 DEF TkRecords, Erase
<1>7. Stage(i)'
  BY <1>2, <1>3, <1>5 DEF Stage, InBrowser, Undecided
<1>8. Lineage(i)'
  BY <1>2, <1>3, <1>5, <1>6, StepLineage DEF Erase
<1> QED
  BY <1>2, <1>3, <1>5, <1>6, <1>7, <1>8, TkOneKeeps DEF Erase

LEMMA GiveBackKeeps == ASSUME TkInv, NEW i \in Ids, GiveBack(i) PROVE TkInv'
<1>1. TkRecords /\ Stage(i) /\ Lineage(i) /\ "again" \in Busy
  BY DEF TkInv, Busy
<1>2. handler[i].pc = "giveBack" /\ ~items[i].own /\ (i \in app.got => handler[i].replyLost)
  BY <1>1 DEF GiveBack, At, Stage, Lineage
<1>3. /\ handler' \in Seq(HandlerType) /\ Len(handler') = Len(handler) /\ handler'[i].pc = "again"
      /\ handler'[i].replyLost = handler[i].replyLost /\ \A j \in Ids \ {i} : handler'[j] = handler[j]
  BY <1>1, GoesTyped DEF GiveBack
<1>4. items' = [items EXCEPT ![i].state = "erased"]
  BY DEF GiveBack
<1>5. /\ items' \in Seq(ItemType) /\ Len(items') = Len(items) /\ Ids' = Ids
      /\ items'[i].own = items[i].own /\ items'[i].origin = items[i].origin /\ items'[i].state = "erased"
      /\ \A j \in Ids \ {i} : items'[j] = items[j]
  BY <1>1, <1>4, StateTyped
<1>6. items[i].url \in Urls
  <2>1. items[i] \in ItemType
    BY <1>1 DEF TkRecords, Ids
  <2> QED
    BY <2>1 DEF ItemType
<1>7. TkRecords'
  BY <1>1, <1>3, <1>5, <1>6 DEF TkRecords, GiveBack
<1>8. Stage(i)'
  BY <1>2, <1>3, <1>5 DEF Stage, InBrowser, Undecided, GiveBack
<1>9. Lineage(i)'
  BY <1>2, <1>3, <1>5, <1>7, StepLineage DEF GiveBack
<1> QED
  BY <1>1, <1>2, <1>3, <1>5, <1>7, <1>8, <1>9, TkOneKeeps DEF GiveBack

\* A new download is the browser's, and its own or that of the one handed back.
LEMMA NewKeeps ==
  ASSUME TkInv, TkRecords', app' = app, NEW n, n = Len(items) + 1, Ids' = Ids \cup {n},
         items'[n].state = "progress", handler'[n].pc \in {"asking", "decide"},
         \A j \in Ids : /\ items'[j] = items[j] /\ handler'[j].replyLost = handler[j].replyLost
                       /\ handler'[j].at = handler[j].at,
         \/ /\ ~items'[n].own /\ items'[n].origin = n
            /\ \A j \in Ids : handler'[j].pc = handler[j].pc
         \/ \E o \in Ids :
              /\ items'[n].own /\ items'[n].origin = o /\ handler[o].pc = "again" /\ handler'[o].pc = "done"
              /\ \A j \in Ids \ {o} : handler'[j].pc = handler[j].pc
  PROVE  TkInv'
<1>1. n \notin Ids /\ n \in Nat /\ \A j \in Ids : j \in Nat /\ j < n
  BY DEF TkInv, TkRecords, Ids
<1>2. InBrowser(n)' /\ n \notin app'.got
  BY <1>1 DEF InBrowser, TkInv, TkRecords
<1>3. \A j \in Ids : InBrowser(j)' <=> InBrowser(j)
  BY DEF InBrowser
<1>4. \A j \in Ids : handler'[j].pc = handler[j].pc \/ (handler[j].pc = "again" /\ handler'[j].pc = "done")
  OBVIOUS
<1>5. ASSUME NEW j \in Ids PROVE Stage(j)' /\ Lineage(j)'
  <2>1. Stage(j) /\ Lineage(j)
    BY DEF TkInv
  <2>2. Stage(j)'
    BY <1>3, <1>4, <2>1 DEF Stage, Undecided
  <2>3. CASE ~items[j].own
    BY <2>1, <2>2, <2>3 DEF Lineage
  <2>4. CASE items[j].own
    <3> DEFINE o == items[j].origin
    <3>1. /\ handler[j].pc \in {"asking", "answered", "decide", "done", "cut"} /\ InBrowser(j)
          /\ o \in Ids /\ o < j /\ ~items[o].own /\ handler[o].pc = "done"
          /\ o \in app.got => handler[o].replyLost
      BY <2>1, <2>4 DEF Lineage
    <3>2. handler'[o].pc = "done" /\ handler'[j].pc = handler[j].pc
      BY <1>4, <3>1
    <3> QED
      BY <1>3, <2>2, <2>4, <3>1, <3>2 DEF Lineage
  <2> QED
    BY <2>2, <2>3, <2>4
<1>6. Stage(n)'
  BY <1>2 DEF Stage
<1>7. Lineage(n)'
  <2>1. CASE ~items'[n].own /\ items'[n].origin = n
    BY <2>1 DEF Lineage
  <2>2. ASSUME NEW o \in Ids, items'[n].own, items'[n].origin = o, handler[o].pc = "again",
               handler'[o].pc = "done"
        PROVE  Lineage(n)'
    <3>1. Stage(o) /\ Lineage(o)
      BY DEF TkInv
    <3>2. ~items[o].own /\ (o \in app.got => handler[o].replyLost)
      BY <2>2, <3>1 DEF Stage, Lineage
    <3> QED
      BY <1>1, <1>2, <2>2, <3>2 DEF Lineage
  <2> QED
    BY <2>1, <2>2
<1>8. Conserved'
  <2> SUFFICES ASSUME NEW i \in Ids', ~InBrowser(i)'
               PROVE  \/ i \in app'.got \/ handler'[i].pc \in Busy \/ Lost(i)'
                      \/ \E j \in Ids' : items'[j].own /\ j > i /\ items'[j].origin = items'[i].origin
    BY DEF Conserved
  <2>1. i \in Ids /\ ~InBrowser(i)
    BY <1>2, <1>3
  <2>2. Lineage(i) /\ \/ i \in app.got \/ handler[i].pc \in Busy \/ Lost(i)
                      \/ \E j \in Ids : items[j].own /\ j > i /\ items[j].origin = items[i].origin
    BY <2>1 DEF TkInv, Conserved
  <2>3. CASE handler'[i].pc = handler[i].pc
    BY <2>1, <2>2, <2>3 DEF Lost
  <2>4. CASE handler'[i].pc # handler[i].pc
    <3>1. items'[n].own /\ items'[n].origin = i /\ handler[i].pc = "again"
      BY <2>1, <2>4
    <3>2. items[i].origin = i
      BY <2>2, <3>1 DEF Lineage
    <3> QED
      BY <1>1, <2>1, <3>1, <3>2
  <2> QED
    BY <2>3, <2>4
<1> QED
  BY <1>5, <1>6, <1>7, <1>8 DEF TkInv

LEMMA DownloadKeeps ==
  ASSUME TakeoverAssumption, TkInv, NEW u \in Urls, NEW private \in BOOLEAN, Download(u, private)
  PROVE  TkInv'
<1> DEFINE n == Len(items) + 1
           it == Item(u, FALSE, private, Len(items) + 1)
           h == NewHandler
<1>1. TkRecords /\ Len(items) < MaxItems /\ items' = Append(items, it) /\ handler' = Append(handler, h)
  BY DEF TkInv, Download, OnCreated
<1>2. h \in HandlerType /\ h.pc \in {"asking", "decide"}
  BY <1>1, NewTyped DEF NewHandler
<1>3. Len(items) \in Nat
  BY <1>1 DEF TkRecords
<1>4. it \in ItemType /\ it.state = "progress" /\ ~it.own /\ it.origin = n
  BY <1>3 DEF ItemType, Item
<1> HIDE DEF it, h
<1>5. /\ items' \in Seq(ItemType) /\ Len(items') = n /\ items'[n] = it /\ Ids' = Ids \cup {n}
      /\ \A j \in Ids : items'[j] = items[j]
  BY <1>1, <1>3, <1>4 DEF TkRecords, Ids
<1>6. /\ handler' \in Seq(HandlerType) /\ Len(handler') = n /\ handler'[n] = h
      /\ \A j \in Ids : handler'[j] = handler[j]
  BY <1>1, <1>2, <1>3 DEF TkRecords, Ids
<1>7. TkRecords'
  BY <1>1, <1>3, <1>5, <1>6 DEF TkRecords, Download, TakeoverAssumption
<1> QED
  BY <1>2, <1>4, <1>5, <1>6, <1>7, NewKeeps DEF Download

LEMMA AgainKeeps ==
  ASSUME TakeoverAssumption, TkInv, NEW i \in Ids, DownloadAgain(i)
  PROVE  TkInv'
<1>1. TkRecords /\ Stage(i) /\ Lineage(i) /\ "refused" \in Cut
  BY DEF TkInv, Cut
<1>2. handler[i].pc = "again" /\ ~items[i].own /\ items[i].origin = i /\ ~InBrowser(i)
      /\ (i \in app.got => handler[i].replyLost)
  BY <1>1 DEF DownloadAgain, At, Stage, Lineage
<1>3. CASE Goes(i, "refused") /\ UNCHANGED items
  <2>1. /\ handler' \in Seq(HandlerType) /\ Len(handler') = Len(handler) /\ handler'[i].pc = "refused"
        /\ \A j \in Ids \ {i} : handler'[j] = handler[j]
    BY <1>1, <1>3, GoesTyped
  <2>2. TkRecords' /\ Ids' = Ids
    BY <1>1, <1>3, <2>1 DEF TkRecords, DownloadAgain, Ids
  <2>3. Stage(i)'
    BY <1>2, <1>3, <2>1 DEF Stage, InBrowser, Undecided, DownloadAgain
  <2>4. Lineage(i)'
    BY <1>2, <1>3, <2>1, <2>2, StepLineage DEF DownloadAgain
  <2> QED
    BY <1>1, <1>2, <1>3, <2>1, <2>2, <2>3, <2>4, TkOneKeeps DEF DownloadAgain
<1>4. ASSUME Len(items) < MaxItems,
             items' = Append(items, Item(items[i].url, TRUE, FALSE, items[i].origin)),
             handler' = Append([handler EXCEPT ![i].pc = "done"],
                               NewHandler)
      PROVE TkInv'
  <2> DEFINE n == Len(items) + 1
             it == Item(items[i].url, TRUE, FALSE, items[i].origin)
             h == NewHandler
             g == [handler[i] EXCEPT !.pc = "done"]
  <2>1. h \in HandlerType /\ h.pc \in {"asking", "decide"}
    BY <1>1, NewTyped DEF NewHandler
  <2>2. Len(items) \in Nat /\ i \in 1 .. Len(items) /\ items[i] \in ItemType /\ handler[i] \in HandlerType
    BY <1>1 DEF TkRecords, Ids
  <2>3. it \in ItemType /\ it.state = "progress" /\ it.own /\ it.origin = i
    BY <1>2, <2>2 DEF ItemType, Item
  <2>4. g \in HandlerType /\ g.pc = "done" /\ g.replyLost = handler[i].replyLost /\ g.at = handler[i].at
    BY <2>2 DEF HandlerType
  <2>5. items' = Append(items, it) /\ handler' = Append([handler EXCEPT ![i] = g], h)
    BY <1>4
  <2> HIDE DEF it, h, g
  <2>6. /\ items' \in Seq(ItemType) /\ Len(items') = n /\ items'[n] = it /\ Ids' = Ids \cup {n}
        /\ \A j \in Ids : items'[j] = items[j]
    BY <1>1, <2>2, <2>3, <2>5 DEF TkRecords, Ids
  <2>7. [handler EXCEPT ![i] = g] \in Seq(HandlerType) /\ Len([handler EXCEPT ![i] = g]) = Len(handler)
    BY <1>1, <2>2, <2>4 DEF TkRecords
  <2>8. /\ handler' \in Seq(HandlerType) /\ Len(handler') = n /\ handler'[n] = h
        /\ handler'[i] = g /\ \A j \in Ids \ {i} : handler'[j] = handler[j]
    BY <1>1, <2>1, <2>2, <2>4, <2>5, <2>7 DEF TkRecords, Ids
  <2>9. TkRecords'
    <3>1. n <= MaxItems
      BY <1>4, <2>2 DEF TakeoverAssumption
    <3>2. app' \in [up : BOOLEAN, config : Settings, got : SUBSET Ids']
      BY <1>1, <2>6 DEF TkRecords, DownloadAgain
    <3> QED
      BY <1>1, <2>6, <2>8, <3>1, <3>2 DEF TkRecords, DownloadAgain
  <2>10. \A j \in Ids : /\ items'[j] = items[j] /\ handler'[j].replyLost = handler[j].replyLost
                       /\ handler'[j].at = handler[j].at
    BY <2>4, <2>6, <2>8
  <2> QED
    BY <1>2, <2>1, <2>3, <2>4, <2>6, <2>8, <2>9, <2>10, NewKeeps DEF DownloadAgain
<1> QED
  BY <1>3, <1>4 DEF DownloadAgain

\* With the worker every handler at work is cut off; none of them had given
\* its download back.
LEMMA KillKeeps == ASSUME TkInv, Kill PROVE TkInv'
<1>1. TkRecords /\ Ids' = Ids /\ app' = app /\ items' = items
  BY DEF TkInv, Kill, Ids
<1>2. \A i \in Ids : handler[i] \in HandlerType
  BY <1>1 DEF TkRecords, Ids
<1>3. \A i \in Ids : /\ handler'[i].pc = IF handler[i].pc \in Busy THEN "cut" ELSE handler[i].pc
                     /\ handler'[i].at = IF handler[i].pc \in Busy THEN handler[i].pc ELSE handler[i].at
                     /\ handler'[i].replyLost = handler[i].replyLost /\ handler'[i] \in HandlerType
  <2> SUFFICES ASSUME NEW i \in Ids
               PROVE  /\ handler'[i].pc = IF handler[i].pc \in Busy THEN "cut" ELSE handler[i].pc
                      /\ handler'[i].at = IF handler[i].pc \in Busy THEN handler[i].pc ELSE handler[i].at
                      /\ handler'[i].replyLost = handler[i].replyLost /\ handler'[i] \in HandlerType
    OBVIOUS
  <2> DEFINE h == CutOff(handler[i])
  <2>1. handler'[i] = IF handler[i].pc \in Busy THEN h ELSE handler[i]
    BY DEF Kill
  <2>2. /\ h.pc = "cut" /\ h.at = handler[i].pc /\ h.replyLost = handler[i].replyLost
        /\ handler[i].pc \in Busy => h \in HandlerType
    <3>1. None \in Settings \cup {None} /\ Default \in Settings
      BY DEF Settings, Default
    <3>2. Forgot(handler[i]) \in HandlerType
      BY <1>2, <3>1 DEF Forgot, HandlerType
    <3>3. Forgot(handler[i]).replyLost = handler[i].replyLost
      BY <1>2 DEF Forgot, HandlerType
    <3> QED
      BY <1>2, <3>2, <3>3 DEF CutOff, HandlerType, Cut
  <2> HIDE DEF h
  <2> QED
    BY <1>2, <2>1, <2>2
<1>4. handler' \in Seq(HandlerType) /\ Len(handler') = Len(handler)
  <2>1. Ids = 1 .. Len(handler) /\ Len(handler) \in Nat
    BY <1>1 DEF TkRecords, Ids
  <2>2. handler' = [i \in Ids |-> handler'[i]]
    BY DEF Kill
  <2>3. handler' \in [1 .. Len(handler) -> HandlerType]
    BY <1>3, <2>1, <2>2
  <2> QED
    BY <2>1, <2>3
<1>5. TkRecords'
  BY <1>1, <1>4 DEF TkRecords, Kill, Cached, Default, None, Settings
<1>6. ASSUME NEW i \in Ids PROVE Stage(i)' /\ Lineage(i)'
  <2>1. Stage(i) /\ Lineage(i) /\ (InBrowser(i)' <=> InBrowser(i))
    BY <1>1 DEF TkInv, InBrowser
  <2>2. handler'[i].pc = handler[i].pc \/ handler'[i].pc = "cut"
    BY <1>3
  <2>3. Stage(i)'
    BY <1>1, <1>3, <2>1, <2>2 DEF Stage, Undecided, Busy
  <2>4. CASE ~items[i].own
    BY <1>1, <2>1, <2>3, <2>4 DEF Lineage
  <2>5. CASE items[i].own
    <3> DEFINE o == items[i].origin
    <3>1. /\ handler[i].pc \in {"asking", "answered", "decide", "done", "cut"} /\ InBrowser(i)
          /\ o \in Ids /\ o < i /\ ~items[o].own /\ handler[o].pc = "done"
          /\ o \in app.got => handler[o].replyLost
      BY <2>1, <2>5 DEF Lineage
    <3>2. handler'[o].pc = "done" /\ handler'[o].replyLost = handler[o].replyLost
      BY <1>3, <3>1 DEF Busy
    <3> QED
      BY <1>1, <2>1, <2>2, <2>3, <2>5, <3>1, <3>2 DEF Lineage
  <2> QED
    BY <2>3, <2>4, <2>5
<1>7. Conserved'
  <2> SUFFICES ASSUME NEW i \in Ids, ~InBrowser(i)
               PROVE  \/ i \in app.got \/ Lost(i)'
                      \/ \E j \in Ids : items[j].own /\ j > i /\ items[j].origin = items[i].origin
    BY <1>1 DEF Conserved, InBrowser
  <2>1. \/ i \in app.got \/ handler[i].pc \in Busy \/ Lost(i)
        \/ \E j \in Ids : items[j].own /\ j > i /\ items[j].origin = items[i].origin
    BY DEF TkInv, Conserved
  <2>2. CASE Lost(i)
    BY <1>3, <2>2 DEF Lost, Busy
  <2>3. CASE handler[i].pc \in Busy
    <3>1. handler[i].pc \in {"send", "giveBack", "again"} \/ i \in app.got
      BY <2>3 DEF TkInv, Stage, Busy, Undecided
    <3> QED
      BY <1>3, <2>3, <3>1 DEF Lost
  <2> QED
    BY <2>1, <2>2, <2>3
<1> QED
  BY <1>1, <1>5, <1>6, <1>7 DEF TkInv

LEMMA TkStepKeeps == ASSUME TakeoverAssumption, TkInv, [TkNext]_tkVars PROVE TkInv'
<1>1. ASSUME NEW i \in Ids, HandlerStep(i) PROVE TkInv'
  BY <1>1, HostAnswersKeeps, ConfigLoadedKeeps, DecideKeeps, CancelKeeps, SendLinkKeeps, EraseKeeps,
     GiveBackKeeps, AgainKeeps DEF HandlerStep
<1> QED
  BY <1>1, DownloadKeeps, FinishesKeeps, KillKeeps, TkOthersTyped DEF TkNext

LEMMA TkTyped == ASSUME TkInv PROVE TkTypeOK
<1>1. TkRecords /\ DOMAIN items = DOMAIN handler
      /\ \A i \in Ids : items[i] \in ItemType /\ handler[i] \in HandlerType
  BY DEF TkInv, TkRecords, Ids
<1>2. \A i \in Ids : items[i].origin \in Ids
  BY <1>1 DEF TkInv, Lineage
<1>3. ASSUME NEW i \in Ids
      PROVE  /\ items[i].url \in Urls /\ items[i].origin \in Ids
             /\ items[i].state \in {"progress", "complete", "cancelled", "erased"}
             /\ handler[i].pc \in Busy \cup Cut \cup {"done"} /\ handler[i].at \in Busy \cup {"done"}
  BY <1>1, <1>2 DEF ItemType, HandlerType
<1> QED
  BY <1>1, <1>3 DEF TkTypeOK, TkRecords

\* The records the handlers of background.js work on keep their types, and the
\* application only has downloads that the browser created.
THEOREM TakeoverTypeOK == ASSUME TakeoverAssumption PROVE TkSpec => []TkTypeOK
<1>1. TkInit => TkInv
  BY TkInitHolds
<1>2. TkInv /\ [TkNext]_tkVars => TkInv'
  BY TkStepKeeps
<1>3. TkInv => TkTypeOK
  BY TkTyped
<1> QED
  BY <1>1, <1>2, <1>3, PTL DEF TkSpec

LEMMA TkConserved == ASSUME TkInv PROVE Conserved /\ TakenOnce /\ OwnStays
<1> SUFFICES TakenOnce /\ OwnStays
  BY DEF TkInv
<1>1. \A i \in Ids : Stage(i) /\ Lineage(i)
  BY DEF TkInv
<1>2. OwnStays
  BY <1>1 DEF OwnStays, Lineage
<1>3. ASSUME NEW i \in app.got, ~handler[i].replyLost, NEW j \in Ids, items[j].origin = items[i].origin
      PROVE  ~InBrowser(j)
  <2>1. i \in Ids /\ ~InBrowser(i)
    BY <1>1 DEF TkInv, TkRecords, Stage
  <2>2. ~items[i].own /\ items[i].origin = i
    BY <1>1, <2>1 DEF Lineage
  <2>3. ~items[j].own
    BY <1>1, <1>3, <2>2 DEF Lineage
  <2>4. j = i
    BY <1>1, <1>3, <2>2, <2>3 DEF Lineage
  <2> QED
    BY <2>1, <2>4
<1> QED
  BY <1>2, <1>3 DEF TakenOnce

\* However the onCreated handlers of background.js run into each other, answers
\* overtake each other, settings change and the worker ends: what the extension
\* took from the browser is with the application, its handler or the browser
\* again, unless the worker was ended in one of the three steps in which only the
\* handler knows of it, or the browser refused it back; what the application took
\* the browser does not download too, unless the application's reply was lost, and
\* what was handed back stays with the browser.
THEOREM TakenIsConserved ==
  ASSUME TakeoverAssumption PROVE TkSpec => [](Conserved /\ TakenOnce /\ OwnStays)
<1>1. TkInit => TkInv
  BY TkInitHolds
<1>2. TkInv /\ [TkNext]_tkVars => TkInv'
  BY TkStepKeeps
<1>3. TkInv => Conserved /\ TakenOnce /\ OwnStays
  BY TkConserved
<1> QED
  BY <1>1, <1>2, <1>3, PTL DEF TkSpec
=============================================================================
