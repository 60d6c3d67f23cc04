------------------------------- MODULE Takeover -------------------------------
(***************************************************************************)
(* The browser extension's background script taking over downloads         *)
(* (extension/src/background.js).  Every download the browser creates runs *)
(* an asynchronous handler of its own: read the settings, decide, cancel   *)
(* the browser's download, send the link to the application, erase the     *)
(* browser's entry; when the application does not answer the download is   *)
(* handed back.  The script is a service worker the browser may end        *)
(* between any two steps; only storage.local outlives it.                  *)
(*                                                                         *)
(* Abstracted: an address is a model value; the site, extension and size   *)
(* exceptions of the settings are one set of addresses, skip.              *)
(*                                                                         *)
(* Bounds: MaxUser downloads of the user, MaxItems in all, MaxChanges      *)
(* changes of the application's settings, MaxPauses clicks on the pop-up's *)
(* switch, MaxKills ends of the worker, MaxOutages ends of the application.*)
(***************************************************************************)
EXTENDS Naturals, FiniteSets, Sequences

CONSTANTS Urls, MaxUser, MaxItems, MaxChanges, MaxPauses, MaxKills, MaxOutages

TakeoverAssumption ==
  /\ Urls # {} /\ MaxUser \in Nat \ {0} /\ MaxItems \in Nat /\ MaxItems >= 2 * MaxUser
  /\ {MaxChanges, MaxPauses, MaxKills, MaxOutages} \subseteq Nat

VARIABLES
  items,       \* the browser's downloads, oldest first
  handler,     \* the handler of each of them
  conf,        \* config in the worker's memory; fresh: read less than 60 s ago
  passThrough, \* addresses handed back less than 60 s ago
  stored,      \* storage.local: the last config, the pause switch
  startup,     \* the loadConfig call of a starting worker
  app,         \* the application: reachable, its settings, the links it took
  left         \* what remains of the bounds

tkVars == <<items, handler, conf, passThrough, stored, startup, app, left>>

Settings == [intercept : BOOLEAN, skip : SUBSET Urls]
None == [known |-> FALSE]
Default == [intercept |-> TRUE, skip |-> {}]
Cached(c, fresh) == [intercept |-> c.intercept, skip |-> c.skip, fresh |-> fresh]

\* origin: the user's download it stands for (its own number, or that of the
\* download handed back).  own: started by the extension (byExtensionId).
Item(url, own, private, origin) ==
  [url |-> url, own |-> own, private |-> private, origin |-> origin, state |-> "progress"]

\* One run of the onCreated handler: its step, the host's answer to its config
\* request, what loadConfig and localPrefs told it, whether the reply to an
\* accepted link was lost, and, when the worker was ended, at which step.
NewHandler ==
  [pc |-> IF conf.fresh THEN "decide" ELSE "asking", answer |-> None,
   cfg |-> [intercept |-> conf.intercept, skip |-> conf.skip],
   paused |-> stored.paused, replyLost |-> FALSE, at |-> "done"]

Ids == DOMAIN items
Busy == {"asking", "answered", "decide", "cancel", "send", "erase", "giveBack", "again"}
At(i, pc) == i \in Ids /\ handler[i].pc = pc
Goes(i, pc) == handler' = [handler EXCEPT ![i].pc = pc]
Cut == {"cut", "refused"}

TkInit ==
  /\ items = <<>> /\ handler = <<>>
  /\ conf = Cached(Default, FALSE) /\ passThrough = {}
  /\ stored = [config |-> None, paused |-> FALSE]
  /\ startup = [pc |-> "asking", answer |-> None]
  /\ app = [up |-> TRUE, config |-> Default, got |-> {}]
  /\ left = [changes |-> MaxChanges, pauses |-> MaxPauses, kills |-> MaxKills, outages |-> MaxOutages]

-----------------------------------------------------------------------------
(* The browser, the user and the application. *)

\* onCreated fires: the pause switch is read, and the cached config is good
\* enough, or the host is asked.
OnCreated(item) ==
  /\ Len(items) < MaxItems
  /\ items' = Append(items, item)
  /\ handler' = Append(handler, NewHandler)

Download(url, private) ==
  /\ Cardinality({i \in Ids : ~items[i].own}) < MaxUser
  /\ OnCreated(Item(url, FALSE, private, Len(items) + 1))
  /\ UNCHANGED <<conf, passThrough, stored, startup, app, left>>

BrowserFinishes(i) ==
  /\ i \in Ids /\ items[i].state = "progress"
  /\ items' = [items EXCEPT ![i].state = "complete"]
  /\ UNCHANGED <<handler, conf, passThrough, stored, startup, app, left>>

\* The settings are changed in the application.
ChangeSettings(c) ==
  /\ left.changes > 0 /\ c # app.config
  /\ app' = [app EXCEPT !.config = c] /\ left' = [left EXCEPT !.changes = @ - 1]
  /\ UNCHANGED <<items, handler, conf, passThrough, stored, startup>>

AppComesOrGoes ==
  /\ ~app.up \/ left.outages > 0
  /\ app' = [app EXCEPT !.up = ~@]
  /\ left' = IF app.up THEN [left EXCEPT !.outages = @ - 1] ELSE left
  /\ UNCHANGED <<items, handler, conf, passThrough, stored, startup>>

\* The pop-up's switch.
SetInterceptPaused ==
  /\ left.pauses > 0
  /\ stored' = [stored EXCEPT !.paused = ~@] /\ left' = [left EXCEPT !.pauses = @ - 1]
  /\ UNCHANGED <<items, handler, conf, passThrough, startup, app>>

\* What the handler was told is not used any more.
Forgot(h) == [h EXCEPT !.answer = None, !.cfg = Default, !.paused = FALSE]
CutOff(h) == [Forgot(h) EXCEPT !.pc = "cut", !.at = h.pc]

\* The browser ends the worker: its memory and every running handler are
\* gone; the next event starts it again, and its start reads the config.
Kill ==
  /\ left.kills > 0 /\ left' = [left EXCEPT !.kills = @ - 1]
  /\ handler' = [i \in Ids |-> IF handler[i].pc \in Busy THEN CutOff(handler[i]) ELSE handler[i]]
  /\ conf' = Cached(Default, FALSE) /\ passThrough' = {}
  /\ startup' = [pc |-> "asking", answer |-> None]
  /\ UNCHANGED <<items, stored, app>>

-----------------------------------------------------------------------------
(* loadConfig, called by a handler and by a starting worker *)

\* The host answers each request from a process of its own, so two answers
\* may arrive in either order.
Answer == IF app.up THEN app.config ELSE None

\* The config in memory after an answer: the application's, else the stored
\* copy, else the default.
LoadedConfig(answer) ==
  IF answer # None THEN answer ELSE IF stored.config # None THEN stored.config ELSE Default

\* loadConfig ends: the config is kept in memory, an answered one stored.
Keep(answer) ==
  /\ conf' = Cached(LoadedConfig(answer), TRUE)
  /\ stored' = IF answer # None THEN [stored EXCEPT !.config = answer] ELSE stored

HostAnswers(i) ==
  /\ At(i, "asking")
  /\ handler' = [handler EXCEPT ![i].pc = "answered", ![i].answer = Answer]
  /\ UNCHANGED <<items, conf, passThrough, stored, startup, app, left>>

\* Mutated form: without an answer the application is asked again.
ConfigLoadedAgain(i) ==
  /\ At(i, "answered") /\ Keep(handler[i].answer)
  /\ handler' = [handler EXCEPT ![i].pc = IF handler[i].answer = None THEN "asking" ELSE "decide",
                                ![i].cfg = LoadedConfig(handler[i].answer)]
  /\ UNCHANGED <<items, passThrough, startup, app, left>>

\* The handler goes on with the config it was told, whatever comes after.
ConfigLoaded(i) ==
  /\ At(i, "answered") /\ Keep(handler[i].answer)
  /\ handler' = [handler EXCEPT ![i].pc = "decide", ![i].cfg = LoadedConfig(handler[i].answer)]
  /\ UNCHANGED <<items, passThrough, startup, app, left>>

StartupAnswered ==
  /\ startup.pc = "asking" /\ startup' = [pc |-> "answered", answer |-> Answer]
  /\ UNCHANGED <<items, handler, conf, passThrough, stored, app, left>>

StartupLoaded ==
  /\ startup.pc = "answered" /\ Keep(startup.answer) /\ startup' = [startup EXCEPT !.pc = "done"]
  /\ UNCHANGED <<items, handler, passThrough, app, left>>

ConfigAges ==
  /\ conf.fresh /\ conf' = [conf EXCEPT !.fresh = FALSE]
  /\ UNCHANGED <<items, handler, passThrough, stored, startup, app, left>>

-----------------------------------------------------------------------------
(* The onCreated handler *)

\* Mutated form: the extension's own downloads are not recognised.
ShouldInterceptOwn(i) ==
  items[i].url \notin passThrough /\ ~items[i].private /\ items[i].url \notin handler[i].cfg.skip

ShouldIntercept(i) ==
  /\ ~items[i].own /\ items[i].url \notin passThrough /\ ~items[i].private
  /\ items[i].url \notin handler[i].cfg.skip

Decided(h, pc) == [Forgot(h) EXCEPT !.pc = pc]

Decide(i) ==
  /\ At(i, "decide")
  /\ handler' = [handler EXCEPT ![i] =
       Decided(@, IF @.cfg.intercept /\ ~@.paused /\ ShouldIntercept(i) THEN "cancel" ELSE "done")]
  /\ UNCHANGED <<items, conf, passThrough, stored, startup, app, left>>

\* Mutated form: a download that is already finished is sent as well.
CancelAnyway(i) ==
  /\ At(i, "cancel") /\ Goes(i, "send")
  /\ items' = IF items[i].state = "progress" THEN [items EXCEPT ![i].state = "cancelled"] ELSE items
  /\ UNCHANGED <<conf, passThrough, stored, startup, app, left>>

\* downloads.cancel; a download that is over by now is left to the browser.
Cancel(i) ==
  /\ At(i, "cancel")
  /\ IF items[i].state = "progress"
     THEN items' = [items EXCEPT ![i].state = "cancelled"] /\ Goes(i, "send")
     ELSE Goes(i, "done") /\ UNCHANGED items
  /\ UNCHANGED <<conf, passThrough, stored, startup, app, left>>

\* sendLink: the application takes the link, does not, or takes it while its
\* reply is lost (the host process ends).
SendLink(i) ==
  /\ At(i, "send")
  /\ \/ /\ app.up /\ app' = [app EXCEPT !.got = @ \cup {i}] /\ Goes(i, "erase")
     \/ /\ Goes(i, "giveBack") /\ UNCHANGED app
     \/ /\ app.up /\ app' = [app EXCEPT !.got = @ \cup {i}]
        /\ handler' = [handler EXCEPT ![i].pc = "giveBack", ![i].replyLost = TRUE]
  /\ UNCHANGED <<items, conf, passThrough, stored, startup, left>>

Erase(i) ==
  /\ At(i, "erase") /\ Goes(i, "done")
  /\ items' = [items EXCEPT ![i].state = "erased"]
  /\ UNCHANGED <<conf, passThrough, stored, startup, app, left>>

\* Mutated form: the entry is erased and that is all.
GiveUp(i) ==
  /\ At(i, "giveBack") /\ Goes(i, "done")
  /\ items' = [items EXCEPT ![i].state = "erased"]
  /\ UNCHANGED <<conf, passThrough, stored, startup, app, left>>

\* The catch branch: remember the address for a minute, erase the entry ...
GiveBack(i) ==
  /\ At(i, "giveBack") /\ Goes(i, "again")
  /\ passThrough' = passThrough \cup {items[i].url}
  /\ items' = [items EXCEPT ![i].state = "erased"]
  /\ UNCHANGED <<conf, stored, startup, app, left>>

\* ... and let the browser download it; the browser may refuse.
DownloadAgain(i) ==
  /\ At(i, "again")
  /\ \/ /\ Len(items) < MaxItems
        /\ items' = Append(items, Item(items[i].url, TRUE, FALSE, items[i].origin))
        /\ handler' = Append([handler EXCEPT ![i].pc = "done"],
                             NewHandler)
     \/ Goes(i, "refused") /\ UNCHANGED items
  /\ UNCHANGED <<conf, passThrough, stored, startup, app, left>>

MinutePasses(u) ==
  /\ u \in passThrough /\ passThrough' = passThrough \ {u}
  /\ UNCHANGED <<items, handler, conf, stored, startup, app, left>>

-----------------------------------------------------------------------------
HandlerStep(i) ==
  \/ HostAnswers(i) \/ ConfigLoaded(i) \/ Decide(i) \/ Cancel(i)
  \/ SendLink(i) \/ Erase(i) \/ GiveBack(i) \/ DownloadAgain(i)

TkNext ==
  \/ \E u \in Urls, private \in BOOLEAN : Download(u, private)
  \/ \E i \in Ids : BrowserFinishes(i) \/ HandlerStep(i)
  \/ \E c \in Settings : ChangeSettings(c)
  \/ \E u \in Urls : MinutePasses(u)
  \/ AppComesOrGoes \/ SetInterceptPaused \/ Kill
  \/ StartupAnswered \/ StartupLoaded \/ ConfigAges

\* Promises settle and timers fire; nobody has to answer well.
TkFairness == \A i \in 1 .. MaxItems : WF_tkVars(HandlerStep(i)) /\ WF_tkVars(BrowserFinishes(i))

TkSpec == TkInit /\ [][TkNext]_tkVars /\ TkFairness

-----------------------------------------------------------------------------
TkTypeOK ==
  /\ DOMAIN items = DOMAIN handler /\ Len(items) <= MaxItems
  /\ \A i \in Ids :
       /\ items[i].url \in Urls /\ items[i].origin \in Ids
       /\ items[i].state \in {"progress", "complete", "cancelled", "erased"}
       /\ handler[i].pc \in Busy \cup Cut \cup {"done"} /\ handler[i].at \in Busy \cup {"done"}
  /\ conf \in [intercept : BOOLEAN, skip : SUBSET Urls, fresh : BOOLEAN]
  /\ passThrough \subseteq Urls /\ app.got \subseteq Ids

InBrowser(i) == items[i].state \in {"progress", "complete"}

\* Between the cancel and the application's answer, or the browser's, nobody
\* but the handler knows of a download: the worker ended there, or a browser
\* that refuses it, loses it.
Lost(i) ==
  \/ handler[i].pc = "cut" /\ handler[i].at \in {"send", "giveBack", "again"}
  \/ handler[i].pc = "refused"

\* A download taken from the browser is with the application, in the hands of
\* its handler, or with the browser again; those three steps of the handler
\* are the only ones that can lose one, an end of the worker before or after
\* them, an outage and a change of the settings at any step do not.
Conserved ==
  \A i \in Ids : ~InBrowser(i) =>
    \/ i \in app.got \/ handler[i].pc \in Busy \/ Lost(i)
    \/ \E j \in Ids : items[j].own /\ j > i /\ items[j].origin = items[i].origin

\* "Stop the browser first so the file is not downloaded twice": what the
\* application took the browser does not download too, except when the
\* application's reply was lost.
TakenOnce ==
  \A i \in app.got : ~handler[i].replyLost =>
    \A j \in Ids : j >= i /\ items[j].origin = items[i].origin => ~InBrowser(j)

\* It is not downloading in the browser, nor is its handler at work.
Settled(i) == handler[i].pc \in {"done"} \cup Cut /\ items[i].state # "progress"

\* Every download settles, with the application or in the browser, even if
\* the application never answers again.
Settles == \A i \in 1 .. MaxItems : i \in Ids ~> i \in Ids /\ Settled(i)

\* Handing back never goes round in circles: an own download ends in the browser.
OwnStays == \A i \in Ids : items[i].own => InBrowser(i)
===============================================================================
