------------------------------ MODULE BrowserSetup ------------------------------
(***************************************************************************)
(* Setting up browsers (app/src/views/BrowserView.tsx) and the guide of    *)
(* the first launch that offers the same (app/src/app/WelcomeGuide.tsx,    *)
(* with the effects of App.tsx that open it).                              *)
(*                                                                         *)
(* native_host_status, native_host_register and install_extension of the   *)
(* shell (app/src-tauri/src/commands.rs) are plain functions: they run in  *)
(* the order of the calls and are answered in it.  Only a registration can *)
(* fail, and changes nothing then.  install_extension registers the        *)
(* connector, whatever comes of that, and then opens the browser, which    *)
(* may fail too.                                                           *)
(*                                                                         *)
(* Bounds: MaxCalls installations and registrations, MaxEvents changes of  *)
(* other settings and openings of the guide from the menu.                 *)
(***************************************************************************)
EXTENDS Integers, Sequences, FiniteSets

CONSTANTS Browsers, MaxCalls, MaxEvents

BrowserAssumption == Browsers \subseteq Nat \ {0} /\ MaxCalls \in Nat /\ MaxEvents \in Nat

VARIABLES
  registered,   \* the connector is, in the shell
  status,       \* what the screen shows of that
  asks,         \* calls of the screen that are answered with the status, in order
  busy,         \* the browser whose button spins, 0 none
  installs,     \* calls of install_extension: of which loop, 0 none
  loops,        \* running installAll: the browsers still to come, and tried
  said,         \* what the last loop tried when it said it was done
  calls,
  unseen,       \* a browser that did not open left the connector registered: nobody has asked since
  settings, saves, step, opened, events \* the guide: step 0 is closed

bwVars == <<registered, status, asks, busy, installs, loops, said, calls, unseen,
            settings, saves, step, opened, events>>
guide == <<settings, saves, step, opened, events>>

BwInit ==
  /\ registered = FALSE /\ status = "unknown" /\ asks = <<[kind |-> "status", answer |-> "none"]>> /\ busy = 0 /\ installs = {} /\ loops = <<>>
  /\ said = Browsers /\ calls = 0 /\ unseen = FALSE
  /\ settings = "unread" /\ saves = 0 /\ step = 0 /\ opened = "no" /\ events = 0

Text(r) == IF r THEN "ready" ELSE "not registered"

-----------------------------------------------------------------------------
(* The connection *)

\* hostStatus, asked for when the screen opens, and hostRegister.
Ask(kind) == asks' = Append(asks, [kind |-> kind, answer |-> "none"])

\* Register again, whose button spins until it is answered.
Register ==
  /\ (\A k \in DOMAIN asks : asks[k].kind # "register") /\ calls < MaxCalls /\ calls' = calls + 1 /\ Ask("register")
  /\ UNCHANGED <<registered, status, busy, installs, loops, said, unseen, guide>>

\* The shell runs the next command: what it answers is how things stand now.
ShellAnswers(ok) ==
  \E k \in DOMAIN asks :
    /\ asks[k].answer = "none" /\ (\A j \in 1 .. k - 1 : asks[j].answer # "none") /\ (ok \/ asks[k].kind = "register")
    /\ registered' = (registered \/ (asks[k].kind = "register" /\ ok)) /\ unseen' = (unseen /\ ~ok)
    /\ asks' = [asks EXCEPT ![k].answer = IF ok THEN Text(registered') ELSE "error"]
    /\ UNCHANGED <<status, busy, installs, loops, said, calls, guide>>

\* The screen sets what is answered, if not an error.
Answered ==
  /\ asks # <<>> /\ Head(asks).answer # "none" /\ asks' = Tail(asks)
  /\ status' = (IF Head(asks).answer = "error" THEN status ELSE Head(asks).answer)
  /\ UNCHANGED <<registered, busy, installs, loops, said, calls, unseen, guide>>

-----------------------------------------------------------------------------
(* The extension *)

\* The button of a browser; install of one.
Install(b, loop) == busy' = b /\ installs' = installs \cup {[of |-> b, loop |-> loop]}

InstallOne(b) ==
  /\ busy = 0 /\ calls < MaxCalls /\ calls' = calls + 1 /\ Install(b, 0)
  /\ UNCHANGED <<registered, status, asks, loops, said, unseen, guide>>

\* What is left when install of a browser has returned.
Returned(i) ==
  /\ i \in installs /\ installs' = installs \ {i} /\ busy' = 0
  /\ loops' = IF i.loop = 0 THEN loops ELSE [loops EXCEPT ![i.loop].tried = @ \cup {i.of}, ![i.loop].waits = TRUE]
  /\ UNCHANGED <<status, said, calls, guide>>

\* Mutated form: installing in all browsers does not ask for the status.
InstalledQuietly(i, registers, opens) ==
  /\ Returned(i) /\ registered' = (registered \/ registers)
  /\ IF opens /\ i.loop = 0 THEN Ask("status") ELSE UNCHANGED asks
  /\ unseen' = (unseen \/ (registered' # registered /\ ~opens))

\* onChanged asks for the status only when the browser could be opened.
Installed(i, registers, opens) ==
  /\ Returned(i) /\ registered' = (registered \/ registers)
  /\ IF opens THEN Ask("status") ELSE UNCHANGED asks
  /\ unseen' = (unseen \/ (registered' # registered /\ ~opens))

\* installAll begins; its buttons come back between two browsers.
InstallAll ==
  /\ busy = 0 /\ calls < MaxCalls /\ calls' = calls + 1
  /\ loops' = Append(loops, [rest |-> Browsers, tried |-> {}, waits |-> TRUE])
  /\ UNCHANGED <<registered, status, asks, busy, installs, said, unseen, guide>>

First(S) == CHOOSE b \in S : \A c \in S : b <= c

\* Mutated form: a browser that is being installed is not taken again.
NextBrowserFree(l) ==
  /\ loops[l].waits
  /\ IF loops[l].rest = {} \/ busy # 0
     THEN said' = loops[l].tried /\ loops' = [loops EXCEPT ![l].waits = FALSE] /\ UNCHANGED <<busy, installs>>
     ELSE /\ loops' = [loops EXCEPT ![l].rest = @ \ {First(@)}, ![l].waits = FALSE]
          /\ Install(First(loops[l].rest), l) /\ UNCHANGED said
  /\ UNCHANGED <<registered, status, asks, calls, unseen, guide>>

\* 1.2 s later the next browser, whatever became of the one before; after the
\* last one the toast.
NextBrowser(l) ==
  /\ loops[l].waits
  /\ IF loops[l].rest = {}
     THEN said' = loops[l].tried /\ loops' = [loops EXCEPT ![l].waits = FALSE] /\ UNCHANGED <<busy, installs>>
     ELSE /\ loops' = [loops EXCEPT ![l].rest = @ \ {First(@)}, ![l].waits = FALSE]
          /\ Install(First(loops[l].rest), l) /\ UNCHANGED said
  /\ UNCHANGED <<registered, status, asks, calls, unseen, guide>>

-----------------------------------------------------------------------------
(* The guide of the first launch *)

browsers == <<registered, status, asks, busy, installs, loops, said, calls, unseen>>

\* Mutated form: each time settings arrive.
NoticedAlways(new) ==
  /\ settings' = new
  /\ IF new = "new" THEN step' = 1 /\ opened' = "by itself" ELSE UNCHANGED <<step, opened>>

\* App: the guide opens when settings say onboarded is not set, each time that changes.
Noticed(new) ==
  /\ settings' = new
  /\ IF new = "new" /\ settings # "new" THEN step' = 1 /\ opened' = "by itself" ELSE UNCHANGED <<step, opened>>

\* Settings are read, or another of them was changed: the same onboarded comes back.
SettingsArrive ==
  /\ events < MaxEvents /\ events' = events + 1
  /\ Noticed(IF settings = "unread" THEN "new" ELSE settings) /\ UNCHANGED <<saves, browsers>>

\* Help, Getting started.
OpenGuide ==
  /\ events < MaxEvents /\ events' = events + 1 /\ step' = 1 /\ opened' = "by menu"
  /\ UNCHANGED <<settings, saves, browsers>>

\* Next and Back.
Turn(to) ==
  /\ step > 0 /\ to \in {step - 1, step + 1} \cap 1 .. 3 /\ step' = to
  /\ UNCHANGED <<settings, saves, opened, events, browsers>>

\* Finish, Skip, the cross: the guide closes before onboarded is saved.
Finish ==
  /\ step > 0 /\ step' = 0 /\ opened' = "closed" /\ saves' = saves + 1
  /\ UNCHANGED <<settings, events, browsers>>

\* updateSettings is answered; a failure is ignored.
Saved(ok) ==
  /\ saves > 0 /\ saves' = saves - 1 /\ (IF ok THEN Noticed("onboarded") ELSE UNCHANGED <<settings, step, opened>>)
  /\ UNCHANGED <<events, browsers>>

NextBrowsers ==
  \/ Register \/ InstallAll
  \/ Answered
  \/ \E ok \in BOOLEAN : ShellAnswers(ok)
  \/ \E i \in installs, registers, opens \in BOOLEAN : Installed(i, registers, opens)
  \/ \E b \in Browsers : InstallOne(b)
  \/ \E l \in DOMAIN loops : NextBrowser(l)

NextGuide ==
  \/ SettingsArrive \/ OpenGuide \/ Finish
  \/ \E to \in 1 .. 3 : Turn(to)
  \/ \E ok \in BOOLEAN : Saved(ok)

BwNext == NextBrowsers \/ NextGuide

BwSpec == BwInit /\ [][BwNext]_bwVars

-----------------------------------------------------------------------------
BwTypeOK ==
  /\ status \in {"unknown", "ready", "not registered"} /\ busy \in Browsers \cup {0}
  /\ settings \in {"unread", "new", "onboarded"} /\ step \in 0 .. 3

\* With no call on its way the screen shows whether the connector is registered,
\* also when calls and installations overlapped or failed: only a browser that
\* did not open may have registered it without the screen asking (BrowserView.tsx,
\* onChanged).
StatusFollows == asks = <<>> /\ installs = {} /\ ~unseen => status = Text(registered)

\* Install in all browsers has tried each of them when it says that it is done,
\* although its buttons come back between two and others start there.
AllTried == said = Browsers

\* A guide that was closed stays closed, whatever settings arrive and even when
\* the save failed, until the menu opens it.
GuideStaysClosed ==
  opened = "closed" /\ settings # "unread" /\ opened' # opened => opened' = "by menu"
===============================================================================
