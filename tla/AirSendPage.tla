----------------------------- MODULE AirSendPage -----------------------------
(***************************************************************************)
(* The KuAirSend page (app/src/views/AirSendView.tsx): the switch and the  *)
(* status it shows, the own name, the devices around, what a device's menu *)
(* and the rows of the transfers offer, and the dialogs.  Prompts, the PIN *)
(* and the list of transfers are in AirSendScreen.                         *)
(*                                                                         *)
(* Three parts with a next-state relation each: the status, the transfers  *)
(* and the places of the devices around.                                   *)
(* External: the service in the core, its settings and their event; the    *)
(* answers to the page's calls come in the order the core gave them.       *)
(* Bounds: MaxClicks of the switch,                                        *)
(* MaxNames names, MaxSends transfers, MaxAround devices around.           *)
(***************************************************************************)
EXTENDS Integers, FiniteSets, Sequences

CONSTANTS Peers, MaxClicks, MaxNames, MaxSends, MaxAround

AirSendPageAssumption == {MaxClicks, MaxNames, MaxSends, MaxAround} \subseteq Nat

VARIABLES
  service, setting, events,             \* the core: what runs, the settings, their event
  store, toAsk, answers, switch,        \* the page's settings; status calls and answers; the switch's call
  status, busy, error, typed,           \* the page
  clicks, names, unsaved,
  peers, opened,                        \* devices found; the menu or dialog that is open, for whom
  transfers, sending, sent, made, around

statusVars == <<service, setting, events, store, toAsk, answers, switch, status, busy, error, typed, clicks, names, unsaved>>
sendVars == <<peers, opened, transfers, sending, sent, made, around>>
apVars == <<statusVars, sendVars>>

NoCall == [state |-> "none", on |-> FALSE, status |-> <<>>]
Unknown == [running |-> FALSE, name |-> -1]
Nothing == <<"nothing">>

ApInit ==
  /\ \E on \in BOOLEAN : service = [running |-> on, name |-> 0] /\ setting = [enabled |-> on, name |-> 0]
  /\ events = 0 /\ store = setting /\ toAsk = 1 /\ answers = <<>> /\ switch = NoCall
  /\ status = Unknown /\ busy = FALSE /\ error = FALSE /\ typed = 0 /\ clicks = 0 /\ names = 0 /\ unsaved = FALSE
  /\ peers = Peers /\ opened = Nothing /\ transfers = {} /\ sending = {} /\ sent = {} /\ made = 0 /\ around = 0

-----------------------------------------------------------------------------
(* The status *)

\* The core looks; the answer is on its way.  Or it cannot say.
LookStatus ==
  /\ toAsk > 0 /\ toAsk' = toAsk - 1 /\ answers' = Append(answers, [to |-> "look", status |-> <<service>>])
  /\ UNCHANGED <<service, setting, events, store, switch, status, busy, error, typed, clicks, names, unsaved, sendVars>>

StatusArrives ==
  /\ answers # <<>> /\ Head(answers).to = "look" /\ answers' = Tail(answers) /\ status' = Head(answers).status[1]
  /\ UNCHANGED <<service, setting, events, store, toAsk, switch, busy, error, typed, clicks, names, unsaved, sendVars>>

On == status.running

\* What the page shows.
Page == IF status = Unknown THEN "blank" ELSE IF On THEN "devices" ELSE "invitation"

Toggle ==
  /\ status # Unknown /\ ~busy /\ clicks < MaxClicks /\ clicks' = clicks + 1
  /\ busy' = TRUE /\ switch' = [NoCall EXCEPT !.state = "asked", !.on = ~On]
  /\ UNCHANGED <<service, setting, events, store, toAsk, answers, status, error, typed, names, unsaved, sendVars>>

\* The core starts or stops the service and remembers the choice, unless it fails
\* to: the answer is the status of that moment, or an error, and is given later.
CoreSwitches(result) ==
  /\ switch.state = "asked"
  /\ service' = IF result = "failed" THEN service ELSE [service EXCEPT !.running = switch.on]
  /\ switch' = [switch EXCEPT !.state = "switched", !.status = IF result = "done" THEN <<service'>> ELSE <<>>]
  /\ setting' = IF result = "done" THEN [setting EXCEPT !.enabled = switch.on] ELSE setting
  /\ events' = IF setting' # setting THEN events + 1 ELSE events
  /\ unsaved' = (unsaved \/ result = "unsaved")
  /\ UNCHANGED <<store, toAsk, answers, status, busy, error, typed, clicks, names, sendVars>>

CoreAnswers ==
  /\ switch.state = "switched" /\ switch' = NoCall /\ answers' = Append(answers, [to |-> "switch", status |-> switch.status])
  /\ UNCHANGED <<service, setting, events, store, toAsk, status, busy, error, typed, clicks, names, unsaved, sendVars>>

SwitchAnswered ==
  /\ answers # <<>> /\ Head(answers).to = "switch" /\ answers' = Tail(answers) /\ busy' = FALSE
  /\ error' = (Head(answers).status = <<>>) /\ status' = IF error' THEN status ELSE Head(answers).status[1]
  /\ UNCHANGED <<service, setting, events, store, toAsk, switch, typed, clicks, names, unsaved, sendVars>>

\* Mutated form: the status is asked for when the switch changes only.
DependsSwitch(s) == s.enabled # store.enabled

\* What the status depends on: the page asks again when it changes.
Depends(s) == s # store

SettingsArrive ==
  /\ events > 0 /\ events' = events - 1 /\ store' = setting
  /\ toAsk' = IF Depends(setting) THEN toAsk + 1 ELSE toAsk
  /\ typed' = IF setting.name # store.name THEN setting.name ELSE typed
  /\ UNCHANGED <<service, setting, answers, switch, status, busy, error, clicks, names, unsaved, sendVars>>

\* The own name is saved when its field is left (the PIN as well; animal, folder
\* and consent at once): with the settings as the page has them.
TypeName ==
  /\ Page = "devices" /\ names < MaxNames /\ names' = names + 1 /\ typed' = names'
  /\ UNCHANGED <<service, setting, events, store, toAsk, answers, switch, status, busy, error, clicks, unsaved, sendVars>>

BlurName ==
  /\ typed # store.name /\ typed # setting.name
  /\ setting' = [store EXCEPT !.name = typed] /\ service' = [service EXCEPT !.name = typed] /\ events' = events + 1
  /\ UNCHANGED <<store, toAsk, answers, switch, status, busy, error, typed, clicks, names, unsaved, sendVars>>

NextStatus ==
  \/ LookStatus \/ StatusArrives \/ Toggle \/ CoreAnswers \/ SwitchAnswered \/ SettingsArrive \/ TypeName \/ BlurName
  \/ \E r \in {"done", "failed", "unsaved"} : CoreSwitches(r)

-----------------------------------------------------------------------------
(* Devices around: on an ellipse, evenly, the first at the top (two: left   *)
(* and right of you).  Angles are in degrees, places in tenths of a percent.*)

Sines == [d \in 0 .. 6 |-> CASE d = 0 -> 0 [] d = 1 -> 259 [] d = 2 -> 500 [] d = 3 -> 707 [] d = 4 -> 866
                             [] d = 5 -> 966 [] d = 6 -> 1000]

\* The sine of a multiple of 15 degrees, in thousandths.
Sine(a) ==
  LET b == a % 360  q == (b % 180) \div 15  s == IF q <= 6 THEN Sines[q] ELSE Sines[12 - q] IN
    IF b < 180 THEN s ELSE -s

Cosine(a) == Sine(a + 90)

\* Mutated form: the first and the last share the turn's end.
AngleClosed(i, n) == -90 + (i * 360) \div (IF n > 1 THEN n - 1 ELSE 1) + (IF n = 2 THEN 90 ELSE 0)

Angle(i, n) == -90 + (i * 360) \div n + (IF n = 2 THEN 90 ELSE 0)

Place(i, n) ==
  LET rx == IF n > 8 THEN 40 ELSE 36  ry == IF n > 8 THEN 33 ELSE 30 IN
    [left |-> 500 + (Cosine(Angle(i, n)) * rx) \div 100, top |-> 500 + (Sine(Angle(i, n)) * ry) \div 100]

\* More devices are found.
NextAround == around < MaxAround /\ around' = around + 1 /\ UNCHANGED <<statusVars, peers, opened, transfers, sending, sent, made>>

-----------------------------------------------------------------------------
(* Sending: a device's menu, its dialogs, the transfers and trying again *)

Live(x) == x.state = "live"

\* A call is made; `was' is what it repeats, or what it is itself.
Send(p, c, was) == made < MaxSends /\ made' = made + 1 /\ sending' = sending \cup {[no |-> made', peer |-> p, content |-> c, was |-> was, id |-> 0]}

Opens(what) == opened = Nothing /\ opened' = what /\ UNCHANGED <<statusVars, peers, transfers, sending, sent, made, around>>

PeerMenu(p) == p \in peers /\ Opens(<<"menu", p>>)

\* Files are sent at once when some were chosen; a text and a link have a dialog.
ChooseFiles ==
  /\ opened[1] = "menu" /\ opened' = Nothing
  /\ \/ UNCHANGED <<sending, made>>
     \/ Send(opened[2], "files", <<opened[2], "files">>)
  /\ UNCHANGED <<statusVars, peers, transfers, sent, around>>

ChooseDialog(c) ==
  /\ opened[1] = "menu" /\ opened' = <<c, opened[2]>>
  /\ UNCHANGED <<statusVars, peers, transfers, sending, sent, made, around>>

SubmitText ==
  /\ opened[1] = "text" /\ Send(opened[2], "text", <<opened[2], "text">>) /\ opened' = Nothing
  /\ UNCHANGED <<statusVars, peers, transfers, sent, around>>

\* A link: the dialog stays until the answer, and may be submitted again meanwhile.
SubmitLink ==
  /\ opened[1] = "link" /\ Send(opened[2], "link", <<opened[2], "link">>)
  /\ UNCHANGED <<statusVars, peers, opened, transfers, sent, around>>

CloseDialog ==
  /\ opened # Nothing /\ opened' = Nothing
  /\ UNCHANGED <<statusVars, peers, transfers, sending, sent, made, around>>

\* A device added by its address is listed, or was not found: the dialog stays then.
AddByIp == Opens(<<"address">>)

Added(p) ==
  /\ opened[1] = "address" /\ opened' = Nothing /\ peers' = peers \cup {p}
  /\ UNCHANGED <<statusVars, transfers, sending, sent, made, around>>

PeerLeaves(p) ==
  /\ p \in peers /\ peers' = peers \ {p}
  /\ UNCHANGED <<statusVars, opened, transfers, sending, sent, made, around>>

\* The core takes a call: the transfer is listed before the page knows its number.
CoreTakes(s) ==
  /\ s.id = 0 /\ sending' = (sending \ {s}) \cup {[s EXCEPT !.id = s.no]}
  /\ transfers' = transfers \cup {[id |-> s.no, out |-> TRUE, peer |-> s.peer, content |-> s.content, was |-> s.was, state |-> "live"]}
  /\ UNCHANGED <<statusVars, peers, opened, sent, made, around>>

\* Mutated form: whatever is remembered last counts for all.
RememberedLast(s) == {[id |-> i, peer |-> s.peer, content |-> s.content] : i \in {x.id : x \in sent} \cup {s.id}}

\* What each send was, so that it can be repeated.
Remembered(s) == sent \cup {[id |-> s.id, peer |-> s.peer, content |-> s.content]}

\* A link's call remembers nothing; its answer closes the link dialog, whosever it is.
SendAnswered(s) ==
  /\ s.id > 0 /\ sending' = sending \ {s}
  /\ IF s.content = "link" THEN sent' = sent /\ opened' = IF opened[1] = "link" THEN Nothing ELSE opened
     ELSE sent' = Remembered(s) /\ UNCHANGED opened
  /\ UNCHANGED <<statusVars, peers, transfers, made, around>>

\* Another device sends something, and it was accepted.
Receive(p, c) ==
  /\ made < MaxSends /\ made' = made + 1
  /\ transfers' = transfers \cup {[id |-> made', out |-> FALSE, peer |-> p, content |-> c, was |-> <<p, c>>, state |-> "live"]}
  /\ UNCHANGED <<statusVars, peers, opened, sending, sent, around>>

Ends(x, state) ==
  /\ Live(x) /\ transfers' = (transfers \ {x}) \cup {[x EXCEPT !.state = state]}
  /\ UNCHANGED <<statusVars, peers, opened, sending, sent, made, around>>

\* What the row of a transfer offers besides copying a text.
Offers(x) ==
  {o \in {"cancel", "folder", "download", "again"} :
    CASE o = "cancel" -> Live(x)
      [] o = "folder" -> x.state = "done" /\ ~x.out /\ x.content = "files"
      [] o = "download" -> x.content = "text" /\ ~x.out
      [] o = "again" -> x.state = "stopped" /\ x.out /\ x.peer \in peers /\ \E s \in sent : s.id = x.id}

Cancel(x) == "cancel" \in Offers(x) /\ Ends(x, "stopped")

\* Try again sends what was remembered to the device as it is listed now.
TryAgain(x) ==
  /\ "again" \in Offers(x) /\ \E s \in sent : s.id = x.id /\ Send(x.peer, s.content, x.was)
  /\ UNCHANGED <<statusVars, peers, opened, transfers, sent, around>>

\* Offered when there is one that ended.
ClearHistory ==
  /\ (\E x \in transfers : ~Live(x)) /\ transfers' = {x \in transfers : Live(x)}
  /\ UNCHANGED <<statusVars, peers, opened, sending, sent, made, around>>

NextSends ==
  \/ ChooseFiles \/ SubmitText \/ SubmitLink \/ CloseDialog \/ AddByIp \/ ClearHistory
  \/ \E c \in {"text", "link"} : ChooseDialog(c)
  \/ \E p \in Peers : PeerMenu(p) \/ PeerLeaves(p) \/ Added(p) \/ \E c \in {"files", "text"} : Receive(p, c)
  \/ \E s \in sending : CoreTakes(s) \/ SendAnswered(s)
  \/ \E x \in transfers : Cancel(x) \/ TryAgain(x) \/ Ends(x, "done") \/ Ends(x, "stopped")

ApSpec == ApInit /\ [][NextStatus \/ NextSends \/ NextAround]_apVars

-----------------------------------------------------------------------------
(* Properties *)

ApTypeOK ==
  /\ {service.running, setting.enabled, busy, error, unsaved} \subseteq BOOLEAN
  /\ events \in 0 .. MaxClicks + MaxNames /\ toAsk \in 0 .. MaxClicks + MaxNames + 1
  /\ switch.state \in {"none", "asked", "switched"} /\ \A k \in DOMAIN answers : Len(answers[k].status) <= 1
  /\ typed \in 0 .. MaxNames
  /\ peers \subseteq Peers /\ opened[1] \in {"nothing", "menu", "text", "link", "address"} /\ around \in 0 .. MaxAround
  /\ {x.id : x \in transfers \cup sent} \subseteq 1 .. MaxSends

\* When nothing is on its way the page shows whether the service runs and the name
\* the others see: not so once the choice could not be saved (unsaved), which the
\* page is told as a failure only; and the answer to the switch may be older than a
\* name that was saved before it came.
SwitchFollows ==
  events = 0 /\ toAsk = 0 /\ answers = <<>> /\ switch = NoCall /\ ~unsaved =>
    status.running = service.running /\ (clicks = 0 => status = service)

\* Trying again sends the same to the same device, whatever was sent since and
\* however late the answers of the calls were.
AgainIsSame ==
  \A x \in transfers : x.was = <<x.peer, x.content>> /\ \A s \in sent : s.id = x.id => <<s.peer, s.content>> = x.was

\* No two devices lie at one place, and none outside the card (for counts whose
\* angles are multiples of 15 degrees).
Apart ==
  around > 0 /\ 24 % around = 0 =>
    /\ \A i, j \in 0 .. around - 1 : i # j => Place(i, around) # Place(j, around)
    /\ \A i \in 0 .. around - 1 : Place(i, around).left \in 100 .. 900 /\ Place(i, around).top \in 150 .. 850

=============================================================================
