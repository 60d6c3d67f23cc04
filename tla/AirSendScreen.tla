---------------------------- MODULE AirSendScreen ----------------------------
(***************************************************************************)
(* KuAirSend as a window shows it (app/src/lib/airsend.ts,                 *)
(* app/airsend/AirSendPrompts.tsx, views/AirSendView.tsx): the list of     *)
(* transfers, the prompts for what others offer, and the sends, which may  *)
(* have to be repeated with a PIN.                                         *)
(*                                                                         *)
(* The core (AirSend in airsend.rs) sends each change of a transfer as an  *)
(* event, in order, waits for the answer to an offer for a while and then  *)
(* declines it itself.  The list of transfers is also asked for, and its   *)
(* answer and the events do not keep an order.                             *)
(* Abstracted: an offer and its prompt leave in one step; a transfer that  *)
(* failed or was cancelled is one that was declined; the view stays open   *)
(* (opened again, it asks again for the PINs of sends in the history).     *)
(* Bounds: each offer and each send happens once, MaxLoads reloads;        *)
(* MaxListed and MaxNotes stand for 150 transfers and 20 messages.         *)
(***************************************************************************)
EXTENDS Naturals, FiniteSets, Sequences

LOCAL INSTANCE SequencesExt
LOCAL INSTANCE FiniteSetsExt

CONSTANTS
  Files, Links,         \* offers
  Trusts, Notes,        \* devices that trust this one; messages
  Sends, MaxLoads, MaxListed, MaxNotes

AirAssumption == MaxLoads \in Nat /\ MaxListed \in Nat \ {0} /\ MaxNotes \in Nat \ {0}

VARIABLES
  transfer, deciding,    \* in the core: their state; offers that wait
  events,
  transfers, prompts,    \* the window's snapshot
  loads, loaded,         \* transfers() calls on their way
  decides,               \* answers to offers on their way
  sending,               \* sends whose call is not answered; from which send
  sent, asked, pinFor,
  peerHere,              \* the peer of the sends is listed
  stale,                 \* an answer to transfers() came after newer events
  unsure,                \* trusting failed, and the offer is not answered
  early                  \* sends whose PIN was wanted before the window knew them, or with another's

airVars == <<transfer, deciding, events, transfers, prompts, loads, loaded, decides, sending, sent, asked,
             pinFor, peerHere, stale, unsure, early>>

Offers == Files \cup Links
Ids == Offers \cup Sends
None == "none"
Finished == {"done", "declined", "pin"}

AirInit ==
  /\ transfer = [id \in Ids |-> None] /\ deciding = {} /\ events = <<>>
  /\ transfers = transfer /\ prompts = <<>> /\ loads = <<>> /\ loaded = 0 /\ decides = {}
  /\ sending = {} /\ sent = {} /\ asked = {} /\ pinFor = None /\ peerHere = TRUE
  /\ stale = FALSE /\ unsure = {} /\ early = {}

-----------------------------------------------------------------------------
(* The core *)

Transfer(id, state) == [type |-> "airSendTransfer", id |-> id, state |-> state]
Asks(id) == [type |-> "ask", id |-> id, state |-> None]

\* An offer comes in; that of a trusted device is taken at once.  A link that
\* was taken still waits, for the download to be added.
Offer(id, trusted) ==
  /\ transfer[id] = None
  /\ LET s == IF trusted /\ id \in Files THEN "transferring" ELSE "waiting" IN
       /\ transfer' = [transfer EXCEPT ![id] = s]
       /\ deciding' = IF trusted THEN deciding ELSE deciding \cup {id}
       /\ events' = events \o <<Transfer(id, s)>> \o (IF trusted THEN <<>> ELSE <<Asks(id)>>)
  /\ UNCHANGED <<transfers, prompts, loads, loaded, decides, sending, sent, asked, pinFor, peerHere, stale, unsure, early>>

\* A message, or a device that now trusts this one.
Note(id) ==
  /\ \A i \in DOMAIN events : events[i].id # id
  /\ id \notin asked /\ id \notin Range(prompts)
  /\ events' = Append(events, Asks(id)) /\ asked' = asked \cup {id}
  /\ UNCHANGED <<transfer, deciding, transfers, prompts, loads, loaded, decides, sending, sent, pinFor, peerHere, stale, unsure, early>>

Update(id, state) ==
  /\ transfer' = [transfer EXCEPT ![id] = state]
  /\ events' = Append(events, Transfer(id, state))

\* Withdrawn, timed out, or a transfer ends; a send also: declined, or a PIN
\* is wanted.
CoreEnds(id, state) ==
  /\ transfer[id] \in {"waiting", "transferring"}
  /\ state = "pin" => id \in Sends
  /\ id \in deciding => state = "declined"
  /\ Update(id, state) /\ deciding' = deciding \ {id}
  /\ UNCHANGED <<transfers, prompts, loads, loaded, decides, sending, sent, asked, pinFor, peerHere, stale, unsure, early>>

\* decide: with trust, the settings are saved first, which may fail; nobody
\* may be waiting any more.  Of a link whose sender has gone nobody is told:
\* the answer is taken, and the transfer waits for ever.
CoreDecides(c) ==
  /\ c.phase = "sent" /\ decides' = (decides \ {c}) \cup {[c EXCEPT !.phase = "answered"]}
  /\ \/ /\ c.id \in deciding /\ deciding' = deciding \ {c.id} /\ UNCHANGED unsure
        /\ \/ ~c.accept /\ Update(c.id, "declined")
           \/ c.accept /\ c.id \in Files /\ Update(c.id, "transferring")
           \/ c.id \in Links /\ UNCHANGED <<transfer, events>>
     \/ c.id \notin deciding /\ UNCHANGED <<transfer, events, deciding, unsure>>
     \/ c.trust /\ c.id \in deciding /\ unsure' = unsure \cup {c.id} /\ UNCHANGED <<transfer, events, deciding>>
  /\ UNCHANGED <<transfers, prompts, loads, loaded, sending, sent, asked, pinFor, peerHere, stale, early>>

\* The id of the transfer, or an error: the device is no longer nearby.
CoreSends(c) ==
  /\ c \in sending /\ ~c.begun
  /\ \/ sending' = (sending \ {c}) \cup {[c EXCEPT !.begun = TRUE]} /\ Update(c.id, "waiting")
     \/ ~peerHere /\ sending' = sending \ {c} /\ UNCHANGED <<transfer, events>>
  /\ UNCHANGED <<deciding, transfers, prompts, loads, loaded, decides, sent, asked, pinFor, peerHere, stale, unsure, early>>

CoreLists ==
  /\ \E i \in DOMAIN loads :
       /\ ~loads[i].done /\ \A j \in 1 .. i - 1 : loads[j].done
       /\ loads' = [loads EXCEPT ![i] = [done |-> TRUE, answer |-> transfer, old |-> FALSE]]
  /\ UNCHANGED <<transfer, deciding, events, transfers, prompts, loaded, decides, sending, sent, asked, pinFor, peerHere, stale, unsure, early>>

-----------------------------------------------------------------------------
(* The snapshot *)

\* Mutated form: only while no PIN is being asked for.
AskPinAlone(list, known) ==
  LET wanted == {s \in Sends : list[s] = "pin" /\ s \in known /\ s \notin asked} IN
    IF wanted = {} \/ pinFor # None THEN UNCHANGED <<asked, pinFor>>
    ELSE \E s \in wanted : asked' = asked \cup {s} /\ pinFor' = s

\* The effect on transfers: a send that needs a PIN asks for it, once.
AskPin(list, known) ==
  LET wanted == {s \in Sends : list[s] = "pin" /\ s \in known /\ s \notin asked} IN
    IF wanted = {} THEN UNCHANGED <<asked, pinFor>>
    ELSE \E s \in wanted : asked' = asked \cup {s} /\ pinFor' = s

\* A PIN is wanted for a send the window does not know yet, or for two at
\* once: it is asked for when the list changes again.
TooEarly(list) ==
  LET wanted == {s \in Sends : list[s] = "pin" /\ s \notin asked} IN
    IF Cardinality(wanted \cap sent) > 1 THEN wanted ELSE wanted \ sent

\* Mutated form: a prompt closes when its transfer begins.
StillAskedRunning(id, state) == state # "transferring"

\* A prompt stays as long as its offer waits.
StillAsked(id, state) == state = "waiting"

In == {id \in Ids : transfers[id] # None}

\* Mutated form: only a transfer that is not in the list yet enters it.
ListedNew(id, state) == {IF transfers[id] = None THEN [transfers EXCEPT ![id] = state] ELSE transfers}

\* A transfer replaces the one with its id, or enters the list, which keeps
\* the newest (which these are is left open).
Listed(id, state) ==
  IF id \in In THEN {[transfers EXCEPT ![id] = state]}
  ELSE {[x \in Ids |-> IF x = id THEN state ELSE IF x \in kept THEN transfers[x] ELSE None] :
          kept \in IF Cardinality(In) < MaxListed THEN {In} ELSE kSubset(MaxListed - 1, In)}

HandleTransfer ==
  /\ events # <<>> /\ Head(events).type = "airSendTransfer" /\ events' = Tail(events)
  /\ LET e == Head(events) IN
       /\ transfers' \in Listed(e.id, e.state)
       /\ prompts' = IF StillAsked(e.id, e.state) THEN prompts ELSE SelectSeq(prompts, LAMBDA p : p # e.id)
       /\ AskPin(transfers', sent)
       /\ early' = TooEarly(transfers')
  /\ loads' = [i \in DOMAIN loads |-> [loads[i] EXCEPT !.old = loads[i].done]]
  /\ UNCHANGED <<transfer, deciding, loaded, decides, sending, sent, peerHere, stale, unsure>>

First(kind) == SelectSeq(prompts, LAMBDA p : p \in kind)

\* The message that goes when there are too many.
Oldest == IF Len(First(Notes)) < MaxNotes THEN {} ELSE {Head(First(Notes))}

\* What is asked again moves to the end.
HandleAsk ==
  /\ events # <<>> /\ Head(events).type = "ask" /\ events' = Tail(events)
  /\ LET id == Head(events).id
         gone == {id} \cup (IF id \in Notes THEN Oldest ELSE {})
     IN prompts' = Append(SelectSeq(prompts, LAMBDA p : p \notin gone), id)
  /\ UNCHANGED <<transfer, deciding, transfers, loads, loaded, decides, sending, sent, asked, pinFor, peerHere, stale, unsure, early>>

\* The view opens, or the history is cleared (finished transfers go).
LoadTransfers(clear) ==
  /\ loaded < MaxLoads /\ loaded' = loaded + 1
  /\ loads' = Append(loads, [done |-> FALSE, answer |-> transfer, old |-> FALSE])
  /\ transfer' = IF clear THEN [id \in Ids |-> IF transfer[id] \in Finished THEN "cleared" ELSE transfer[id]] ELSE transfer
  /\ UNCHANGED <<deciding, events, transfers, prompts, decides, sending, sent, asked, pinFor, peerHere, stale, unsure, early>>

TransfersArrive ==
  /\ loads # <<>> /\ Head(loads).done /\ loads' = Tail(loads)
  /\ transfers' = Head(loads).answer /\ stale' = (stale \/ Head(loads).old)
  /\ AskPin(transfers', sent) /\ early' = TooEarly(transfers')
  /\ UNCHANGED <<transfer, deciding, events, prompts, loaded, decides, sending, sent, peerHere, unsure>>

-----------------------------------------------------------------------------
(* Prompts: one at a time, files before links before the others *)

Shown ==
  IF First(Files) # <<>> THEN Head(First(Files))
  ELSE IF First(Links) # <<>> THEN Head(First(Links))
  ELSE IF First(Trusts) # <<>> THEN Head(First(Trusts))
  ELSE IF First(Notes) # <<>> THEN Head(First(Notes)) ELSE None

\* The dialog may be closed, which declines, also while an answer is sent.
Answer(accept, trust) ==
  /\ Shown \in Offers /\ (accept => \A c \in decides : c.id # Shown)
  /\ [id |-> Shown, accept |-> accept, trust |-> accept /\ trust, phase |-> "sent"] \notin decides
  /\ decides' = decides \cup {[id |-> Shown, accept |-> accept, trust |-> accept /\ trust, phase |-> "sent"]}
  /\ UNCHANGED <<transfer, deciding, events, transfers, prompts, loads, loaded, sending, sent, asked, pinFor, peerHere, stale, unsure, early>>

Dismiss(id) == prompts' = SelectSeq(prompts, LAMBDA p : p # id)

\* Whatever the core said, the prompt goes.
Decided(c) ==
  /\ c.phase = "answered" /\ decides' = decides \ {c} /\ Dismiss(c.id)
  /\ UNCHANGED <<transfer, deciding, events, transfers, loads, loaded, sending, sent, asked, pinFor, peerHere, stale, unsure, early>>

\* A message is read, trust is given or not.
CloseNote ==
  /\ Shown \in Trusts \cup Notes /\ Dismiss(Shown)
  /\ UNCHANGED <<transfer, deciding, events, transfers, loads, loaded, decides, sending, sent, asked, pinFor, peerHere, stale, unsure, early>>

-----------------------------------------------------------------------------
(* Sending *)

\* Files, a folder or a text for a listed peer; again after a failure.
Send(id) ==
  /\ peerHere /\ transfer[id] = None /\ \A c \in sending : c.id # id
  /\ id \notin sent /\ sending' = sending \cup {[id |-> id, begun |-> FALSE]}
  /\ UNCHANGED <<transfer, deciding, events, transfers, prompts, loads, loaded, decides, sent, asked, pinFor, peerHere, stale, unsure, early>>

\* The answer tells the id of the transfer.
SendAnswered(c) ==
  /\ c \in sending /\ c.begun /\ sending' = sending \ {c} /\ sent' = sent \cup {c.id}
  /\ UNCHANGED <<transfer, deciding, events, transfers, prompts, loads, loaded, decides, asked, pinFor, peerHere, stale, unsure, early>>

\* The PIN repeats the send, if the peer is still listed; the dialog closes.
SendPin(id) ==
  /\ pinFor # None /\ pinFor' = None
  /\ IF peerHere
     THEN /\ transfer[id] = None /\ id \notin sent /\ \A c \in sending : c.id # id
          /\ sending' = sending \cup {[id |-> id, begun |-> FALSE]}
     ELSE UNCHANGED sending
  /\ UNCHANGED <<transfer, deciding, events, transfers, prompts, loads, loaded, decides, sent, asked, peerHere, stale, unsure, early>>

ClosePin ==
  /\ pinFor # None /\ pinFor' = None
  /\ UNCHANGED <<transfer, deciding, events, transfers, prompts, loads, loaded, decides, sending, sent, asked, peerHere, stale, unsure, early>>

\* (It matters only where something is sent.)
PeerLeaves ==
  /\ Sends # {} /\ peerHere /\ peerHere' = FALSE
  /\ UNCHANGED <<transfer, deciding, events, transfers, prompts, loads, loaded, decides, sending, sent, asked, pinFor, stale, unsure, early>>

Handle == HandleTransfer \/ HandleAsk
Arrive == CoreLists \/ TransfersArrive \/ \E c \in decides : CoreDecides(c) \/ Decided(c)

AirNext ==
  \/ Handle \/ Arrive \/ CloseNote \/ ClosePin \/ PeerLeaves
  \/ \E b \in BOOLEAN : LoadTransfers(b) \/ \E a \in BOOLEAN : Answer(a, b)
  \/ \E id \in Offers : \E b \in BOOLEAN : Offer(id, b)
  \/ \E id \in Trusts \cup Notes : Note(id)
  \/ \E id \in Ids : \E s \in Finished : CoreEnds(id, s)
  \/ \E id \in Sends : Send(id) \/ SendPin(id)
  \/ \E c \in sending : CoreSends(c) \/ SendAnswered(c)

AirSpec == AirInit /\ [][AirNext]_airVars

-----------------------------------------------------------------------------
AirTypeOK ==
  /\ DOMAIN transfers = Ids /\ Range(prompts) \subseteq Offers \cup Trusts \cup Notes /\ IsInjective(prompts)
  /\ sent \subseteq Sends /\ pinFor \in Sends \cup {None} /\ deciding \subseteq Offers

Quiet == events = <<>> /\ decides = {}

\* A prompt is on the screen exactly as long as somebody waits for its answer,
\* once every event is handled, except where trusting the device failed: then
\* the prompt goes although the answer was not given.
PromptsWait == Quiet => {id \in Offers : id \in Range(prompts)} = deciding \ unsure

\* The list shows the transfers of the core, the newest of them if there are
\* too many, unless it was asked for and the answer came after newer events,
\* or it was cleared.
TransfersFollow ==
  Quiet /\ loads = <<>> /\ ~stale =>
    \A id \in Ids : transfer[id] # "cleared" =>
      \/ transfers[id] = transfer[id]
      \/ transfers[id] = None /\ Cardinality(In) >= MaxListed

\* A send that needs a PIN asks for it, at the latest when the list changes
\* after the window learnt of the send.
PinAsked == \A s \in Sends : transfers[s] = "pin" /\ s \in sent => s \in asked \cup early
===============================================================================
