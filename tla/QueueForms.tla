------------------------------ MODULE QueueForms ------------------------------
(***************************************************************************)
(* Queues and schedules as a window shows and edits them (queuesStore and  *)
(* schedulesStore in app/src/lib/store.ts, QueueBar in DownloadsView.tsx,  *)
(* views/ScheduledView.tsx).  An entry has a "limit", changed by a control *)
(* of the screen, and a "name", changed in a form; both save the whole     *)
(* entry as the window knows it.  Form "rename" takes the rest from the    *)
(* window's copy when it is submitted, form "schedule" when it is opened.  *)
(*                                                                         *)
(* The core (save_queue, delete_queue, save_schedule, delete_schedule of   *)
(* core.rs, commands that run in the order of the calls) writes whole      *)
(* entries, for others as well, and sends an event with each change.       *)
(* Abstracted: a value is the number of the write it comes from; what the  *)
(* core keeps of a queue (running, its place) is not shown here.           *)
(* Bounds: MaxWrites writes, MaxForms forms opened.                        *)
(***************************************************************************)
EXTENDS Naturals, FiniteSets, Sequences, TLC

LOCAL INSTANCE Functions

CONSTANTS MaxWrites, MaxForms

FormsAssumption == MaxWrites \in Nat /\ MaxForms \in Nat

VARIABLES
  core, wanted,    \* the core's entries; the last write of each field
  events,
  store,           \* the window's copy
  pipe,            \* its calls, in order
  list,            \* the queue whose downloads are listed
  form, forms,
  writes,
  raced,           \* entries saved while a change of theirs was not known to the save
  gone             \* entries others deleted, or deleted while listed or renamed

qfVars == <<core, wanted, events, store, pipe, list, form, forms, writes, raced, gone>>

Main == 0
Ids == 0 .. MaxWrites + 1
Entry(limit, name) == [limit |-> limit, name |-> name]
NoForm == [kind |-> "none", id |-> Main, entry |-> Entry(0, 0), error |-> FALSE]
New == MaxWrites + 2

Start == [id \in {Main, 1} |-> Entry(0, 0)]

QfInit ==
  /\ core = Start /\ wanted = Start /\ events = 0 /\ store = Start /\ pipe = <<>>
  /\ list = Main /\ form = NoForm /\ forms = 0 /\ writes = 1 /\ raced = {} /\ gone = {}

-----------------------------------------------------------------------------
(* Calls and answers *)

Call(op, id, entry) == [op |-> op, id |-> id, entry |-> entry, done |-> FALSE, ok |-> TRUE, answer |-> Start]
List == Call("list", Main, Entry(0, 0))

\* Calls the core has yet to handle, from the i-th on, write the entry.
Unwritten(id, i) ==
  \E j \in i .. Len(pipe) : pipe[j].id = id /\ ~pipe[j].done /\ pipe[j].op \in {"save", "submit", "delete"}

Busy == events > 0 \/ pipe # <<>>

\* Mutated form: entries that are on their way are not asked for again.
EventArrivesOnce ==
  /\ events > 0 /\ events' = events - 1
  /\ pipe' = IF pipe = <<>> THEN Append(pipe, List) ELSE pipe
  /\ UNCHANGED <<core, wanted, store, list, form, forms, writes, raced, gone>>

EventArrives ==
  /\ events > 0 /\ events' = events - 1 /\ pipe' = Append(pipe, List)
  /\ UNCHANGED <<core, wanted, store, list, form, forms, writes, raced, gone>>

\* The core handles the first call it has not; a new entry gets a new id, and
\* a name may be refused.
CoreHandles ==
  \E i \in DOMAIN pipe :
    LET c == pipe[i] IN
    /\ ~c.done /\ \A j \in 1 .. i - 1 : pipe[j].done
    /\ \/ /\ c.op \in {"list", "listclose"}
          /\ pipe' = [pipe EXCEPT ![i] = [c EXCEPT !.done = TRUE, !.answer = core]]
          /\ UNCHANGED <<core, events>>
       \/ /\ c.op \in {"save", "submit"}
          /\ core' = (c.id :> c.entry) @@ core /\ events' = events + 1
          /\ pipe' = [pipe EXCEPT ![i].done = TRUE]
       \/ /\ c.op = "delete"
          /\ core' = Restrict(core, DOMAIN core \ {c.id}) /\ events' = events + 1
          /\ pipe' = [pipe EXCEPT ![i].done = TRUE]
       \/ /\ c.op = "submit" /\ pipe' = [pipe EXCEPT ![i].done = TRUE, ![i].ok = FALSE]
          /\ UNCHANGED <<core, events>>
    /\ wanted' = IF c.op = "submit" /\ core' = core /\ ~Unwritten(c.id, i + 1)
                 THEN IF c.id \in DOMAIN core THEN (c.id :> core[c.id]) @@ wanted
                      ELSE Restrict(wanted, DOMAIN wanted \ {c.id})
                 ELSE wanted
    /\ UNCHANGED <<store, list, form, forms, writes, raced, gone>>

Answer(c) == pipe # <<>> /\ c = Head(pipe) /\ c.done

\* The resource has the answer; the list may now show a queue just made, and
\* its form closes.
Listed ==
  \E c \in {pipe[i] : i \in DOMAIN pipe} :
    /\ Answer(c) /\ c.op \in {"list", "listclose"} /\ pipe' = Tail(pipe) /\ store' = c.answer
    /\ IF c.op = "listclose" THEN form' = NoForm /\ list' = c.id ELSE UNCHANGED <<form, list>>
    /\ UNCHANGED <<core, wanted, events, forms, writes, raced, gone>>

\* Mutated form: the new queue is shown while the list is still to come.
SubmittedAtOnce ==
  \E c \in {pipe[i] : i \in DOMAIN pipe} :
    /\ Answer(c) /\ c.op = "submit"
    /\ IF c.ok THEN pipe' = Append(Tail(pipe), List) /\ form' = NoForm /\ list' = c.id
       ELSE pipe' = Tail(pipe) /\ form' = [form EXCEPT !.error = TRUE] /\ UNCHANGED list
    /\ UNCHANGED <<core, wanted, events, store, forms, writes, raced, gone>>

\* Submitted: ask for the entries, then close the form; or say why not.
Submitted ==
  \E c \in {pipe[i] : i \in DOMAIN pipe} :
    /\ Answer(c) /\ c.op = "submit"
    /\ IF c.ok THEN pipe' = Append(Tail(pipe), [List EXCEPT !.op = "listclose", !.id = c.id]) /\ UNCHANGED form
       ELSE pipe' = Tail(pipe) /\ form' = [form EXCEPT !.error = form.kind # "none"]
    /\ UNCHANGED <<core, wanted, events, store, list, forms, writes, raced, gone>>

Saved ==
  \E c \in {pipe[i] : i \in DOMAIN pipe} :
    /\ Answer(c) /\ c.op = "save" /\ pipe' = Append(Tail(pipe), List)
    /\ UNCHANGED <<core, wanted, events, store, list, form, forms, writes, raced, gone>>

\* Deleted: the main queue is listed.
Deleted ==
  \E c \in {pipe[i] : i \in DOMAIN pipe} :
    /\ Answer(c) /\ c.op = "delete" /\ pipe' = Append(Tail(pipe), List) /\ list' = Main
    /\ UNCHANGED <<core, wanted, events, store, form, forms, writes, raced, gone>>

-----------------------------------------------------------------------------
(* The screen *)

\* The bar of a list is its queue's, or the first one's.
Bar == IF list \in DOMAIN store THEN list ELSE Main

Write == writes < MaxWrites /\ writes' = writes + 1

\* The form lies over everything else of the window, and may be closed while
\* it is submitted.
Uncovered == form.kind = "none"

\* A control of the bar, or the switch of a schedule.
SaveLimit(id) ==
  /\ Uncovered /\ id \in DOMAIN store /\ Write
  /\ LET e == [store[id] EXCEPT !.limit = writes'] IN
       /\ pipe' = Append(pipe, Call("save", id, e))
       /\ wanted' = (id :> IF id \in DOMAIN wanted THEN [wanted[id] EXCEPT !.limit = writes'] ELSE e) @@ wanted
       /\ raced' = raced \cup (IF id \in DOMAIN wanted /\ wanted[id].name = e.name THEN {} ELSE {id})
  /\ UNCHANGED <<core, events, store, list, form, forms, gone>>

OpenForm(kind, id) ==
  /\ Uncovered /\ forms < MaxForms /\ forms' = forms + 1
  /\ id \in DOMAIN store \cup {New}
  /\ form' = [kind |-> kind, id |-> id, error |-> FALSE,
              entry |-> IF id = New THEN Entry(0, 0) ELSE store[id]]
  /\ UNCHANGED <<core, wanted, events, store, pipe, list, writes, raced, gone>>

\* Mutated form: what the form was opened with.
RestOpened == form.entry

\* What the form saves with the name.
Rest == IF form.kind = "rename" /\ form.id \in DOMAIN store THEN store[form.id] ELSE form.entry

\* The window's copy, and the one a schedule's form was opened with, have the
\* last change of the rest.
UpToDate(id) ==
  /\ id \in DOMAIN store \cap DOMAIN wanted /\ store[id].limit = wanted[id].limit
  /\ form.kind = "schedule" => form.entry.limit = store[id].limit

Submit ==
  /\ form.kind # "none" /\ Write
  /\ LET id == IF form.id = New THEN writes' ELSE form.id
         e == [Rest EXCEPT !.name = writes'] IN
       /\ pipe' = Append(pipe, Call("submit", id, e))
       /\ wanted' = (id :> IF id \in DOMAIN wanted THEN [wanted[id] EXCEPT !.name = writes'] ELSE e) @@ wanted
       /\ raced' = raced \cup (IF form.id = New \/ UpToDate(id) THEN {} ELSE {id})
  /\ form' = [form EXCEPT !.error = FALSE]
  /\ UNCHANGED <<core, events, store, list, forms, gone>>

CancelForm ==
  /\ form.kind # "none" /\ form' = NoForm
  /\ UNCHANGED <<core, wanted, events, store, pipe, list, forms, writes, raced, gone>>

\* The queue of the bar, except the main one.
Delete(id) ==
  /\ Uncovered /\ id = Bar /\ id # Main /\ Write
  /\ gone' = gone \cup {x \in {id} : \E i \in DOMAIN pipe : pipe[i].op \in {"submit", "listclose"} /\ pipe[i].id = id}
  /\ pipe' = Append(pipe, Call("delete", id, Entry(0, 0)))
  /\ wanted' = Restrict(wanted, DOMAIN wanted \ {id})
  /\ UNCHANGED <<core, events, store, list, form, forms, raced>>

ShowList(id) ==
  /\ Uncovered /\ id \in DOMAIN store /\ list # id /\ list' = id
  /\ gone' = IF id \in DOMAIN wanted THEN gone ELSE gone \cup {id}
  /\ UNCHANGED <<core, wanted, events, store, pipe, form, forms, writes, raced>>

\* Another window, the command line, the scheduler.
Outside(id) ==
  /\ id \in DOMAIN core /\ Write /\ events' = events + 1
  /\ raced' = raced \cup {x \in {id} : Unwritten(id, 1)}
  /\ \/ /\ core' = [core EXCEPT ![id].limit = writes'] /\ UNCHANGED gone
        /\ wanted' = IF id \in DOMAIN wanted THEN [wanted EXCEPT ![id].limit = writes'] ELSE wanted
     \/ /\ id # Main /\ core' = Restrict(core, DOMAIN core \ {id}) /\ gone' = gone \cup {id}
        /\ wanted' = Restrict(wanted, DOMAIN wanted \ {id})
  /\ UNCHANGED <<store, pipe, list, form, forms>>

QfNext ==
  \/ EventArrives \/ CoreHandles \/ Listed \/ Submitted \/ Saved \/ Deleted
  \/ Submit \/ CancelForm
  \/ \E id \in Ids : SaveLimit(id) \/ Delete(id) \/ ShowList(id) \/ Outside(id)
  \/ \E id \in Ids \cup {New} : OpenForm("rename", id) \/ OpenForm("schedule", id)

QfSpec == QfInit /\ [][QfNext]_qfVars

-----------------------------------------------------------------------------
QfTypeOK ==
  /\ DOMAIN core \subseteq Ids /\ DOMAIN store \subseteq Ids /\ DOMAIN wanted \subseteq Ids
  /\ list \in Ids /\ events \in Nat /\ forms \in 0 .. MaxForms /\ raced \subseteq Ids

\* Once every call is answered the window shows the core's entries.
ListFollows == ~Busy => store = core

\* A save writes the whole entry, and still only changes what it is about: a
\* change of anybody stays, and what was deleted stays deleted, except in an
\* entry that was saved from a copy older than a change of it.
ChangesStay == ~Busy =>
  /\ DOMAIN core \ raced = DOMAIN wanted \ raced
  /\ \A id \in DOMAIN core \ raced : core[id] = wanted[id]

\* The bar above a list is the bar of the list's queue, also just after one
\* was made or deleted, unless others deleted it, it was chosen or its new
\* name answered while it was being deleted, or it was saved from an older
\* copy.
BarIsOfList == list \in gone \cup raced \/ Bar = list
===============================================================================
