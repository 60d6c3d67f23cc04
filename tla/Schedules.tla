------------------------------ MODULE Schedules ------------------------------
(***************************************************************************)
(* A schedule from the form it is made in (views/ScheduledView.tsx) to the *)
(* core that starts its queue by it (schedules and run_schedules in        *)
(* kucore/src/core.rs).                                                    *)
(*                                                                         *)
(* Time is counted in slots, SlotsPerDay to a day and Week days to a week; *)
(* the local clock is Offset slots ahead of UTC.  A tick of the scheduler  *)
(* is two steps, for it awaits the queue's start and stop; it takes the    *)
(* time and a copy of the schedule in the first.  The name, the queue, the *)
(* speed and what follows go the way of the rest and are left out.  The    *)
(* queue is external: it starts or refuses, and stops.  There is one       *)
(* schedule, made again when the core is done with the deleted one.        *)
(* Bounds: LastSlot, MaxEdits changes in forms and of the switch, MaxSaves *)
(* saves, MaxRestarts restarts.                                            *)
(***************************************************************************)
EXTENDS Integers, FiniteSets

CONSTANTS SlotsPerDay, Week, Offset, LastSlot, Times, Stops, MaxEdits, MaxSaves, MaxRestarts

SchedulesAssumption ==
  /\ {SlotsPerDay, Week} \subseteq Nat \ {0} /\ {LastSlot, MaxEdits, MaxSaves, MaxRestarts} \subseteq Nat
  /\ Offset \in 0 .. SlotsPerDay /\ Times \cup Stops \subseteq 0 .. SlotsPerDay - 1

VARIABLES
  now,
  mem, row,                \* the schedule in the core's memory, in the database
  active, running,         \* its end is watched (schedule_active); its queue runs by it
  tick, copy, at,          \* the step awaited, the copy and the time it was taken at
  form, drawn,             \* the dialog; the date of today it last showed
  opened, untouched,       \* what it was opened for; nothing was changed in it
  edits, saves, restarts,
  begun, count,            \* the copy and the time of the last start; the starts of its day
  stale,                   \* a start or stop met a change of the schedule, or a form opened before it
  unwatched                \* the schedule was changed, or the core restarted, while its queue ran

coreVars == <<mem, row, active, running, tick, copy, at, begun, count, unwatched>>
formVars == <<form, drawn, opened, untouched>>
scVars == <<now, coreVars, formVars, edits, saves, restarts, stale>>

Never == -1
Schedule(on, start, stop, days, date, last) ==
  [enabled |-> on, start |-> start, stop |-> stop, days |-> days, date |-> date, lastStart |-> last]
NoSchedule == Schedule(FALSE, 0, Never, {}, Never, Never)

Day(t) == t \div SlotsPerDay
Hour(t) == t % SlotsPerDay
Weekday(day) == (day % Week) + 1
Today == Day(now)
UtcToday == Day(now - Offset)   \* new Date().toISOString()

Closed == [open |-> FALSE, s |-> NoSchedule, repeat |-> "daily", error |-> FALSE]
FirstStart == CHOOSE t \in Times : \A u \in Times : u <= t

ScInit ==
  /\ now = SlotsPerDay /\ mem = NoSchedule /\ row = NoSchedule
  /\ active = FALSE /\ running = FALSE /\ tick = "idle" /\ copy = NoSchedule /\ at = 0
  /\ form = Closed /\ drawn = 0 /\ opened = NoSchedule /\ untouched = FALSE
  /\ edits = 0 /\ saves = 0 /\ restarts = 0 /\ begun = [s |-> NoSchedule, at |-> 0] /\ count = 0
  /\ stale = FALSE /\ unwatched = FALSE

-----------------------------------------------------------------------------
(* What the page says of a schedule *)

\* When it starts: its date, every day, or its days; from and to.
describeSchedule(s) ==
  [ on |-> IF s.date # Never THEN {<<"date", s.date>>}
           ELSE IF s.days = {} \/ Cardinality(s.days) = Week THEN {<<"every day", 0>>}
           ELSE {<<"day", d>> : d \in s.days},
    from |-> s.start, to |-> s.stop ]

SaidOn(said, day) == {<<"date", day>>, <<"every day", 0>>, <<"day", Weekday(day)>>} \cap said.on # {}

-----------------------------------------------------------------------------
(* The form *)

Open(s, initial) ==
  /\ ~form.open
  /\ form' = [open |-> TRUE, s |-> s, error |-> FALSE,
              repeat |-> IF initial.date # Never THEN "once" ELSE IF initial.days # {} THEN "days" ELSE "daily"]
  /\ opened' = s /\ untouched' = TRUE /\ drawn' = UtcToday
  /\ UNCHANGED <<now, coreVars, edits, saves, restarts, stale>>

NewSchedule ==
  mem = NoSchedule /\ tick = "idle" /\ Open(Schedule(TRUE, FirstStart, Never, {}, Never, Never), NoSchedule)

\* Mutated form: the form begins with every day.
EditAsDaily == mem # NoSchedule /\ Open(mem, NoSchedule)

Edit == mem # NoSchedule /\ Open(mem, mem)

Close == form' = Closed /\ drawn' = 0 /\ opened' = NoSchedule /\ untouched' = FALSE

CloseForm == form.open /\ Close /\ UNCHANGED <<now, coreVars, edits, saves, restarts, stale>>

Set(f) ==
  /\ form.open /\ edits < MaxEdits /\ edits' = edits + 1
  /\ form' = f /\ untouched' = FALSE /\ drawn' = UtcToday
  /\ UNCHANGED <<now, coreVars, opened, saves, restarts, stale>>

SetRepeat == \E r \in {"daily", "days", "once"} \ {form.repeat} : Set([form EXCEPT !.repeat = r])
ToggleDay ==
  \E d \in 1 .. Week :
    form.repeat = "days" /\ Set([form EXCEPT !.s.days = IF d \in @ THEN @ \ {d} ELSE @ \cup {d}])
SetDate == \E d \in {Today, Today + 1} : form.repeat = "once" /\ Set([form EXCEPT !.s.date = d])
SetStart == \E t \in Times \ {form.s.start} : Set([form EXCEPT !.s.start = t])
SetStop == \E t \in (Stops \cup {Never}) \ {form.s.stop} : Set([form EXCEPT !.s.stop = t])

\* The schedule as the form shows it.
Shown ==
  CASE form.repeat = "days" -> [form.s EXCEPT !.date = Never]
    [] form.repeat = "once" -> [form.s EXCEPT !.days = {}, !.date = IF @ = Never THEN drawn ELSE @]
    [] OTHER -> [form.s EXCEPT !.days = {}, !.date = Never]

\* Mutated form: only a date that was chosen is sent.
PayloadChosen ==
  [form.s EXCEPT !.days = IF form.repeat = "days" THEN @ ELSE {}, !.date = IF form.repeat = "once" THEN @ ELSE Never]

\* What is sent: without a date chosen, today's.
Payload ==
  [form.s EXCEPT !.days = IF form.repeat = "days" THEN @ ELSE {},
                 !.date = IF form.repeat # "once" THEN Never ELSE IF @ = Never THEN UtcToday ELSE @]

\* The core takes it whole; another start time arms it again for today.
Save(s) ==
  /\ saves < MaxSaves /\ saves' = saves + 1
  /\ mem' = [s EXCEPT !.lastStart = IF mem # NoSchedule /\ mem.start # s.start THEN Never ELSE @]
  /\ row' = mem' /\ stale' = (stale \/ tick # "idle" \/ s.lastStart # mem.lastStart)
  /\ unwatched' = (unwatched \/ running) /\ count' = IF mem.start # s.start THEN 0 ELSE count
  /\ UNCHANGED <<now, active, running, tick, copy, at, begun, restarts>>

Submit ==
  /\ form.open
  /\ IF form.repeat = "days" /\ form.s.days = {}
     THEN /\ form' = [form EXCEPT !.error = TRUE] /\ drawn' = UtcToday
          /\ UNCHANGED <<now, coreVars, opened, untouched, edits, saves, restarts, stale>>
     ELSE Save(Payload) /\ Close /\ UNCHANGED edits

\* The switch beside it.
Toggle ==
  /\ mem # NoSchedule /\ ~form.open /\ edits < MaxEdits /\ edits' = edits + 1
  /\ Save([mem EXCEPT !.enabled = ~@]) /\ UNCHANGED formVars

\* The end of its queue is no longer watched for.
Delete ==
  /\ mem # NoSchedule /\ ~form.open /\ edits < MaxEdits /\ edits' = edits + 1
  /\ mem' = NoSchedule /\ row' = NoSchedule /\ active' = FALSE
  /\ stale' = (stale \/ tick # "idle") /\ unwatched' = (unwatched \/ running) /\ count' = 0
  /\ UNCHANGED <<now, running, tick, copy, at, begun, formVars, saves, restarts>>

-----------------------------------------------------------------------------
(* The core *)

\* Mutated form: the days count for a schedule of one date as well.
DayOkAnyway(s, t) == s.days = {} \/ Weekday(Day(t)) \in s.days

DayOk(s, t) == IF s.date # Never THEN s.date = Day(t) ELSE s.days = {} \/ Weekday(Day(t)) \in s.days

\* A slot is an hour: without an end it is started within one.
InWindow(s, t) ==
  IF s.stop = Never THEN Hour(t) = s.start
  ELSE IF s.start <= s.stop THEN Hour(t) >= s.start /\ Hour(t) < s.stop
  ELSE Hour(t) >= s.start \/ Hour(t) < s.stop

\* Mutated form: an end is only looked for on the days of the schedule.
StopDueOnDays(s) == active /\ ~InWindow(s, now) /\ DayOk(s, now)

StopDue(s) == active /\ ~InWindow(s, now)

Begin(step) ==
  /\ tick = "idle" /\ mem.enabled /\ tick' = step /\ copy' = mem /\ at' = now
  /\ UNCHANGED <<now, mem, row, running, begun, count, unwatched, formVars, edits, saves, restarts, stale>>

BeginStart ==
  /\ DayOk(mem, now) /\ InWindow(mem, now) /\ mem.lastStart # Today /\ ~active
  /\ Begin("starting") /\ UNCHANGED active

BeginStop == StopDue(mem) /\ Begin("stopping") /\ active' = FALSE

\* The times go to the entry in memory; the copy is written to the database.
Wrote(last) ==
  /\ mem' = IF mem = NoSchedule THEN mem ELSE [mem EXCEPT !.lastStart = last]
  /\ row' = [copy EXCEPT !.lastStart = last]

\* Mutated form: only the database is told.
StateRowOnly(last) == row' = [copy EXCEPT !.lastStart = last] /\ UNCHANGED mem

\* Mutated form: only the entry in memory is told.
StateMemoryOnly(last) ==
  mem' = (IF mem = NoSchedule THEN mem ELSE [mem EXCEPT !.lastStart = last]) /\ UNCHANGED row

save_schedule_state(last) == Wrote(last)

\* The queue starts, or there is none any more.
Started ==
  /\ tick = "starting" /\ tick' = "idle" /\ copy' = NoSchedule /\ at' = 0
  /\ \/ /\ save_schedule_state(Day(at)) /\ active' = (copy.stop # Never /\ mem # NoSchedule) /\ running' = TRUE
        /\ begun' = [s |-> copy, at |-> at]
        /\ count' = IF Day(begun.at) = Day(at) THEN count + 1 ELSE 1
        /\ unwatched' = FALSE
     \/ UNCHANGED <<mem, row, active, running, begun, count, unwatched>>
  /\ UNCHANGED <<now, formVars, edits, saves, restarts, stale>>

Stopped ==
  /\ tick = "stopping" /\ tick' = "idle" /\ copy' = NoSchedule /\ at' = 0
  /\ save_schedule_state(copy.lastStart) /\ running' = FALSE
  /\ UNCHANGED <<now, active, begun, count, unwatched, formVars, edits, saves, restarts, stale>>

\* The scheduler looks every 15 seconds: a slot does not pass before it has.
Looked == tick = "idle" /\ ~(mem.enabled /\ StopDue(mem))

Clock == now < LastSlot /\ now' = now + 1 /\ Looked /\ UNCHANGED <<coreVars, formVars, edits, saves, restarts, stale>>

\* Whether the queue runs is in the database, that its end is watched for is not.
Restart ==
  /\ restarts < MaxRestarts /\ restarts' = restarts + 1
  /\ mem' = row /\ active' = FALSE /\ tick' = "idle" /\ copy' = NoSchedule /\ at' = 0
  /\ Close /\ stale' = (stale \/ tick # "idle") /\ unwatched' = (unwatched \/ running)
  /\ UNCHANGED <<now, row, running, begun, count, edits, saves>>

NextSchedules ==
  \/ NewSchedule \/ Edit \/ CloseForm \/ SetRepeat \/ ToggleDay \/ SetDate \/ SetStart \/ SetStop \/ Submit
  \/ Toggle \/ Delete
  \/ BeginStart \/ BeginStop \/ Started \/ Stopped \/ Clock \/ Restart

ScSpec == ScInit /\ [][NextSchedules]_scVars

-----------------------------------------------------------------------------
(* Properties *)

ScTypeOK ==
  /\ now \in SlotsPerDay .. LastSlot /\ tick \in {"idle", "starting", "stopping"}
  /\ \A s \in {mem, row, copy, form.s} : s.days \subseteq 1 .. Week /\ s.start \in 0 .. SlotsPerDay - 1
  /\ {active, running, form.open, stale, unwatched, untouched} \subseteq BOOLEAN

\* A form would send what it shows, until the day ends that it was drawn on: the days
\* or the date of a repetition chosen before do not stay behind the one shown.
SentAsShown == form.open /\ drawn = UtcToday => describeSchedule(Payload) = describeSchedule(Shown)

\* A schedule that was opened and is saved unchanged stays the schedule it is.
UntouchedStays == form.open /\ untouched => Payload = opened

\* The core starts a queue when the page says it would: on that day and in that
\* time, except for a schedule of some days only that runs past midnight.
StartsAsSaid ==
  LET said == describeSchedule(begun.s) IN
    begun.s # NoSchedule /\ (said.to = Never \/ said.from <= said.to \/ said.on = {<<"every day", 0>>}) =>
      /\ SaidOn(said, Day(begun.at))
      /\ said.to = Never \/ said.from <= said.to => Hour(begun.at) >= said.from
      /\ said.to # Never /\ said.from <= said.to => Hour(begun.at) < said.to

\* It starts its queue once a day, also across restarts, unless the schedule was
\* changed while its queue was being started, or by a form from before it.
OnceADay == ~stale => count <= 1

\* The database has the schedule as it is, unless it was changed while its queue was
\* being started or stopped.
RowIsSchedule == ~stale => row = mem

\* No slot begins with a queue still running that should have ended in the one
\* before, unless the schedule was changed while it ran.
EndsInTime ==
  running /\ begun.s.stop # Never /\ ~unwatched /\ ~stale /\ now > begun.at =>
    \/ InWindow(begun.s, now) \/ InWindow(begun.s, now - 1)
===============================================================================
