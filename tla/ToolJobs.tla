------------------------------- MODULE ToolJobs -------------------------------
(***************************************************************************)
(* Installing the media tools from a window (app/src/lib/tools.ts,         *)
(* app/MediaTools.tsx, app/WelcomeGuide.tsx, EngineStatus in prefs.tsx):   *)
(* the list of jobs every screen shows, installTools, which goes through   *)
(* the missing tools one after another, and the engines as a screen knows  *)
(* them.                                                                   *)
(*                                                                         *)
(* The core is install_tool, tool_jobs and engine_info of                  *)
(* crates/kucore/src/core.rs: one download of a tool at a time, progress   *)
(* and end sent as events to every window, the answer to the call on a way *)
(* of its own.  Another window may install as well.                        *)
(* Bounds: MaxCalls calls of installTools, MaxForeign installs of others.  *)
(***************************************************************************)
EXTENDS Naturals, FiniteSets, Sequences

CONSTANTS MaxCalls, MaxForeign

ToolsAssumption == MaxCalls \in Nat \ {0} /\ MaxForeign \in Nat

VARIABLES
  running, installed, \* in the core; running: by which call, 0 for others
  events,             \* on their way, in order
  opening,            \* the answer to tool_jobs
  jobs,               \* the list of the window
  waiters,            \* doneWaiters: the call a toolDone resolves
  calls, foreign,
  info, infos,        \* the engines shown; engine_info answers on their way
  crossed,            \* the tools whose jobs the end of a foreign download, or a list read before one, left astray
  overtaken           \* an older engine_info answer came after a newer one

tjVars == <<running, installed, events, opening, jobs, waiters, calls, foreign, info, infos, crossed, overtaken>>

Tools == {"yt-dlp", "ffmpeg"}
Order == <<"yt-dlp", "ffmpeg">>
Idle == MaxCalls + 1
NoCall == [todo |-> <<>>, phase |-> "none", finished |-> "unknown"]

TjInit ==
  /\ running = [t \in Tools |-> Idle] /\ installed = {} /\ events = <<>> /\ opening = [phase |-> "asked", tools |-> {}]
  /\ jobs = [t \in Tools |-> "none"] /\ waiters = [t \in Tools |-> 0]
  /\ calls = [i \in 1 .. MaxCalls |-> NoCall] /\ foreign = 0
  /\ info = {} /\ infos = <<>> /\ crossed = {} /\ overtaken = FALSE

Listed(j) == {t \in Tools : j[t] # "none"}

-----------------------------------------------------------------------------
(* The window *)

\* Mutated form: asked again when a job begins.
ReloadedAtBegin(j) == Cardinality(Listed(j)) > Cardinality(Listed(jobs))

\* useToolInstaller: the engines are asked for when there are fewer jobs.
Reloaded(j) == Cardinality(Listed(j)) < Cardinality(Listed(jobs))

Changed(j) ==
  /\ jobs' = j
  /\ infos' = IF Reloaded(j) THEN Append(infos, [done |-> FALSE, tools |-> {}]) ELSE infos

Missing == SelectSeq(Order, LAMBDA t : t \notin info)

\* The buttons are busy while a job is listed.
Install(ts) ==
  /\ Listed(jobs) = {} /\ ts # <<>>
  /\ \E i \in 1 .. MaxCalls :
       /\ calls[i].phase = "none" /\ \A j \in 1 .. i - 1 : calls[j].phase # "none"
       /\ calls' = [calls EXCEPT ![i] = [todo |-> ts, phase |-> "next", finished |-> "unknown"]]
  /\ Changed([t \in Tools |-> IF \E k \in DOMAIN ts : ts[k] = t THEN "waiting" ELSE jobs[t]])
  /\ UNCHANGED <<running, installed, events, opening, waiters, foreign, info, crossed, overtaken>>

\* The guide and the notice install what is missing, the engines page one.
InstallMissing == Install(Missing)
InstallOne == \E t \in Tools \ info : Install(<<t>>)

\* installTools: the next tool is asked for.
Invoke(i) ==
  /\ calls[i].phase = "next"
  /\ waiters' = [waiters EXCEPT ![Head(calls[i].todo)] = i]
  /\ calls' = [calls EXCEPT ![i].phase = "asked", ![i].finished = "unknown"]
  /\ UNCHANGED <<running, installed, events, opening, jobs, foreign, info, infos, crossed, overtaken>>

\* Mutated form: what still waits stays in the list.
DropOwn(i, ts) == [t \in Tools |-> IF t \in ts THEN "none" ELSE jobs[t]]

\* The jobs of the call that still wait are taken out with those of ts.
Drop(i, ts) ==
  LET todo == {calls[i].todo[k] : k \in DOMAIN calls[i].todo} IN
    [t \in Tools |-> IF t \in ts \/ (t \in todo /\ jobs[t] = "waiting") THEN "none" ELSE jobs[t]]

\* The tools of the call that t is waited for by, if another than i takes that away.
Astray(t, i) == IF waiters[t] \in {0, i} THEN {} ELSE {t} \cup {calls[waiters[t]].todo[k] : k \in DOMAIN calls[waiters[t]].todo}

\* The call failed: without waiting for the event.
InstallFailed(i) ==
  LET t == Head(calls[i].todo) IN
    /\ calls[i].phase = "failed" /\ calls' = [calls EXCEPT ![i].phase = "ended"]
    /\ Changed(Drop(i, IF waiters[t] # 0 THEN {t} ELSE {}))
    /\ waiters' = [waiters EXCEPT ![t] = 0] /\ crossed' = crossed \cup Astray(t, i)
    /\ UNCHANGED <<running, installed, events, opening, foreign, info, overtaken>>

\* The call succeeded and its event came: the next tool; after an event that
\* says otherwise the rest is left as it is.
InstallDone(i) ==
  /\ calls[i].phase = "answered" /\ calls[i].finished # "unknown"
  /\ calls' = [calls EXCEPT ![i] =
        IF calls[i].finished = "ok" /\ Len(calls[i].todo) > 1
        THEN [todo |-> Tail(calls[i].todo), phase |-> "next", finished |-> "unknown"]
        ELSE [calls[i] EXCEPT !.phase = "ended"]]
  /\ UNCHANGED <<running, installed, events, opening, jobs, waiters, foreign, info, infos, crossed, overtaken>>

\* onCoreEvent.
HandleEvent ==
  /\ events # <<>> /\ events' = Tail(events)
  /\ LET e == Head(events) IN
     IF e.type = "toolProgress"
     THEN /\ Changed([jobs EXCEPT ![e.tool] = "downloading"])
          /\ UNCHANGED <<waiters, calls, crossed>>
     ELSE /\ Changed([jobs EXCEPT ![e.tool] = "none"])
          /\ calls' = [i \in DOMAIN calls |-> IF i = waiters[e.tool] THEN [calls[i] EXCEPT !.finished = e.result] ELSE calls[i]]
          /\ crossed' = crossed \cup Astray(e.tool, e.by)
          /\ waiters' = [waiters EXCEPT ![e.tool] = 0]
  /\ UNCHANGED <<running, installed, opening, foreign, info, overtaken>>

\* The jobs that ran when the window opened.
ToolJobs ==
  /\ opening.phase = "answered" /\ opening' = [opening EXCEPT !.phase = "handled"]
  /\ Changed([t \in Tools |-> IF t \in opening.tools /\ jobs[t] = "none" THEN "downloading" ELSE jobs[t]])
  /\ crossed' = crossed \cup {t \in opening.tools : running[t] = Idle /\ \A k \in DOMAIN events : events[k].tool # t}
  /\ UNCHANGED <<running, installed, events, waiters, calls, foreign, info, overtaken>>

\* The engines are shown as they were when the core looked.
InfoArrives(k) ==
  /\ k \in DOMAIN infos /\ infos[k].done
  /\ info' = infos[k].tools
  /\ infos' = [j \in 1 .. Len(infos) - 1 |-> IF j < k THEN infos[j] ELSE infos[j + 1]]
  /\ overtaken' = (overtaken \/ k > 1)
  /\ UNCHANGED <<running, installed, events, opening, jobs, waiters, calls, foreign, crossed>>

-----------------------------------------------------------------------------
(* The core *)

\* A tool that is being downloaded already is refused.
CoreInstalls(i) ==
  /\ calls[i].phase = "asked"
  /\ LET t == Head(calls[i].todo) IN
     IF running[t] # Idle THEN calls' = [calls EXCEPT ![i].phase = "failed"] /\ UNCHANGED running
     ELSE running' = [running EXCEPT ![t] = i] /\ calls' = [calls EXCEPT ![i].phase = "running"]
  /\ UNCHANGED <<installed, events, opening, jobs, waiters, foreign, info, infos, crossed, overtaken>>

CoreForeign(t) ==
  /\ foreign < MaxForeign /\ foreign' = foreign + 1 /\ running[t] = Idle /\ t \notin installed
  /\ running' = [running EXCEPT ![t] = 0]
  /\ UNCHANGED <<installed, events, opening, jobs, waiters, calls, info, infos, crossed, overtaken>>

Event(type, t, result) == [type |-> type, tool |-> t, result |-> result, by |-> running[t]]

CoreProgress(t) ==
  /\ running[t] # Idle /\ \A k \in DOMAIN events : events[k].tool # t
  /\ jobs[t] # "downloading"
  /\ events' = Append(events, Event("toolProgress", t, "none"))
  /\ UNCHANGED <<running, installed, opening, jobs, waiters, calls, foreign, info, infos, crossed, overtaken>>

\* A download that ends well tells its whole size first.
CoreEnds(t, result) ==
  /\ running[t] # Idle
  /\ running' = [running EXCEPT ![t] = Idle]
  /\ installed' = IF result = "ok" THEN installed \cup {t} ELSE installed
  /\ events' = events \o (IF result = "ok" THEN <<Event("toolProgress", t, "none")>> ELSE <<>>)
                     \o <<Event("toolDone", t, result)>>
  /\ calls' = [i \in DOMAIN calls |->
       IF i = running[t] THEN [calls[i] EXCEPT !.phase = IF result = "ok" THEN "answered" ELSE "failed"] ELSE calls[i]]
  /\ UNCHANGED <<opening, jobs, waiters, foreign, info, infos, crossed, overtaken>>

CoreToolJobs ==
  /\ opening.phase = "asked" /\ opening' = [phase |-> "answered", tools |-> {t \in Tools : running[t] # Idle}]
  /\ UNCHANGED <<running, installed, events, jobs, waiters, calls, foreign, info, infos, crossed, overtaken>>

CoreInfo(k) ==
  /\ k \in DOMAIN infos /\ ~infos[k].done
  /\ infos' = [infos EXCEPT ![k] = [done |-> TRUE, tools |-> installed]]
  /\ UNCHANGED <<running, installed, events, opening, jobs, waiters, calls, foreign, info, crossed, overtaken>>

CallStep(i) == Invoke(i) \/ InstallFailed(i) \/ InstallDone(i) \/ CoreInstalls(i)

TjNext ==
  \/ InstallMissing \/ InstallOne \/ HandleEvent \/ ToolJobs \/ CoreToolJobs
  \/ \E i \in 1 .. MaxCalls : CallStep(i)
  \/ \E t \in Tools : CoreForeign(t) \/ CoreProgress(t) \/ \E r \in {"ok", "error"} : CoreEnds(t, r)
  \/ \E k \in 1 .. Len(infos) : CoreInfo(k) \/ InfoArrives(k)

TjSpec == TjInit /\ [][TjNext]_tjVars

-----------------------------------------------------------------------------
TjTypeOK ==
  /\ running \in [Tools -> 0 .. Idle] /\ installed \subseteq Tools
  /\ jobs \in [Tools -> {"none", "waiting", "downloading"}] /\ waiters \in [Tools -> 0 .. MaxCalls]
  /\ info \subseteq Tools /\ \A i \in DOMAIN calls : Len(calls[i].todo) <= 2

\* Nothing is under way.
Still == events = <<>> /\ \A t \in Tools : running[t] = Idle
Quiet == Still /\ infos = <<>>

\* Once nothing is under way every screen knows which tools are installed,
\* unless answers overtook each other.
InfoFollows == Quiet /\ ~overtaken => info = installed

\* Nothing stays in the list of jobs for ever, also not what waited for an
\* install that failed: once the core installs nothing and every call has
\* returned the list is empty.  It keeps the tools of a call whose wait was ended
\* by the download of somebody else, and one that tool_jobs listed and that ended
\* before the answer came; nothing else.
JobsEnd ==
  Still /\ opening.phase = "handled" /\ (\A i \in DOMAIN calls : calls[i].phase \in {"none", "ended"})
    => Listed(jobs) \subseteq crossed
===============================================================================
