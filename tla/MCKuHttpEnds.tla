---------------------------- MODULE MCKuHttpEnds ----------------------------
(***************************************************************************)
(* Instances for TLC of the parts of a KuHTTP download that have to come   *)
(* to an end by themselves: the controller's exploration and an attempt    *)
(* whose target it sets.  The attempt takes any target at any time, so     *)
(* each is checked alone: part names the one that takes steps.  A redirect *)
(* target that expires is for an attempt with one connection: its worker   *)
(* counts its refreshes, while of several one can leave and be spawned     *)
(* anew with its count at zero, for as long as the server refuses the rest *)
(* of the file.                                                            *)
(***************************************************************************)
EXTENDS Controller, FiniteSets

CONSTANTS NoWorker, Workers

VARIABLES part, mode, segs, nextId, wk, conns, disk, stop, phase, fatal, remote, version

W == INSTANCE KuHttpWorkers WITH
  target <- conns,
  Total <- 4, Align <- 1, MinSplit <- 2, MaxRetries <- 1, Modes <- {"segmented", "stream"}, Initial <- 1,
  MaxConn <- 2, MaxWrite <- 2, MaxRefresh <- 1, IfRange <- FALSE, LastVersion <- 1, Blank <- 0

AttemptVars == <<mode, segs, nextId, wk, conns, disk, stop, phase, fatal, remote, version>>
Parts == <<part, vars, AttemptVars>>

PartsInit ==
  /\ part \in {"controller", "attempt", "expiring"} /\ Init /\ W!Init
  /\ part = "controller" => mode = "stream"
  /\ part # "controller" => target = Min /\ ~fixed

Control == part = "controller" /\ Next /\ UNCHANGED <<part, AttemptVars>>
Attempt == part = "attempt" /\ W!Next /\ (\A w \in Workers : wk'[w].refreshes = 0) /\ UNCHANGED <<part, vars>>
Expiring == part = "expiring" /\ W!Next /\ conns' = 1 /\ UNCHANGED <<part, vars>>

PartsNext == Control \/ Attempt \/ Expiring

\* The fairness of KuHttpWorkers, while the attempt is the one that runs.
Going(A) == part # "controller" /\ A

AttemptFairness ==
  /\ \A w \in Workers :
       /\ WF_AttemptVars(Going(W!LeaveOnStop(w) \/ W!Retire(w) \/ W!LeaveIdle(w)))
       /\ SF_AttemptVars(Going(W!ClaimPending(w) \/ W!ClaimSteal(w)))
       /\ WF_AttemptVars(Going(W!Respond(w) \/ W!FailTransient(w) \/ W!FailPermanent(w)))
       /\ WF_AttemptVars(Going(W!Receive(w) \/ W!Complete(w) \/ W!StopBody(w) \/ W!FailTransient(w)))
       /\ WF_AttemptVars(Going(W!Record(w)))
       /\ WF_AttemptVars(Going(W!JoinExited(w) \/ W!JoinFatal(w) \/ W!Drain(w)))
  /\ WF_AttemptVars(Going(W!ObserveStop)) /\ WF_AttemptVars(Going(W!EndAttempt))

PartsSpec == PartsInit /\ [][PartsNext]_Parts /\ AttemptFairness

-----------------------------------------------------------------------------
\* Controller's TypeOK and Settles are checked as they stand.  The attempt
\* ends, as stated in KuHttpWorkers.
AttemptEnds == part # "controller" ~> phase = "Ended"
=============================================================================
