---------------------------- MODULE MCKuHttpJobs ----------------------------
(***************************************************************************)
(* Instances of KuHttpJob for TLC, for three servers: one that announces a *)
(* checksum and keeps its file, while the computer may crash or lose its   *)
(* power; one of a file too small for segments, replaced once, with a      *)
(* checksum; and that of the configuration, which sends validators and     *)
(* replaces the file, while the state file may not be writable.            *)
(***************************************************************************)
EXTENDS KuHttpJob

VARIABLE server

Keeps == INSTANCE KuHttpJob WITH
  LastVersion <- 1, Initial <- 1, IfRange <- FALSE, Comparable <- FALSE, Announced <- TRUE, DiskFaults <- FALSE

Small == INSTANCE KuHttpJob WITH
  Modes <- Modes \ {"segmented"}, Initial <- 1, IfRange <- FALSE, Comparable <- FALSE, Announced <- TRUE,
  DiskFaults <- FALSE, MaxCrashes <- 0

Replaced == INSTANCE KuHttpJob WITH MaxCrashes <- 0

ServersInit == server \in {"keeps", "small", "replaced"} /\ JobInit

ServersNext ==
  \/ server = "keeps" /\ Keeps!JobNext /\ UNCHANGED server
  \/ server = "small" /\ Small!JobNext /\ UNCHANGED server
  \/ server = "replaced" /\ Replaced!JobNext /\ UNCHANGED server

ServersSpec == ServersInit /\ [][ServersNext]_<<server, allVars>>

\* The properties are those of KuHttpJob: each server has validators or a checksum,
\* and none allows what the constants of the configuration do not.
=============================================================================
