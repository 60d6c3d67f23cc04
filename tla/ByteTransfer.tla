---------------------------- MODULE ByteTransfer ----------------------------
(***************************************************************************)
(* What one download attempt promises, without segments or workers: bytes  *)
(* arrive in any order and are never lost, and the attempt succeeds only   *)
(* with all of them.  (docs/kuhttp.md: Completed "only when every range of *)
(* the segment map is written".)                                           *)
(***************************************************************************)
CONSTANT File \* the bytes of the file

VARIABLES
  resumable,  \* the server serves ranges
  got,        \* the bytes recorded as downloaded
  outcome     \* going, done, or stopped short by an error or the user

Init == resumable \in BOOLEAN /\ got = {} /\ outcome = "going"

Arrive ==
  /\ outcome = "going"
  /\ got' \in SUBSET File /\ got \subseteq got'
  /\ UNCHANGED <<resumable, outcome>>

\* A stream that cannot be resumed starts over, and with no other way.
StartOver ==
  /\ outcome = "going" /\ ~resumable
  /\ got' = {}
  /\ UNCHANGED <<resumable, outcome>>

Succeed == outcome = "going" /\ got = File /\ outcome' = "done" /\ UNCHANGED <<resumable, got>>

GiveUp == outcome = "going" /\ outcome' = "short" /\ UNCHANGED <<resumable, got>>

Next == Arrive \/ StartOver \/ Succeed \/ GiveUp

Spec == Init /\ [][Next]_<<resumable, got, outcome>>
=============================================================================
