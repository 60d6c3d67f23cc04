----------------------------- MODULE Controller -----------------------------
(***************************************************************************)
(* The adaptive connection count of a KuHTTP download (scheduler.rs).      *)
(*                                                                         *)
(* What the network gives is data: a growth step brings its full share of  *)
(* the ideal gain, a part of it, or nothing; there may be work to split    *)
(* and bytes coming in, or not.  An evaluation is a step; the others only  *)
(* take a sample.  Evaluations and the settling time after a change are    *)
(* both 2.5 s, so a change has always settled at the next evaluation.      *)
(***************************************************************************)
EXTENDS Integers, TLAPS

CONSTANTS
  Min, Max, \* Controller::min, max
  None      \* no growth step is being judged

ASSUME RangeAssumption == Min \in Nat \ {0} /\ Max \in Nat /\ Min <= Max /\ None \notin Nat

VARIABLES
  target,   \* the connection count
  fixed,    \* it was given by the user
  before,   \* the count before the last growth step (before_growth)
  fine,     \* steps of one: a coarse step failed
  plateau,  \* no more growth
  errors,   \* connection errors since the last evaluation, 2 for more
  throttled,\* 429 or 503 since then
  cooling   \* cooldown_until is ahead

vars == <<target, fixed, before, fine, plateau, errors, throttled, cooling>>

Clamp(n) == IF n < Min THEN Min ELSE IF n > Max THEN Max ELSE n

\* initial_connections: 1, 2, 4 or 6 by size.
Init ==
  /\ fixed \in BOOLEAN
  /\ IF fixed THEN target \in Min .. Max ELSE target \in {Clamp(n) : n \in {1, 2, 4, 6}}
  /\ plateau = fixed
  /\ before = None /\ fine = FALSE /\ errors = 0 /\ throttled = FALSE /\ cooling = FALSE

-----------------------------------------------------------------------------
(* The workers report what happened to their connections *)

RecordError ==
  /\ errors' = IF errors < 2 THEN errors + 1 ELSE errors
  /\ UNCHANGED <<target, fixed, before, fine, plateau, throttled, cooling>>

RecordThrottle ==
  /\ throttled' = TRUE
  /\ UNCHANGED <<target, fixed, before, fine, plateau, errors, cooling>>

CooldownEnds ==
  /\ cooling /\ cooling' = FALSE
  /\ UNCHANGED <<target, fixed, before, fine, plateau, errors, throttled>>

-----------------------------------------------------------------------------
(* tick, when an evaluation is due; both counts are taken *)

Evaluates == ~fixed /\ errors' = 0 /\ throttled' = FALSE /\ UNCHANGED fixed

\* Mutated form: half of one connection is none.
SlowDownToNothing ==
  /\ Evaluates /\ throttled
  /\ target' = target \div 2
  /\ plateau' = TRUE /\ cooling' = TRUE
  /\ UNCHANGED <<before, fine>>

\* Throttled: half of it.
SlowDown ==
  /\ Evaluates /\ throttled
  /\ target' = Clamp(IF target \div 2 > Min THEN target \div 2 ELSE Min)
  /\ plateau' = TRUE /\ cooling' = TRUE
  /\ UNCHANGED <<before, fine>>

Failing == errors >= 2 /\ target > Min

\* Repeated connection errors: one less.
Shrink ==
  /\ Evaluates /\ ~throttled /\ Failing
  /\ target' = Clamp(target - 1)
  /\ plateau' = TRUE
  /\ UNCHANGED <<before, fine, cooling>>

Calm == Evaluates /\ ~throttled /\ ~Failing

\* How many connections the judged step added.
Added == IF target > before THEN target - before ELSE 1

\* A step of more than one brought between 30 % (and 5 % of the old speed) and
\* 70 % of the ideal gain: that share of it, rounded up, is kept.
KeepShare ==
  /\ Calm /\ before # None /\ Added > 1
  /\ \E k \in 1 .. Added :
       /\ 10 * (k - 1) < 7 * Added /\ 10 * k >= 3 * Added /\ 20 * k >= before
       /\ target' = Clamp(before + k)
  /\ fine' = TRUE /\ before' = None
  /\ UNCHANGED <<plateau, cooling>>

\* Mutated form: probing goes on after a single connection did not help.
UndoAgain ==
  /\ Calm /\ before # None
  /\ target' = Clamp(before) /\ before' = None
  /\ fine' = TRUE /\ UNCHANGED plateau
  /\ UNCHANGED cooling

\* The step did not pay off.  After a coarse one single connections are tried,
\* after a single one the count settles.
Undo ==
  /\ Calm /\ before # None
  /\ target' = Clamp(before) /\ before' = None
  /\ IF fine THEN plateau' = TRUE /\ UNCHANGED fine ELSE fine' = TRUE /\ UNCHANGED plateau
  /\ UNCHANGED cooling

\* No step to judge, or one that paid off.
MayGrow == ~plateau /\ ~cooling /\ target < Max

Grow ==
  /\ Calm /\ MayGrow
  /\ before' = target
  /\ target' = Clamp(target + IF fine \/ target \div 2 < 1 THEN 1 ELSE target \div 2)
  /\ UNCHANGED <<fine, plateau, cooling>>

\* There is nothing to split, nothing comes in, or the count may not grow.
Stay ==
  /\ Calm
  /\ before' = None
  /\ UNCHANGED <<target, fine, plateau, cooling>>

Next ==
  \/ RecordError \/ RecordThrottle \/ CooldownEnds
  \/ SlowDown \/ Shrink \/ KeepShare \/ Undo \/ Grow \/ Stay

Spec == Init /\ [][Next]_vars

-----------------------------------------------------------------------------
(* Properties *)

\* The count stays between its bounds, whatever is halved, undone or added
\* to: what KuHttpWorkers takes for granted of a target.
TypeOK ==
  /\ target \in Min .. Max /\ before \in (Min .. Max) \cup {None}
  /\ fixed \in BOOLEAN /\ fine \in BOOLEAN /\ plateau \in BOOLEAN
  /\ errors \in 0 .. 2 /\ throttled \in BOOLEAN /\ cooling \in BOOLEAN

\* Exploration ends: whatever the network does, connections are not opened
\* and closed forever ("then probes one connection at a time", then settles).
Settles == <>[][target' = target]_vars

\* "The server asks us to slow down: halve and stop exploring."  No later
\* evaluation raises the count.
ThrottledStaysDown == [][cooling => target' <= target]_vars

-----------------------------------------------------------------------------
(* The connection count stays in its range for every Min and Max. *)

\* set() clamps, whatever was computed: scheduler.rs, Controller::set.
LEMMA ClampInRange == \A n \in Int : Clamp(n) \in Min .. Max
BY RangeAssumption DEF Clamp

\* tick and the reports of the workers keep the count between its bounds
\* (Controller::set), so KuHttpWorkers never sees a target of zero.
THEOREM ControllerTypeOK == Spec => []TypeOK
<1>1. Init => TypeOK
  <2>1. ASSUME Init PROVE target \in Min .. Max
    <3>1. {1, 2, 4, 6} \subseteq Int
      OBVIOUS
    <3>2. QED
      BY <2>1, <3>1, ClampInRange DEF Init
  <2>2. ASSUME Init PROVE before \in (Min .. Max) \cup {None} /\ errors \in 0 .. 2
    BY <2>2 DEF Init
  <2>3. ASSUME Init PROVE /\ fixed \in BOOLEAN /\ fine \in BOOLEAN /\ plateau \in BOOLEAN
                          /\ throttled \in BOOLEAN /\ cooling \in BOOLEAN
    BY <2>3, Zenon DEF Init
  <2>4. QED
    BY <2>1, <2>2, <2>3, Zenon DEF TypeOK
<1>2. TypeOK /\ [Next]_vars => TypeOK'
  <2> SUFFICES ASSUME TypeOK, [Next]_vars PROVE TypeOK'
    OBVIOUS
  <2> USE RangeAssumption
  <2>0. target \in Int /\ target \div 2 \in Int
    BY DEF TypeOK
  <2>1. CASE RecordError
    BY <2>1 DEF RecordError, TypeOK
  <2>2. CASE RecordThrottle
    BY <2>2 DEF RecordThrottle, TypeOK
  <2>3. CASE CooldownEnds
    BY <2>3 DEF CooldownEnds, TypeOK
  <2>4. CASE SlowDown
    <3>1. target' \in Min .. Max
      BY <2>0, <2>4, ClampInRange DEF SlowDown
    <3>2. before' \in (Min .. Max) \cup {None} /\ errors' \in 0 .. 2
      BY <2>4 DEF SlowDown, Evaluates, TypeOK
    <3>3. /\ fixed' \in BOOLEAN /\ fine' \in BOOLEAN /\ plateau' \in BOOLEAN
          /\ throttled' \in BOOLEAN /\ cooling' \in BOOLEAN
      BY <2>4, Zenon DEF SlowDown, Evaluates, TypeOK
    <3>4. QED
      BY <3>1, <3>2, <3>3, Zenon DEF TypeOK
  <2>5. CASE Shrink
    <3>1. target' \in Min .. Max
      BY <2>0, <2>5, ClampInRange DEF Shrink
    <3>2. before' \in (Min .. Max) \cup {None} /\ errors' \in 0 .. 2
      BY <2>5 DEF Shrink, Evaluates, TypeOK
    <3>3. /\ fixed' \in BOOLEAN /\ fine' \in BOOLEAN /\ plateau' \in BOOLEAN
          /\ throttled' \in BOOLEAN /\ cooling' \in BOOLEAN
      BY <2>5, Zenon DEF Shrink, Evaluates, TypeOK
    <3>4. QED
      BY <3>1, <3>2, <3>3, Zenon DEF TypeOK
  <2>6. CASE KeepShare
    <3>1. before \in Int
      BY <2>6 DEF KeepShare, TypeOK
    <3>2. Added \in Int
      BY <2>0, <3>1 DEF Added
    <3>3. PICK k \in 1 .. Added : target' = Clamp(before + k)
      BY <2>6 DEF KeepShare
    <3>4. target' \in Min .. Max
      BY <3>1, <3>2, <3>3, ClampInRange
    <3>5. before' \in (Min .. Max) \cup {None} /\ errors' \in 0 .. 2
      BY <2>6 DEF KeepShare, Calm, Evaluates
    <3>6. /\ fixed' \in BOOLEAN /\ fine' \in BOOLEAN /\ plateau' \in BOOLEAN
          /\ throttled' \in BOOLEAN /\ cooling' \in BOOLEAN
      BY <2>6, Zenon DEF KeepShare, Calm, Evaluates, TypeOK
    <3>7. QED
      BY <3>4, <3>5, <3>6, Zenon DEF TypeOK
  <2>7. CASE Undo
    <3>1. before \in Int
      BY <2>7 DEF Undo, TypeOK
    <3>2. target' \in Min .. Max
      BY <2>7, <3>1, ClampInRange DEF Undo
    <3>3. fine' \in BOOLEAN /\ plateau' \in BOOLEAN
      BY <2>7, Zenon DEF Undo, TypeOK
    <3>4. before' = None /\ cooling' = cooling /\ Evaluates
      BY <2>7, Zenon DEF Undo, Calm
    <3>5. before' \in (Min .. Max) \cup {None} /\ errors' \in 0 .. 2
      BY <3>4 DEF Evaluates
    <3>6. fixed' \in BOOLEAN /\ throttled' \in BOOLEAN /\ cooling' \in BOOLEAN
      BY <3>4, Zenon DEF Evaluates, TypeOK
    <3>7. QED
      BY <3>2, <3>3, <3>5, <3>6, Zenon DEF TypeOK
  <2>8. CASE Grow
    <3>1. target' \in Min .. Max
      BY <2>0, <2>8, ClampInRange DEF Grow
    <3>2. before' \in (Min .. Max) \cup {None} /\ errors' \in 0 .. 2
      <4>1. before' = target /\ target \in Min .. Max /\ errors' = 0
        BY <2>8, Zenon DEF Grow, Calm, Evaluates, TypeOK
      <4>2. QED
        BY <4>1
    <3>3. /\ fixed' \in BOOLEAN /\ fine' \in BOOLEAN /\ plateau' \in BOOLEAN
          /\ throttled' \in BOOLEAN /\ cooling' \in BOOLEAN
      BY <2>8, Zenon DEF Grow, Calm, Evaluates, TypeOK
    <3>4. QED
      BY <3>1, <3>2, <3>3, Zenon DEF TypeOK
  <2>9. CASE Stay
    <3>1. before' \in (Min .. Max) \cup {None} /\ errors' \in 0 .. 2
      BY <2>9 DEF Stay, Calm, Evaluates
    <3>2. /\ fixed' \in BOOLEAN /\ fine' \in BOOLEAN /\ plateau' \in BOOLEAN
          /\ throttled' \in BOOLEAN /\ cooling' \in BOOLEAN /\ target' \in Min .. Max
      BY <2>9, Zenon DEF Stay, Calm, Evaluates, TypeOK
    <3>3. QED
      BY <3>1, <3>2, Zenon DEF TypeOK
  <2>10. CASE UNCHANGED vars
    BY <2>10 DEF vars, TypeOK
  <2>11. QED
    BY <2>1, <2>2, <2>3, <2>4, <2>5, <2>6, <2>7, <2>8, <2>9, <2>10 DEF Next
<1>3. QED
  BY <1>1, <1>2, PTL DEF Spec
=============================================================================
