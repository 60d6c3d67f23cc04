------------------------------- MODULE Updates -------------------------------
(***************************************************************************)
(* Where the application looks for a newer version: once after launch      *)
(* (useUpdateCheck in app/src/App.tsx), in the About dialog (app/src/app   *)
(* AboutDialog.tsx) and in the general settings (Updates in app/src/views  *)
(* SettingsView.tsx).                                                      *)
(*                                                                         *)
(* External: the feed answers a check with none, a version or an error,    *)
(* in any order; installing opens the release page, restarts the program   *)
(* or fails.  Bounds: MaxChecks checks, MaxOpens openings of the dialog,   *)
(* MaxSwitches changes of the setting.                                     *)
(***************************************************************************)
EXTENDS Naturals, FiniteSets, Sequences

CONSTANTS MaxChecks, MaxOpens, MaxSwitches

UpdatesAssumption == {MaxChecks, MaxOpens, MaxSwitches} \subseteq Nat

VARIABLES
  enabled, timers, launch, toasts, switches,   \* after launch
  open, opens, update, error, busy, last,      \* the About dialog; what its last check was answered
  row, rowLast,                                \* the row of the settings, likewise
  calls, checks                                \* checks and installations under way; checks made

launchVars == <<enabled, timers, launch, toasts, switches>>
aboutVars == <<open, opens, update, error, busy, last>>
rowVars == <<row, rowLast>>
udVars == <<launchVars, aboutVars, rowVars, calls, checks>>

Answers == {"none", "new", "failed"}

UdInit ==
  /\ enabled \in BOOLEAN /\ timers = (IF enabled THEN 1 ELSE 0) /\ launch = 0 /\ toasts = 0 /\ switches = 0
  /\ open = 0 /\ opens = 0 /\ update = "checking" /\ error = FALSE /\ busy = FALSE /\ last = "checking"
  /\ row = [busy |-> FALSE, info |-> "unknown", error |-> FALSE] /\ rowLast = "unknown"
  /\ calls = {} /\ checks = 0

Check == checks < MaxChecks /\ checks' = checks + 1

\* A call of a place, made by the n-th opening of it.
Call(place, kind) == calls' = calls \cup {[place |-> place, kind |-> kind, no |-> opens]}

-----------------------------------------------------------------------------
(* After launch: a timer runs while checking is wanted.                     *)

\* Mutated form: the timer goes on when checking is switched off.
SwitchedLeaves(on) == timers' = IF on THEN timers + 1 ELSE timers

Switched(on) == timers' = IF on THEN 1 ELSE 0

SetCheckUpdates ==
  /\ switches < MaxSwitches /\ switches' = switches + 1
  /\ enabled' = ~enabled /\ Switched(enabled')
  /\ UNCHANGED <<launch, toasts, aboutVars, rowVars, calls, checks>>

TimerFires ==
  /\ timers > 0 /\ timers' = timers - 1 /\ Check /\ launch' = launch + 1
  /\ UNCHANGED <<enabled, toasts, switches, aboutVars, rowVars, calls>>

\* An error is no news.
LaunchAnswered(a) ==
  /\ launch > 0 /\ launch' = launch - 1 /\ toasts' = IF a = "new" THEN toasts + 1 ELSE toasts
  /\ UNCHANGED <<enabled, timers, switches, aboutVars, rowVars, calls, checks>>

-----------------------------------------------------------------------------
(* The About dialog: checks when it opens, and again by hand.               *)

CheckAbout == Check /\ Call("about", "check") /\ error' = FALSE /\ update' = "checking" /\ last' = "checking"

ShowAbout ==
  /\ open = 0 /\ opens < MaxOpens /\ opens' = opens + 1 /\ open' = opens' /\ busy' = FALSE
  /\ Check /\ calls' = calls \cup {[place |-> "about", kind |-> "check", no |-> opens']}
  /\ error' = FALSE /\ update' = "checking" /\ last' = "checking"
  /\ UNCHANGED <<launchVars, rowVars>>

\* What the dialog says, and which buttons it has.
Status ==
  CASE update = "checking" -> "Checking for updates" [] error -> "the error"
    [] update = "new" -> "Version is available" [] OTHER -> "KuDownloader is up to date"
CanInstall == update = "new" /\ ~busy
CanCheck == update = "none"

CheckNow ==
  /\ open > 0 /\ CanCheck /\ CheckAbout
  /\ UNCHANGED <<launchVars, rowVars, open, opens, busy>>

\* Mutated form: a check that failed is taken for none.
FailedQuietly == update' = "none" /\ UNCHANGED error

Failed == update' = "none" /\ error' = TRUE

\* A dialog that was closed does not hear of it.
Alive(c) == open > 0 /\ c.no = open

AboutChecked(c, a) ==
  /\ c \in calls /\ c.place = "about" /\ c.kind = "check" /\ calls' = calls \ {c}
  /\ IF Alive(c) THEN /\ last' = a
                      /\ IF a = "failed" THEN Failed ELSE update' = a /\ UNCHANGED error
     ELSE UNCHANGED <<update, error, last>>
  /\ UNCHANGED <<launchVars, rowVars, open, opens, busy, checks>>

Install ==
  /\ open > 0 /\ CanInstall /\ busy' = TRUE /\ Call("about", "install")
  /\ UNCHANGED <<launchVars, rowVars, open, opens, update, error, last, checks>>

Installed(c, ok) ==
  /\ c \in calls /\ c.place = "about" /\ c.kind = "install" /\ calls' = calls \ {c}
  /\ IF Alive(c) THEN busy' = FALSE /\ error' = (error \/ ~ok) ELSE UNCHANGED <<busy, error>>
  /\ UNCHANGED <<launchVars, rowVars, open, opens, update, last, checks>>

CloseAbout ==
  /\ open > 0 /\ open' = 0
  /\ UNCHANGED <<launchVars, rowVars, opens, update, error, busy, last, calls, checks>>

-----------------------------------------------------------------------------
(* The row of the general settings: one button, to check or to install.     *)

RowCall(kind) == calls' = calls \cup {[place |-> "row", kind |-> kind, no |-> 0]}

RowCheck ==
  /\ ~row.busy /\ row.info # "new" /\ Check /\ RowCall("check")
  /\ row' = [busy |-> TRUE, info |-> "unknown", error |-> FALSE] /\ rowLast' = "unknown"
  /\ UNCHANGED <<launchVars, aboutVars>>

RowChecked(c, a) ==
  /\ c \in calls /\ c.place = "row" /\ c.kind = "check" /\ calls' = calls \ {c} /\ rowLast' = a
  /\ row' = [busy |-> FALSE, info |-> IF a = "failed" THEN "unknown" ELSE a, error |-> a = "failed"]
  /\ UNCHANGED <<launchVars, aboutVars, checks>>

RowInstall ==
  /\ ~row.busy /\ row.info = "new" /\ RowCall("install") /\ row' = [row EXCEPT !.busy = TRUE]
  /\ UNCHANGED <<launchVars, aboutVars, rowLast, checks>>

\* When it fails the row is back to checking.
RowInstalled(c, ok) ==
  /\ c \in calls /\ c.place = "row" /\ c.kind = "install" /\ calls' = calls \ {c}
  /\ row' = IF ok THEN [row EXCEPT !.busy = FALSE] ELSE [busy |-> FALSE, info |-> "unknown", error |-> TRUE]
  /\ UNCHANGED <<launchVars, aboutVars, rowLast, checks>>

UdNext ==
  \/ SetCheckUpdates \/ TimerFires \/ ShowAbout \/ CheckNow \/ Install \/ CloseAbout \/ RowCheck \/ RowInstall
  \/ \E a \in Answers : LaunchAnswered(a) \/ \E c \in calls : AboutChecked(c, a) \/ RowChecked(c, a)
  \/ \E c \in calls, ok \in BOOLEAN : Installed(c, ok) \/ RowInstalled(c, ok)

UdSpec == UdInit /\ [][UdNext]_udVars

-----------------------------------------------------------------------------
(* Properties *)

UdTypeOK ==
  /\ {enabled, error, busy, row.busy, row.error} \subseteq BOOLEAN
  /\ open \in {0, opens} /\ opens \in 0 .. MaxOpens /\ update \in {"checking", "none", "new"}
  /\ row.info \in {"unknown", "none", "new"} /\ checks \in 0 .. MaxChecks /\ toasts + launch <= MaxChecks
  /\ \A c \in calls : c.place \in {"about", "row"} /\ c.kind \in {"check", "install"}

\* A check is only waited for while the setting says so, and only one, however
\* often the setting was changed.
ChecksOnlyEnabled == timers > 0 => enabled /\ timers = 1

\* No place says that the program is up to date unless the feed just said so: not
\* when it could not be asked, not for an answer to a dialog closed since.
UpToDateIsSaid ==
  /\ open > 0 /\ Status = "KuDownloader is up to date" => last = "none"
  /\ row.info = "none" => rowLast = "none"

=============================================================================
