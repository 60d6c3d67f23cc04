---------------------------- MODULE SettingsFields ----------------------------
(***************************************************************************)
(* The sections of the settings and the fields they show (app/src/views    *)
(* SettingsView.tsx, app/src/app/prefs.tsx): what can be put in a field,   *)
(* what leaving it saves, and what the core makes of that (sanitize in     *)
(* crates/kucore/src/settings.rs).                                         *)
(*                                                                         *)
(* The module looks at one field, row, of any section.  A number is kept   *)
(* in tenths of the unit shown; MiB stands for 1024 * 1024 and must be a   *)
(* multiple of ten.  How several saves meet is modelled in Settings.       *)
(* Bounds: MaxEdits edits of the field, MaxVisits changes of the section.  *)
(***************************************************************************)
EXTENDS Integers, FiniteSets, Sequences

CONSTANTS MiB, MaxEdits, MaxVisits, IsWindows

SettingsFieldsAssumption ==
  /\ MiB \in Nat \ {0} /\ MiB % 10 = 0 /\ {MaxEdits, MaxVisits} \subseteq Nat /\ IsWindows \in BOOLEAN

VARIABLES
  row,              \* the field looked at
  core, stored,     \* its value in the core; as the window knows it
  sent,             \* the value last sent to the core
  draft, touched,   \* what the field holds; since it was last left
  saving, refused,  \* a save under way; the last one failed
  shown, asked,     \* the section on the page; the one last asked for from elsewhere
  custom, hover,    \* settings that other fields depend on: another scanner is used, the button is shown
  edits, visits

sfVars == <<row, core, stored, sent, draft, touched, saving, refused, shown, asked, custom, hover, edits, visits>>

-----------------------------------------------------------------------------
(* The fields *)

Field(kind, key, min, max, step, scale, options) ==
  [kind |-> kind, key |-> key, min |-> min, max |-> max, step |-> step, scale |-> scale, options |-> options]

Switch(key) == Field("switch", key, 0, 0, 10, 1, {"on", "off"})
Text(key) == Field("text", key, 0, 0, 10, 1, {"a", "b"})
ListOf(key) == Field("list", key, 0, 0, 10, 1, {"zip", ".ZIP"})
Folder(key) == Field("folder", key, 0, 0, 10, 1, {"a", "b"})
Select(key, options) == Field("select", key, 0, 0, 10, 1, options)
Number(key, min, max) == Field("number", key, min, max, 10, 1, {})

\* Mutated form: the timeouts may be zero.
ConnectionLoose ==
  {Text(k) : k \in {"proxy", "proxyUser", "proxyPass", "noProxy", "userAgent"}} \cup {Switch("checkCertificate")}
  \cup {Number("maxTries", 0, 100), Number("retryWait", 0, 600), Number("autoRetry", 0, 20),
        Number("timeout", 0, 600), Number("connectTimeout", 0, 300)}

General == {Switch(k) : k \in {"startWithOs", "minimizeToTray", "clipboardMonitor", "checkUpdates"}}

Downloads ==
  {Folder("downloadDir"), Switch("useCategories"), Number("maxConcurrent", 1, 32),
   Select("defaultConnections", {"0", "1", "32"}), Select("fileExists", {"rename", "overwrite", "skip"}),
   Select("virusScan", {"off", "custom"} \cup (IF IsWindows THEN {"defender"} ELSE {}))}
  \cup (IF custom THEN {Text("virusScanner"), Text("virusScannerArgs")} ELSE {})

Connection ==
  {Text(k) : k \in {"proxy", "proxyUser", "proxyPass", "noProxy", "userAgent"}} \cup {Switch("checkCertificate")}
  \cup {Number("maxTries", 0, 100), Number("retryWait", 0, 600), Number("autoRetry", 0, 20),
        Number("timeout", 5, 600), Number("connectTimeout", 5, 300)}

\* Smaller files stay in the browser: shown in MB, kept in bytes.
Browser ==
  {Switch("interceptDownloads"), Switch("confirmBrowserDownloads"), ListOf("interceptExtensions"), ListOf("skipDomains"),
   Field("number", "interceptMinSize", 0, 1024, 5, MiB, {})}

\* The sites' switches are disabled while no button is shown.
Media ==
  {Switch(k) : k \in {"hoverButton", "mediaDetection", "subtitles", "embedThumbnail"}}
  \cup (IF hover THEN {Switch("adapters")} ELSE {})
  \cup {Select("videoHeight", {"2160", "360"}), Select("videoContainer", {"mp4", "mkv", "webm"}),
        Select("audioFormat", {"m4a", "mp3"}), Select("audioBitrate", {"320", "128"}),
        Select("cookiesFromBrowser", {"", "firefox"})}
  \cup {Text("subLangs"), Folder("videoDir"), Text("cookiesFile")}

\* A ratio is typed in steps of a tenth.
Torrent ==
  {Field("number", "seedRatio", 0, 100, 1, 1, {}), Number("seedTime", 0, 100000), Number("btMaxPeers", 1, 1000),
   Text("btListenPort"), Switch("enableDht")}

Notifications == {Switch(k) : k \in {"notifyComplete", "notifyError", "notifyQueueDone", "showProgressWindow"}}

Appearance ==
  {Select("theme", {"light", "dark", "system"}), Select("accent", {"blue", "red"}),
   Select("darkPalette", {"default", "black"}), Switch("compact"), Select("language", {"system", "en"})}

Advanced ==
  {Select("httpEngine", {"kuhttp", "aria2"})} \cup {Text(k) : k \in {"aria2Path", "ytdlpPath", "ffmpegPath", "updateEndpoint"}}

Sections == {"general", "downloads", "connection", "speed", "scheduler", "browser", "media", "torrent", "notifications",
             "appearance", "advanced"}

\* The page of a section; speed and scheduler have fields of their own kinds (Settings, PowerActions).
Rows(s) ==
  CASE s = "general" -> General [] s = "downloads" -> Downloads [] s = "connection" -> Connection
    [] s = "browser" -> Browser [] s = "media" -> Media [] s = "torrent" -> Torrent
    [] s = "notifications" -> Notifications [] s = "appearance" -> Appearance [] s = "advanced" -> Advanced
    [] OTHER -> {}

-----------------------------------------------------------------------------
(* What the core keeps of a value *)

Clamp(n, lo, hi) == IF n < lo THEN lo ELSE IF n > hi THEN hi ELSE n

Limits == [maxConcurrent |-> <<1, 32>>, maxTries |-> <<0, 100>>, timeout |-> <<5, 600>>, connectTimeout |-> <<5, 300>>,
           retryWait |-> <<0, 600>>, autoRetry |-> <<0, 20>>, btMaxPeers |-> <<1, 1000>>]
Accepted == [fileExists |-> {"rename", "overwrite", "skip"}, virusScan |-> {"off", "defender", "custom"},
             httpEngine |-> {"aria2", "kuhttp"}, theme |-> {"light", "dark", "system"}]
Fallback == [fileExists |-> "rename", virusScan |-> "off", httpEngine |-> "aria2", theme |-> "system"]

Sanitized(v) ==
  CASE row.key \in DOMAIN Limits -> Clamp(v, Limits[row.key][1], Limits[row.key][2])
    [] row.key \in DOMAIN Accepted -> IF v \in Accepted[row.key] THEN v ELSE Fallback[row.key]
    [] row.kind = "list" -> "zip"
    [] OTHER -> v

-----------------------------------------------------------------------------
(* A field: numbers are shown in tenths of a unit *)

Shown(v) == IF row.kind = "number" THEN (v * 10) \div row.scale ELSE v

\* Math.round of a value and its scale.
Stored(n) == IF row.kind = "number" THEN (n * row.scale + 5) \div 10 ELSE n

\* Numbers of every kind are typed, those past the ends too; nothing counts as 0.
Typed == IF row.kind = "number" THEN {-10, 0, row.step, 10 * row.max, 10 * row.max + 10} ELSE row.options

Starts == IF row.kind = "number" THEN {row.max * row.scale} ELSE row.options \ {".ZIP"}

SfInit ==
  /\ custom \in BOOLEAN /\ hover \in BOOLEAN
  /\ row \in UNION {Rows(s) : s \in Sections}
  /\ stored \in Starts /\ core = stored /\ sent = stored /\ draft = Shown(stored)
  /\ touched = FALSE /\ saving = FALSE /\ refused = FALSE
  /\ asked = "general" /\ shown = "general" /\ edits = 0 /\ visits = 0

Visible == row \in Rows(shown)

\* Typed in a field that keeps a draft, or chosen at once.
Type(v) ==
  /\ Visible /\ row.kind \in {"number", "text", "list"} /\ edits < MaxEdits /\ edits' = edits + 1
  /\ draft' = v /\ touched' = TRUE
  /\ UNCHANGED <<row, core, stored, sent, saving, refused, shown, asked, custom, hover, visits>>

Save(v) == ~saving /\ saving' = TRUE /\ sent' = v /\ refused' = FALSE

\* Mutated form: a number the field already stands for leaves the draft as typed.
CommitKeeps ==
  LET n == IF row.kind = "number" THEN Clamp(draft, 10 * row.min, 10 * row.max) ELSE draft IN
    /\ touched /\ touched' = FALSE
    /\ IF n # Shown(stored) THEN Save(Stored(n)) ELSE refused' = FALSE /\ UNCHANGED <<saving, sent>>
    /\ UNCHANGED <<row, core, stored, draft, shown, asked, custom, hover, edits, visits>>

\* Leaving the field, or Enter: the number is brought into the field's range.
Commit ==
  LET n == IF row.kind = "number" THEN Clamp(draft, 10 * row.min, 10 * row.max) ELSE draft IN
    /\ touched /\ touched' = FALSE
    /\ IF n # Shown(stored) THEN Save(Stored(n)) /\ draft' = draft
       ELSE draft' = Shown(stored) /\ refused' = FALSE /\ UNCHANGED <<saving, sent>>
    /\ UNCHANGED <<row, core, stored, shown, asked, custom, hover, edits, visits>>

Choose(v) ==
  /\ Visible /\ row.kind \in {"switch", "select", "folder"} /\ edits < MaxEdits /\ edits' = edits + 1
  /\ v # stored /\ Save(v)
  /\ UNCHANGED <<row, core, stored, draft, touched, shown, asked, custom, hover, visits>>

\* The core saves and answers with all settings; the field follows its value.
Saved ==
  /\ saving /\ saving' = FALSE
  /\ core' = Sanitized(sent) /\ stored' = core'
  /\ draft' = IF stored' # stored THEN Shown(stored') ELSE draft
  /\ UNCHANGED <<row, sent, touched, refused, shown, asked, custom, hover, edits, visits>>

\* It could not be saved: a toast, and the field stays as it is.
NotSaved ==
  /\ saving /\ saving' = FALSE /\ sent' = stored /\ refused' = TRUE
  /\ UNCHANGED <<row, core, stored, draft, touched, shown, asked, custom, hover, edits, visits>>

-----------------------------------------------------------------------------
(* The sections *)

\* A field is left before another section is shown, and starts over when it is back.
ShowSection(s) ==
  /\ visits < MaxVisits /\ visits' = visits + 1 /\ ~touched /\ shown' = s
  /\ draft' = IF Visible THEN Shown(stored) ELSE draft
  /\ UNCHANGED <<row, core, stored, sent, touched, saving, refused, asked, custom, hover, edits>>

\* openSettings from elsewhere shows a section, unless it is the one asked for last.
OpenSettings(s) ==
  /\ visits < MaxVisits /\ visits' = visits + 1 /\ ~touched
  /\ asked' = s /\ shown' = IF s # asked THEN s ELSE shown
  /\ draft' = IF Visible THEN Shown(stored) ELSE draft
  /\ UNCHANGED <<row, core, stored, sent, touched, saving, refused, custom, hover, edits>>

SfNext ==
  \/ \E v \in Typed : Type(v)
  \/ row.kind # "number" /\ \E v \in row.options : Choose(v)
  \/ Commit \/ Saved \/ NotSaved
  \/ \E s \in Sections : ShowSection(s)
  \/ \E s \in {"general", "downloads"} : OpenSettings(s)

SfSpec == SfInit /\ [][SfNext]_sfVars

-----------------------------------------------------------------------------
(* Properties *)

SfTypeOK ==
  /\ row \in UNION {Rows(s) : s \in Sections} /\ {shown, asked} \subseteq Sections
  /\ {touched, saving, refused, custom, hover} \subseteq BOOLEAN
  /\ edits \in 0 .. MaxEdits /\ visits \in 0 .. MaxVisits

\* The core keeps what a field sends it: the ranges and choices the fields offer
\* are within the ones the core brings every setting back to.  (Lists are put
\* into one form by the core.)
CoreKeeps == ~saving /\ row.kind # "list" => core = sent

\* A field that was left shows the setting: what was typed has been saved or is
\* gone, unless saving it failed.  Not so for a ratio in tenths, which is saved
\* in whole numbers.
FieldShowsStored ==
  row.kind = "number" /\ row.step * row.scale >= 10 /\ ~touched /\ ~saving /\ ~refused => draft = Shown(core)

=============================================================================
