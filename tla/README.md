# A formal model of the Ku download manager

TLA+ modules, TLC runs and TLAPS proofs about this repository, a download
manager (`ku`): a Rust core (`crates/kucore`), a desktop application around it
(`app`), an Android library and application (`crates/ku-android`, `android`), a
command line, a browser extension (`extension`) and a native messaging host. All
paths below are under `src/`.

The project follows the bytes first. It starts where a mistake costs the user a
corrupt file (KuHTTP, the built-in segmented downloader) and goes outwards: the
run around the workers, the engine around the run, the list of downloads around
the engine. Around those it follows the answers: the windows, the extension and
the scripts are programs in which every call is answered later, to a screen that
has changed meanwhile.

- Section 1: the system, its components and their hazards
- Section 2: the modules and how they correspond to the code
- Section 3: what is checked, with which bounds
- Section 4: the fairness assumed
- Section 5: what is proved
- Section 6: where the code disagrees with its own words
- Section 7: what is assumed, what is not modelled
- Section 8: what could follow

`PROJECT.json` lists the same facts for tools: components, runs, theorems,
hazards, the source lines each definition stands for, and one mutation that
breaks each checked property.


## 1. The system

```
 web page <-- hover panel, page script          settings, queues,
     |             |                            schedules, prompts
 browser <--> extension --> native host --\            |
 command line ---------------------> local API --\     v
 desktop windows (React) <--> Tauri shell -------+--> KuCore --> aria2 (process)
 Android screens --------------------------------/     | | \---> yt-dlp (process per download)
                         AirSend peers <-- AirSend <---/  \----> KuHTTP (tasks in this process)
                                                       SQLite: rows, settings, queues
```

### The core

**KuHTTP segment map** (`crates/kucore/src/kuhttp/segment.rs`). State: segments
`{start, end, pos, state, worker, retries}`, shared by all workers of one
download under a mutex. Operations: claim a pending segment, steal the back half
of another worker's rest, advance, release, rewind, merge, snapshot, rebuild from
a snapshot. Correct when: segments tile the file, a segment has one owner,
positions stay inside and never go back, a split leaves both halves worth it.

**KuHTTP workers and supervising loop** (`kuhttp/worker.rs`, `kuhttp/download.rs`).
A set of tokio tasks that claim, request, read, write and record; a `select!`
loop that spawns and retires them by the controller's target, joins them, saves
now and then, and stops on pause, cancel or a fatal error. Hard: the map's lock
is free between a write and its record, so another worker may move the end of a
segment inside a write under way; the last worker to leave may leave work behind;
the remote file may be replaced between any two requests.

**KuHTTP runs, persistence and recovery** (`kuhttp/download.rs`, `resume.rs`,
`recovery.rs`, `storage.rs`). A run probes, decides whether a saved state may be
trusted, resumes or starts over, downloads, saves, verifies, renames, and may
restart itself. Hard: a crash or power loss between any two steps; data that is
written but not durable; the order of the file and the state that describes it;
a remote file replaced in a pause.

**KuHTTP connection controller** (`kuhttp/scheduler.rs`). The adaptive
connection count. Correct when it stays in its range, settles, and yields to a
server that throttles.

**KuHTTP engine and bridge** (`kuhttp/mod.rs`, `core/kuhttp_bridge.rs`). A job
table, one entry per download; a watcher task per start that reports how the run
ended. Hard: a start while the old run is still stopping; a watcher that wakes
up after a newer run took over.

**Download lifecycle of KuCore** (`core.rs`, `db.rs`). The list of entries under
a mutex, the pump that starts them, pause, resume, remove, clear, fetch again,
automatic retries, shutdown and recovery. Hard: entries change under the lock
but are written to the database after it; everything spawned runs later, on
what the entry was; calls act on what they read before.

**Schedules** (`core.rs run_schedules`). Every 15 seconds each schedule is
compared with the clock, its queue started or stopped and the schedule written
back. Hard: the copy held across awaits while a form changes the schedule,
windows past midnight, restarts. **Power actions** (`core.rs`, `power.rs`): a
drained queue starts a countdown that another one may replace and the user may
cancel.

**aria2** (`aria2.rs`), **yt-dlp** (`ytdlp.rs`), the **AirSend service**
(`airsend.rs`), **tools** (`tools.rs`), the **local API and native messaging**
(`api.rs`, `nativehost.rs`, `crates/ku-native-host`), **analysis of links**
(`probe.rs`, `grab.rs`, `classify.rs`, `smart.rs`, ...), **after a download**
(`scan.rs`, `hash.rs`): not modelled themselves; section 7 says why.

### The desktop windows (`app/src`)

State is in three places: the core, a window's stores (`lib/store.ts`,
`lib/airsend.ts`, `lib/tools.ts`) that follow the core by events and answers, and
the React state of a screen that follows the stores, its own requests and the
user. Correct when, with nothing on its way, the three agree, and when whatever
the user sends to the core is what the screen showed. Hard everywhere: events and
answers keep no common order; a request is answered to a form that has changed;
a change is saved as a whole from a copy that may be old; rows vanish below a
selection, a cursor, a menu or a question; a control is pressed twice.

### Browser, pages, packages

**Extension** (`extension/src`). The background worker takes downloads over from
the browser, keeps the media found in each tab and carries requests of menus,
pop-up and pages to the native host. It may be ended between any two steps. The
**hover panel** is its button in every page. **Page script**
(`android/.../assets/browser/page.js`): the same in the Android browser.
**Packaging** (`extension/*.mjs`, `scripts`, `app/scripts`): files in, files out,
with what earlier builds left. **Project page** (`docs/site/main.js`): frames,
observers and timeouts.

### Interactions

The pump spawns a task that calls `KuHttpEngine::download`; the engine spawns the
run and keeps its control channel; the run spawns the workers, which share the
map, the statistics and the control channel with it. Results travel back through
a `done` channel to the watcher, which locks the list and changes the entry.
Calls of the user reach the list directly and the run through its control
channel. Changes of the list leave the core as events, which the shell drops or
keeps until a window says that it is ready and then hands to every window; calls
of a window are answered on a way of their own. The orders in which these can
meet are what most hazards are about.


## 2. The modules

| Module | Models |
|---|---|
| `SegmentMap` | the map's operations as pure operators |
| `KuHttpWorkers` | one attempt: workers, ticks, joins, stops, the server (extends `SegmentMap`) |
| `ByteTransfer` | what an attempt promises, without segments |
| `KuHttpJob` | a download over its runs: probe to rename, saves, crashes (extends `KuHttpWorkers`) |
| `Controller` | the connection count, with the theorem about it |
| `DownloadLifecycle` | entries, pump, tasks, engine table, calls, database |
| `Schedules` | a schedule from its form to the start and stop of its queue |
| `PowerActions` | drained queues, countdowns, the banner |
| `Takeover` | the extension takes a download over from the browser |
| `MediaDetection` | the media found in a tab: memory, session storage, badge, pop-up |
| `HoverPanel` | the button over a video and its panel |
| `ExtensionRequests` | links and media that menus and pop-up hand over |
| `PageScript` | the Android browser's script in a page |
| `Store` | the downloads as a window knows them; prompts |
| `Settings`, `SettingsFields` | the settings as a window knows and saves them; each kind of field, with what the core makes of it |
| `QueueForms` | queues and schedules as a window shows and edits them |
| `DownloadsScreen`, `ListRows`, `DownloadLooks`, `InspectorPanel` | the list: selection and keys; drawing, order, search, drops; what each place shows of a download; details and dialogs |
| `AppFrame`, `WindowFrame`, `Overlays` | navigation and shortcuts; language, theme, window buttons, graph; toasts, menus, dialogs |
| `AddDialog` | the dialog that adds downloads, with duplicates and torrents |
| `VideoScreen`, `LinkScreens` | the screens that find links: videos; the links of a page (grabber), a pattern of addresses (batch) |
| `ProgressWindow` | the window of one download |
| `AirSendScreen`, `AirSendPage` | offers, prompts, PINs, transfers; switch, names, devices around |
| `ToolJobs`, `BrowserSetup`, `Updates` | installing tools; setting up browsers and the first launch; looking for versions |
| `Packaging` | the builds and what they bundle, archives |
| `Site` | the project's page |
| `Texts` | messages and their translation; sizes, times, days |
| `Answers` | the sum of `Takeover`, `HoverPanel` and `AddDialog`, with the theorems about it |
| `MC*` | instances for TLC, and sums of components |
| `*Proofs` | theorems and lemmas about the module they name |

Each module begins with a comment that says what it abstracts, what is external
and what its bounds are.

**SegmentMap.** A map is a function from segment ids to records. The code keeps
segments in a `BTreeMap` by start or scans for one; where it picks the first or
the largest, the operators say "the first" or "the largest" (`IsNextPending`,
`IsVictim`). `InitialMap`, `TakePending`, `Steal`, `Advance`, `Release`,
`Rewind`, `MergeDone`, `Persisted`, `FromPersisted` are the methods. `WellFormed`
is the invariant the proofs need; `Tiles` is what `SegmentMap::check` verifies.

**KuHttpWorkers.** `wk[w].ph` is where the code of a worker is: `loop` (the top
of `worker::run`), `request`, `body`, `write` (between `write_at` and `advance`),
`exited` and `fatal` (returned, not joined). `Receive` is "read chunks, cut them
at `end_of`, `write_at`"; `Record` is the `advance` that follows. The lock is free
between the two, as in the code. The buffer between reading and writing is not a
state: a split during the reading only makes the write that follows shorter, and a
split during the write is there. A worker that leaves because of a stop
leaves the count of running workers with it, where the code keeps it: with a stop set
no tick spawns, so nobody acts on that count. `disk` has the version of the remote file each
byte came from, so that both "written" and "one version" are visible. The loop's
branches are `Tick`, `JoinExited`, `JoinFatal`, `ObserveStop`; what follows it is
`Drain` and `EndAttempt`. `phase` is the position of that loop.

**ByteTransfer** is the abstract specification: bytes arrive in any order, only a
transfer without ranges may start over, success needs all of them.
`ImplementsTransfer` instantiates it with `got <- Recorded(segs)`; splits, claims,
merges, retirement and joins are stutters.

**KuHttpJob.** `run` is the position of `Runner::run` and `attempt`; the worker
actions are those of `KuHttpWorkers`, enabled while `run = "Downloading"`.
`persist()` is three steps (`PersistSnapshot`, `PersistSync`, `PersistSave`)
during which the select loop waits and the workers do not. The disk is two
functions: `disk`, what a read returns, and `stable`, what a power loss leaves;
`Crash` keeps, byte by byte, the new or the stable content of what was not
synced. `saved`, `temp` and `final` are the three files of a download. What fails goes the
way of the code: a save, a request or a read of the spot check (a difference), the
reading for a checksum (failed verification), sync and rename (the partial file and
its state stay).

**Controller.** One action per outcome of an evaluation in `Controller::tick`:
`SlowDown`, `Shrink`, `KeepShare`, `Undo`, `Grow`, `Stay`. Measured speeds are
replaced by the outcomes they can lead to.

**DownloadLifecycle.** `entry` is the list in memory, `db` the rows, `run` the
engine's job table, `tasks` a bag of everything spawned, each with the point it
has reached: `publish` and `start` (the pump's task), `watch`, `wait`, `woken`,
`report` (the watcher), `commit`, `delay` (what follows a report). A caller is
a thread with a program counter: each lock region of `pause`, `resume`,
`remove`, `clear_finished` and `redownload` is an action. `Restart` is a crash or
an exit followed by `recover`. Callers call when they like. `met` is a history
variable: the last start of a download found its run told to stop and not done.

**Schedules.** A tick of the scheduler is two steps (`Tick` takes the time and a
copy of the schedule, `Finish` applies what the awaits returned); between them a
form saves, the switch is turned or the computer restarts. `mem`, `row` and
`active` are the schedule in memory, in the database and in `schedule_active`.
Local time is `Offset` slots ahead of UTC, because the form's default date is the
UTC day. Time is slots, 4 to a day and 2 days to a week in the run: a window past
midnight, a day before and a day after all happen.

**The modules of windows and scripts** have a common form. A request is an entry of
a set or sequence of calls under way, with what the closure kept of the screen when
it was sent; its answer is an action that may come at any time the callee allows, in
the order the callee keeps (one pipe of the shell, or none). What React runs after a
render (effects, subscriptions of a store) is part of the step that causes it.
Events of the core are a sequence per window. A value that only has to be told apart
is the number of the write that made it. The core, the browser or the page on the
other side is external: it is modelled from how the code in `src/` uses it, does
everything it may, and stays small. Where the code does not guarantee a property in
a particular case, the model has a history variable that records just that case
(`raced`, `met`, `late`, `stale`, `behind`, ...), the property excludes it by name,
and section 6 lists it. Where it can, the variable is a set of the rows, keys,
entries or tools concerned, so that the property still speaks of all others while
their calls and events overlap too. Code of `src/` that such a module needs of the
core or the shell (its commands, the forwarder of events) is translated from its
lines like the rest, as `map` says.

The composition is by inclusion for the byte path (`KuHttpJob` contains
`KuHttpWorkers` contains `SegmentMap`) and by promise between the rest:
`DownloadLifecycle` replaces a run by its possible ends, and that a run does end,
and a paused one may also end with success or an error, is what `KuHttpJob` shows
(`RunEnds`); the windows replace the core by its events and answers. `Answers`
and `MCScreens` put components next to each other that share no state: `part`
names the one that runs, and in `MCScreens` the variables `x1`, `x2`, ... hold
its variables. They are sums, not products: a behaviour is a behaviour of one
component. `Answers` declares the constants of its parts, so that it can be
proved about for every value of them; `Answers.cfg` gives the values of the run.

**Mutated forms.** Some definitions come in a second form with a comment
"Mutated form". They are not part of the model: each is a plausible mistake in
the code, and replacing the definition below it by it violates the property that
`PROJECT.json` names, or a part of it. They document what each property depends
on. `PROJECT.json` pairs one of them with each checked property; the properties
of `Answers` and `MCScreens` are conjunctions, and the modules hold a mutated
form for every conjunct.


## 3. What is checked

Run one with `tlc -config <Run>.cfg <Module>` (`PROJECT.json` has the module).

### KuHTTP

| Run | Question | Bounds |
|---|---|---|
| `Workers_steal` | do claims, splits, retirement and spawning keep the map, the owners, the connection limit and the split sizes right? | segmented, 6 bytes, 3 worker slots, 2 connections |
| `Workers_replaced` | does the invariant hold, and do recorded bytes stay one version, in every mode, when the file is replaced at any moment, segments are retried and targets expire? | 5 bytes, alignment 2, writes of 3, splits of 2, 2 versions, 1 retry, 1 renewal |
| `KuHttp_ends` | does an attempt end, also when its redirect target expires, and does the controller settle? | attempt: segmented and stream, 4 bytes, 2 slots, 1 retry; with expiring targets: 1 connection, 1 renewal; controller: 1 to 8 connections |
| `Job_crash` | is what is saved durable, what is resumed on disk, a final file whole and one version, and does a pause keep, and the next run take up, what was saved? Three servers: a checksum and a file that stays, with a crash or power loss at any step; a checksum and a small file that is replaced; validators and a file that is replaced, with saves that fail | 2 bytes, 2 workers, 2 versions, 2 runs, 1 crash, 1 restart |
| `Job_ends` | does the inductive invariant of section 5 hold, and does a run end, with crashes, a replaced file, saves that fail and restarts? | 2 bytes, 1 worker, every mode, 2 versions, 2 runs, 1 crash, 1 restart |

Three slots for two connections let a worker be spawned while another has left
and is not joined; six bytes allow two splits of a segment, one by each thief;
the third worker then meets what the first two left. In `Workers_replaced` the
alignment rounds the split points and leaves a last segment that is short, and
a write is larger than a split leaves free: the boundary moves inside a write
under way. `MaxWrite > MinSplit` is not so in the program (writes are at most a
buffer, splits leave megabytes); the run shows that nothing depends on that but
`WritesStayInside` and `PositionsAgree`, which say so. Two versions suffice
because mixing is a matter of a pair. In a stream no request carries a range, so
`If-Range` plays no part and starting over alone keeps it to one version.

`KuHttp_ends` (76,601 states) is a sum of three parts. Its attempt takes any target
at any time, which includes the controller's, so nothing is lost by not composing
them. The controller's part has no bound besides the range, which is the program's
default. The third part is an attempt with one connection whose redirect target
expires. With several, TLC shows that the code does not bound the renewals, even
when the controller's target no longer changes: `url_refreshes` is local to a worker
(`worker.rs:26, 70-75`). While one awaits `refresh_url` its segment is pending; a tick
spawns another that claims it; the first finds no work and leaves; the next tick
spawns one with a count of zero. It takes a server that refuses the rest of the file
for as long as it lasts, and renewals that succeed.

`Job_crash` is a sum over three servers (`MCKuHttpJobs`), each an instance of
`KuHttpJob` with constants of its own; the properties are those of `KuHttpJob`. The
product of all that may happen is too large for two workers; `Job_ends` takes it
with one worker, which is enough for how runs, saves and crashes meet, and all
properties are proved for any number (section 5). One crash is enough for an
invariant about what the second run finds: after a crash the state is a state file
and a file, and the second run starts from any such pair that the first can leave.
Two bytes are two segments, split by the second worker, or one segment of which one
byte is saved and the other is not. Retries within an attempt are left to the runs
above (`MaxRetries = 0` here). `Job_crash` has 1,695,899 states, `Job_ends` 372,497.

### The list of downloads

| Run | Question | Bounds |
|---|---|---|
| `Lifecycle_slots` | two downloads, one slot, any of the five calls, a shutdown and a restart: do never more run than allowed, and has every run a watcher? | 2 downloads, 1 call, 1 restart |
| `Lifecycle_ends` | whatever pause and resume overlap, does something still act on every entry that is Downloading (`LeftOnlyByMeeting`), is what is queued started, and does what runs end? | 1 download, 1 automatic retry, 2 calls |

The tasks of different downloads meet only in the slots, and the slots need two
downloads that compete; more of both, and more callers, are covered by the
theorems of section 5, which prove the safety properties for any number.
The hazards of a single entry are calls that overlap one run and what follows
it, so one download and two calls: the pause of a run and the resume that meets it,
or two calls around a report or a backoff. `Lifecycle_ends` (516,792 states) has no
assumption about when the user calls.

`LeftOnlyByMeeting` says exactly when an entry may be left in Downloading with nothing
behind it: its last start found the previous run told to stop but not done, and the
engine took that run for the one wanted (`met`). `Lifecycle_stuck` shows that this does
happen; the liveness properties except it, `DownloadingEnds` of the download concerned,
`QueuedStarts` of any, because what is left behind keeps its slot. Stale reports,
doubled watchers, retries and calls that overlap do not do it by themselves, and
section 5 proves that for any number of downloads, calls, retries and restarts. The
property was also checked on the constants of `Lifecycle_slots` with all five calls
(2,864,980 states).

### What waits for answers

`Answers` (240,454 states): `Takeover`, `HoverPanel` and `AddDialog`, with their
liveness. It checks three properties, each a conjunction of those of the
components: `HandedOverOnce` (`Conserved`, `TakenOnce`, `OwnStays`, `AddedOnce`),
`AnswersFit` (`ProbeIsOfLink`, `DupIsOfForm`, `DirFollows`) and, under fairness,
`WaitsEnd` (`Settles`, `ButtonGoes`, `LoadingEnds`, `BusyEnds`, `CheckingEnds`).

| Component | What holds | Bounds |
|---|---|---|
| `Takeover` | a download taken is with the application, its handler or the browser, or was lost in one of three steps (`Conserved`), never with both (`TakenOnce`), an own download is not taken again (`OwnStays`), and each settles (`Settles`) | 1 download of the user, 2 in all, 1 change of the settings, 1 end of the worker, 1 outage |
| `HoverPanel` | the button goes (`ButtonGoes`), the spinner stops (`LoadingEnds`) | 2 anchors, 2 clicks, 2 moves |
| `AddDialog` | what the dialog says is about what it shows (`ProbeIsOfLink`, `DupIsOfForm`, `DirFollows`), it adds once (`AddedOnce`), and is not busy or checking for ever (`BusyEnds`, `CheckingEnds`) | 2 links, one of a video, name, folder and category prefilled or not, 2 edits, 1 opening, 2 sends |

Section 5 proves the first two properties for any values of these constants; the
liveness stays with TLC. A second download of the user would only add handlers that
do not meet the first; the download that is handed back is the second item, and is
the one the handlers do meet. Two links are needed for an answer about the wrong
one.

`Conserved` names what the code does not prevent (`Lost`): an end of the worker in
`send`, `giveBack` or `again`, the three steps between the cancel in the browser and
the answer or the hand-back, in which nothing but the handler knows of the download;
and a browser that refuses to take it back. An end of the worker at any other step
loses nothing.

The dialog was also checked when another prompt takes it over: with 2 openings and 1
edit the safety properties hold (3,916,523 states), with 2 openings and no edit the
liveness too (111,930); both take too long for the run. The proofs of section 5 hold
for any number of openings.

### Everything else of the interface

`Screens` (1,632,489 states) is the sum of 27 modules in 46 parts; some parts are
initial states that a module's pure functions are evaluated in. One question in
many places: whatever order events, answers and clicks come in, does what a
screen holds and sends agree with what it is about?

The six properties checked are conjunctions by idea; each conjunct is a property of
one component, guarded by the part that runs it:

- `FollowsSource`, with nothing on its way, what shows something agrees with what it
  shows, but for the single rows, keys or entries that a named race left behind:
  `BadgeCountsStored`, `ButtonFollows`, `HidesAll`, `RowsFollow`, `ListsFollow`,
  `PromptsOnce`, `WindowFollows`, `FieldShowsStored`, `ListFollows`, `BarIsOfList`,
  `RowIsSchedule`, `InfoFollows`, `PromptsWait`, `TransfersFollow`, `SwitchFollows`,
  `LookupIsCurrent`, `RowFollows`, `StatusFollows`, `LanguageFollows`,
  `ThemeFollows`, `LabelFollows`, `OneBuild`, `StagedAll`, `PictureFollows`.
- `ActsAsShown`, what the user does acts on what is seen: `SelectionListed`,
  `CursorInList`, `RequestFits`, `ListFits`, `SentAsShown`, `UntouchedStays`,
  `GrabbedAsAsked`, `AgainIsSame`, `MenuFits`, `FocusInside`, `SameWay`.
- `LosesNothing`, nothing that was asked for is lost on the way: `NothingLost`,
  `ChangesStay`, `CoreKeeps`, `Told`, `PinAsked`, `AllTried`.
- `OnceInTime`, what should happen once, or end, does: `Bounded`, `ListedOnce`,
  `OneCountdown`, `Warned`, `AfterAllOnce`, `StartsAsSaid`, `OnceADay`,
  `EndsInTime`, `JobsEnd`, `ToastsGo`, `ChecksOnlyEnabled`, `OneLoop`,
  `DrawnWhileSeen`, `SwapEnds`.
- `ReadsRight`, what is drawn, counted, written or named means what it is taken
  for: `EntryCurrent`, `CountsOfLists`, `SelectionShown`, `NoHoles`, `OneOrder`,
  `SearchSeen`, `HintHonest`, `RowAgrees`, `PaneProvided`, `MapHonest`,
  `MapAddsUp`, `GraphHonest`, `Apart`, `UpToDateIsSaid`, `ExpandsInOrder`,
  `ShownAsMeant`, `TypedBack`, `TimeAddsUp`, `DaysNamed`, `ArchiveReads`,
  `CrxReads`, `ButtonIsOfSystem`.
- `StepsKeep`, no step takes what is the user's or shows what is another's (an
  action property): `FilesOnlyIfTicked`, `DetailsStay`, `EditIsOfDialog`,
  `TypingStays`, `LostOnlyByHand`, `DetailsOnlyLive`, `GuideStaysClosed`,
  `CursorSeen`.

| Component | Properties | Bounds |
|---|---|---|
| `MediaDetection` | `Bounded`, `BadgeCountsStored`, `ListedOnce` | 2 addresses, cap 1, 2 pages, 1 end of the worker, 2 calls under way at a time |
| `PageScript` | `ButtonFollows`, `HidesAll` | 2 videos, 2 names, 5 changes of the page |
| `ExtensionRequests` | `GrabbedAsAsked`, `Told` | 2 pages, 6 links, 2 calls, 1 pop-up, the tab moves once |
| `Store` | `RowsFollow`, `ListsFollow`, `PromptsOnce` | 2 downloads, 2 changes, 1 prompt, a channel of 1 event |
| `Settings` | `WindowFollows`, `NothingLost`, `TypingStays` | 4 controls, 2 writes |
| `SettingsFields` | `CoreKeeps`, `FieldShowsStored` | every kind of field, 2 edits, 1 change of the section |
| `QueueForms` | `ListFollows`, `ChangesStay`, `BarIsOfList` | 3 writes of this window and of others, 1 form |
| `Schedules` | `SentAsShown`, `UntouchedStays`, `StartsAsSaid`, `OnceADay`, `RowIsSchedule`, `EndsInTime` | 10 slots of 2½ days, 2 edits, 2 saves, 1 restart |
| `PowerActions` | `OneCountdown`, `Warned`, `AfterAllOnce` | 2 starts of work, 2 settings of an action |
| `DownloadsScreen` | `SelectionListed`, `CursorInList`, `FilesOnlyIfTicked` | 2 downloads in different lists, 1 change |
| `ListRows` | `NoHoles`, `OneOrder`, `SearchSeen`, `HintHonest`, `CursorSeen` | 0 or 6 rows, 2 heights; 6 downloads that tie, in every column |
| `DownloadLooks` | `SameWay`, `RowAgrees`, `PaneProvided`, `MapHonest` | every download and the next; 0, 3, 5, 7 pieces in 5 squares |
| `InspectorPanel` | `DetailsStay`, `EditIsOfDialog` | 2 downloads, 2 changes between them, 2 answers |
| `AppFrame` | `EntryCurrent`, `CountsOfLists`, `SelectionShown` | 2 downloads, 1 category, 2 queues, 2 navigations, 1 change |
| `WindowFrame` | `LanguageFollows`, `ThemeFollows`, `LabelFollows`, `GraphHonest` | 3 changes, 1 popup, 3 samples |
| `Overlays` | `ToastsGo`, `MenuFits`, `FocusInside` | 5 toasts of 4 texts, 2 menus, 3 controls |
| `VideoScreen` | `LookupIsCurrent`, `RequestFits` | a video and a playlist of 2, 2 lookups |
| `LinkScreens` | `ListFits`; `ExpandsInOrder`, `LostOnlyByHand` | 2 pages that share a link, 2 reads; 3 patterns of up to 3 ranges, limit 3, 1 call |
| `ProgressWindow` | `RowFollows`, `MapAddsUp`, `DetailsOnlyLive` | every status, 2 changes, 2 kinds of details, 2 calls of buttons at a time |
| `AirSendScreen` | `PromptsWait`, `TransfersFollow`, `PinAsked` | a file and a link offered; a file and a note with a reload; two sends with a reload; 1 or 2 transfers and 1 message listed |
| `AirSendPage` | `SwitchFollows`, `AgainIsSame`, `Apart` | 2 clicks, 1 name, 2 sends, up to 12 devices around |
| `ToolJobs` | `InfoFollows`, `JobsEnd` | 1 call for all tools, 1 install of another window |
| `BrowserSetup` | `StatusFollows`, `AllTried`, `GuideStaysClosed` | 2 browsers, 2 calls, 3 other events |
| `Updates` | `ChecksOnlyEnabled`, `UpToDateIsSaid` | 3 checks, 2 openings, 2 switches |
| `Packaging` | `OneBuild`, `ArchiveReads`, `CrxReads`, `StagedAll` | 2 revisions, 6 steps; 3 files |
| `Site` | `OneLoop`, `DrawnWhileSeen`, `PictureFollows`, `SwapEnds`, `ButtonIsOfSystem` | 3 features, 2 crossings, 2 pictures waiting, 6 visitors |
| `Texts` | `ShownAsMeant`, `TypedBack`, `TimeAddsUp`, `DaysNamed` | every template with words and messages in its holes; amounts, times and days on both sides of each change of unit |

The comment above each property in its module says it in words with the cases it
excepts. What all bounds have in common: an answer about the wrong thing needs two
things and one answer; an event that overtakes an answer needs one of each; a lost
write needs two writers; a press on a vanished row needs one row to vanish. Each
excepted case was met by TLC within these bounds, and each conjunct is violated
within them by the mutated form that its module holds for it.

Some components were also checked alone with larger bounds, which take too long in
the sum: `Settings` with 3 writes (4,030,886 states), `AirSendScreen` with file, link
and a reload (2,703,264). A channel of one event in `Store` stands for the 2048 of
the core: what matters is that events are forgotten before the shell reads them.

### Deadlock

`CHECK_DEADLOCK FALSE` is set where the system comes to rest: an attempt or a
run that has ended has no step, a list of finished downloads waits for the next
call, nobody has to use a screen. That nothing rests too early is what the
liveness properties check, and in the screens the invariants that begin with
"when nothing is on its way".


## 4. Fairness

- A tokio runtime polls every task that is ready: weak fairness for each
  worker's own steps and for each spawned task.
- Requests and reads have connect and read timeouts: a request or a body
  continues or fails; it does not hang.
- `select!` picks any ready branch at random, and saves are due only every few
  seconds: a join that is ready again and again is taken (strong fairness for
  joins in `KuHttpJob`; weak in `KuHttpWorkers`, where nothing disables them).
- A worker at the top of its loop does not wait, while ticks are half a second
  apart: it is not retired each time before it claims (strong fairness for
  claims). Without it a spawned worker may be retired at once forever.
- The main loop pumps when notified or once a second while something is queued
  (weak fairness of `Pump`); a backoff elapses; a run ends, as `RunEnds` shows.
- A browser runs the handlers, frames and timers it was given, finishes or fails
  its own downloads, and answers its interfaces; the native host answers or
  fails, because the background script and the shell bound each call (weak
  fairness of `HandlerStep`, `BrowserFinishes`, `Frame`, `HideTimer`, `Closer`,
  `Answered` and of the answers to the Add dialog).
- The user, the network and the page owe nothing: no fairness for clicks, calls,
  replacement of the file, crashes, ends of the worker, changes of the page.

`Screens` is checked for safety only and assumes no fairness.


## 5. What is proved

`tlapm` checks every proof from nothing; no step is assumed. The assumptions are
those on the constants, named in the modules (`MapAssumption` and the like), and
are satisfied by the constants of every run.

**`SegmentMapProofs`**: each operation of the map keeps `WellFormed`, and what it
does to the recorded bytes: `TakePending` and `Steal` keep them, `Advance` adds
exactly the bytes of the write that are inside the segment, `Release` and
`MergeDone` keep them, `Rewind` drops those of the stream. It includes the
arithmetic of the initial split (`AlignUpBounds`, `BoundariesIncrease`:
boundaries rounded to the alignment still increase and end at the size), for
every size, alignment and connection count, and of the split point.

**`KuHttpWorkersProofs`**: the inductive invariant `IInv` and from it

| Theorem | Property |
|---|---|
| `TypeCorrect` | `TypeOK` |
| `SegmentsTileTheFile` | `MapTiles` |
| `OwnershipIsExclusive` | `OwnersAgree` |
| `RecordedBytesAreWritten` | `RecordedIsWritten` |
| `WritesAreExclusive` | `WritesStayInside` |
| `ConnectionsAreBounded` | `ConnectionsBounded` |
| `SuccessMeansComplete` | `SuccessIsComplete` |
| `SplitsAreLarge` | `SplitsStayLarge` |
| `WorkersImplementTransfer` | `ImplementsTransfer` |

None of these is inductive by itself. `IInv` adds:

- `WritesAreThere`: while a worker is between `write_at` and `advance`, the bytes
  it is going to record are on disk. `RecordedIsWritten` needs it at `Record`, and
  it survives the other workers because nothing ever makes a byte blank.
- `PositionsAgree`: if splits leave room for a write, the worker's local position
  is the map's. This is where the code's claim that workers never write the same
  bytes rests; without `MaxWrite <= MinSplit` the local position may run ahead
  of the map, and `RecordedIsWritten` still holds.
- `OneSegment`: an attempt that is not segmented has segment 0 only, so that
  `Rewind` cannot drop another worker's bytes and nobody can steal.
- `NoEarlyEnd`: after the select loop nobody is at work unless it was stopped,
  and without an error nothing is left to do. `SuccessIsComplete` follows with
  `WellFormed`: a map whose segments are all done has recorded every byte.

The proof has one lemma per action. The refinement maps each step to `Arrive`,
`StartOver`, `Succeed`, `GiveUp` or a stutter, using the same lemmas about
recorded bytes.

`OneVersion`, that recorded bytes are of one version of the remote file wherever
requests are ranged, needs a second inductive invariant, `VInv` on top of `IInv`:
what is recorded, what is on disk and about to be recorded, and what each worker
is receiving are of one version (`AnswersAgree`). With `If-Range` this is the
version the probe saw; only an attempt with one connection, which does not ask
for a range at its first request, may begin with a later one, and then no range
of it is honoured any more (`Answered`). A worker in a stream holds one position
(`OnePosition`), and starting over drops all it had.

**`SegmentMapProofs`, the saved form**: `PersistedIsRecordable` (what `Persisted`
writes is a sound record: inside the file, no overlap), `OneIsPersisted` and
`FromPersistedKeeps` (the map that `FromPersisted` builds of a sound record is
well-formed and has recorded exactly the bytes of the record). The second sorts
the record by start; the lemmas `Before`, `Rank` and `RanksAreIds` show that the
ranks of its entries are the ids 0, 1, 2, ... without induction over the sort.

**`KuHttpJobProofs`**: the inductive invariants of a download over its runs, for
every file size, number of workers, versions, runs, restarts and crashes:

| Theorem | Property |
|---|---|
| `JobInvariant` | `JobInv`, the inductive invariant itself |
| `JobTypeCorrect` | `JobTypeOK` |
| `SavedBytesAreDurable` | `SavedIsDurable`: what the state file claims survives a power loss |
| `ResumedBytesAreWritten` | `ResumedIsWritten`: what a run takes up is in the file |
| `FinishedIsWhole` | `FinalIsWhole`: the final file has every byte, durably |
| `FinishedIsOneVersion` | `FinalIsOneVersion`: all from one version |
| `ResumingTakesUp` | `ResumeTakesUp`: a run that resumes starts from the saved bytes, no more and no fewer |
| `PausingKeepsProgress` | `PauseKeepsProgress`: a pause leaves what was recorded to the next run |

`JobInv` says, for each position of the run, what the two disks, the snapshot and
the three files must agree on: while `persist()` is between its snapshot and its
save, the snapshot says no more than the map and, after the sync, no more than is
durable (`SnapSound`); a state file is a sound record of segments and is gone before
its temporary file is truncated (`SavedSound`); what is durable was written, and
before the rename everything is both (`FilesSound`); an attempt that has opened its
file has a well-formed map of what is in it (`MapSound`). `IInv` of the workers is a
part of it while the run downloads. The proof sorts the steps by what they may
touch: those of a stage without workers (`QuietRun`), those of the workers (the
lemmas of `KuHttpWorkersProofs`, used as they are), those of a save, and crashes.

`FinishedIsOneVersion` needs a second one, `JobVInv`, and a hypothesis: `~Edited \/
Announced`. If the connection count can be edited in a pause and the server
announces no checksum, the property is false, which is the finding `Job_edited`. The
property itself speaks of servers whose validators are good for `If-Range` or that
announce a checksum: what the others send, the code cannot tell apart. Besides the
types of constants `JobAssumption` asks that the marker of a missing state file
(`None`) is not a state. `JobInv` is checked by TLC in `Job_ends`; `JobVInv` was
checked on the three servers of `Job_crash` before it was proved.

**`Controller`**: `ControllerTypeOK`, for every range: every assignment is
clamped, or keeps the count.

**`DownloadLifecycleProofs`**: for every number of downloads, callers, slots and
retries, `LifecycleTypeOK`; `LifecycleSlots` (never more entries run than
allowed), because only `Pump` adds an entry to `Running` (`OnlyPumpStarts`) and
it takes no more than the free slots under the same lock; `LifecycleWatched`
(every run that is not over has a watcher that will report it), because a run is
made only by a start task that becomes a watcher in the same step, a watcher
leaves only when its run is over, and a watcher that finds the old run goes on
waiting for that one.

`EntriesAreLeftOnlyByMeeting` is `LeftOnlyByMeeting`, without any assumption about when
and how often the user calls: an entry that is Downloading has a task or a call
behind it, or its last start met a run that was being stopped. Its inductive
invariant, `MetInv`, says for each such download who acts on it next (`Cared`): a
start that is still to run; a call that has yet to pause or forget it; a run that goes on
and was not told to stop, or has ended for another reason than a stop; or, when the run
is over, a watcher or a report that knows an outcome other than "stopped". A report of a
stop changes nothing, so it is not on this list. For that it needs that a run ends as
stopped only if it was told to (`Told`), that a watcher which waits knows no outcome yet
(`PlainWaits`), and that a call that stops or pauses is about one download
(`CallsSingle`). It says nothing between a shutdown and the next start. With
`EveryRunIsWatched` it implies the property (`MindedIsLookedAfter`). The proof has a lemma
for each kind of step: what a step leaves alone goes on minding the entry
(`CaredStays`), and a step that takes one of these away puts another in its place.

**`TakeoverProofs`**: for every number of downloads, ends of the worker, outages and
changes of the settings, `TakeoverTypeOK`, and `TakenIsConserved`: `Conserved`,
`TakenOnce` and `OwnStays` (the part of `HandedOverOnce` about the extension).
`Conserved` has the exceptions of section 3: what is proved is that a download can
be lost only by an end of the worker in one of three steps or by a browser that
refuses it back, and by no other order of ends, outages and changes. None of them is
inductive: the browser's entry, the handler and the application's list change in
different steps. `TkInv` adds that the point a handler has reached tells where its
download is (`Stage`: before the cancel with the browser alone, afterwards gone
there, and at the hand-back the application has it only if its reply was lost), and
that a download of the extension stands for one of the user's whose handler is done
(`Lineage`), so that no later step of that handler can hand it over after the
browser has it again. The end of the worker keeps it because it changes no handler
that has handed back.

**`AddDialogProofs`**: for every finite set of links, every set of them that are
videos, and any number of openings, edits and sends, `AnswersFitTheForm`
(`ProbeIsOfLink`, `DupIsOfForm`, `DirFollows`: what the dialog says of a link, of
a duplicate and of the folder is about what it shows now) and `AddsOnce`
(`AddedOnce`). Both are about answers that come late, so both need to know what is
still under way. `AdInv` has two parts:

- `FormInv`, whose core is `Fits`: of the calls under way, only the one that is
  still alive will be heard, and what it asked is what the form shows. Every
  edit, reset and close keeps it because the effect that sends a new question
  first takes the life of the old one; a timer that has not fired belongs to the
  effect that runs now. The invariant says nothing of the questions that were
  given up: their answers change nothing.
- `SendInv`, whose core is `OneAdd`: of the dialog opened last, if it does not
  remember its folder, there is at most one send; while that send is under way
  and the dialog open it is busy, and once it has added, the dialog is gone, so
  that nothing can be pressed again. That a new press has a number no other press
  under way has is counted (`NumberFree`, with the theorems about cardinality).

A dialog that does remember its folder is excepted by `AddedOnce` (it waits
before it is busy, section 6), and the proof has no need to follow it.

**`Answers`**: `ComponentsTyped` (`TypesOK`), `HandedOver` (`HandedOverOnce`) and
`AnswersBelong` (`AnswersFit`) of the sum of the three components, for every value
of their constants. The invariants of the first and the third are those of
`TakeoverProofs` and `AddDialogProofs`, taken over through `INSTANCE`; a step of the
sum is a step of one part and leaves the variables of the others alone. That of
the second, `HvInv`, is proved there; it has the types, and that the button, the panel
and every request are about a video of the page or about none.

**Only model-checked**:

- liveness (`AttemptEnds`, `RunEnds`, `Settles`, `QueuedStarts`,
  `DownloadingEnds`, `WaitsEnd`), which needs fairness and `ENABLED`;
- the properties of `Screens`: 27 small components that are mapped to shared
  variables for one run, where a few actors and their orders matter more than a
  number that could grow. Some rest on `RECURSIVE` operators.


## 6. Where the code disagrees with its own words

Each of these is a run that TLC ends with a counterexample; `PROJECT.json` quotes
the line of the repository that says otherwise.

- `Job_edited`: the connection count can be edited in a pause. A segmented state
  then resumes with one connection, whose first segment starts at 0 and is
  requested without a range, so that `If-Range` has no effect: if the file was
  replaced after the probe, old and new bytes end in one file. Affected are files below
  `small_file_threshold` (10 MiB); larger ones stay segmented whatever the count is.
- `Controller_throttled`: the server throttles while a growth step is still being
  judged; the count is halved, and the next evaluation undoes the growth step,
  which raises it above the half.
- `Lifecycle_stuck`: a resume while the paused run is still stopping finds it
  "already running"; the run then stops and the entry stays Downloading, in a
  slot, with nothing behind it.

Four more properties are stated at the end of `DownloadLifecycle` because a user
would expect them; TLC refutes each within seconds under the constants of
`Lifecycle_stuck`, and no run is kept for them:

- `PauseHolds`: a run that ends with a transient error after the pause (a probe
  under way is not interrupted) queues the paused download again
  (`core/kuhttp_bridge.rs:130`).
- `PauseStopsTheRun`: a pause between the pump and the task it spawned stops
  nothing; the run then goes on for a paused entry (`core.rs:1549`).
- `IdleSleeps`: a pause during a backoff leaves the entry in `retry_at`, and the
  main loop keeps polling once a second (`core.rs:880`).
- `MemoryIsSaved`: two threads that change an entry may write their snapshots in
  the other order; the database keeps the older (`core.rs:300`).

`docs/kuhttp.md:27` says that the connection count grows one at a time; the code
(`scheduler.rs:146`) and `Controller` grow it by half until a step fails.

### In the windows, the extension and the scripts

The following was found while writing the modules. Each is a case in which what
the code does is not what its user, a comment or a text on the screen would
expect; the properties of the module except it by name (see the module's
comments), so that they say what does hold. Paths are under `app/src` unless
said otherwise.

**Calls that meet a newer state**

- `PowerActions`: a second `begin_power` signals the first, whose task emits
  `PowerCancelled` after the new `PowerCountdown` (`core.rs:1458-1474`): the
  banner closes while the new 60 seconds run, though `SettingsView.tsx:196`
  promises the warning.
- `MediaDetection`: the list is forgotten when the worker restarts; the pop-up's
  late `loadDetected` overwrites newer items (`background.js:318`); a late
  response of the previous page is listed under the new one; the cap lets 51
  items stand; an end of the worker between storing and counting leaves the badge
  at the old number.
- `Store`: a prompt that the forwarder puts aside just after `app_ready` has
  collected the others is never shown (`src-tauri/src/main.rs:236-238`,
  `commands.rs:119-125`); events that the channel forgot are never made up for
  (`main.rs:178`); events are emitted after the lock is let go and may overtake each
  other (`core.rs:2083-2084`), so that a row keeps an older state.
- `HoverPanel`: `Pick` enables Download while a send is under way
  (`hover.js:299`); a left-over `setTimeout(closePanel)` closes a newer panel
  (355); a late analysis is rendered into another panel (290).
- `AddDialog`: a typed name is overwritten by a late probe
  (`AddDownloadDialog.tsx:107`); a late `onClose` closes a newer dialog (194);
  `remember` is awaited before `busy` is set, so two clicks add twice (229-232);
  the spinner stays if a torrent arrives while a link is probed (99).
- `Settings`: a table under edit is reset by any refresh
  (`SettingsView.tsx:82`); a text is overwritten by the answer to its own earlier
  save (`prefs.tsx:66`); saves of whole settings overlap, and one that did not know of
  a change takes it back (`store.ts:199-204`).
- `QueueForms`, `AirSendPage`: a form without a busy guard submits twice
  (`ScheduledView.tsx:37`, `AirSendView.tsx:149-160`); saving a deleted queue makes
  it again (`DownloadsView.tsx:102`); the answer to a rename that comes after the
  queue was deleted shows the list of the deleted queue.
- `ToolJobs`: a late error deletes a newer waiter (`tools.ts:81`), an answer adds
  a finished job again (64), waiting jobs are left behind (91).
- `AirSendScreen`: a second transfer that needs a PIN replaces the first one's
  question (`AirSendView.tsx:371-374`); a decision whose `trust` fails dismisses
  the prompt while the sender waits (`AirSendPrompts.tsx:24-26`); a late
  `transfers()` overwrites newer events (`airsend.ts:183`); an accepted link whose
  sender is gone waits for ever.
- `VideoScreen`, `LinkScreens`: choices, cookies and ticks of the
  previous link survive into the next (`VideoDownloaderView.tsx:63, 445`,
  `GrabberView.tsx:54-57, 104`); text typed during a call is wiped
  (`BatchView.tsx:77`).
- `ProgressWindow`: an event between the first answer and the subscription is
  lost (65-66).
- `BrowserSetup`: two loops interleave in gaps of 1.2 s (`BrowserView.tsx:66`);
  an install whose browser does not open leaves the connector registered and does not
  refresh the status (60).
- `ExtensionRequests`: links read after the tab moved on are sent with the old
  page's address and cookies (`background.js:277`); a failure after the pop-up
  closed is told nowhere.
- `InspectorPanel`, `DownloadsScreen`: an older answer overwrites newer details;
  the anchor of a range is an index and the items of a menu are those of its
  opening; toolbar Stop without a selection calls `pause([])`
  (`DownloadsView.tsx:311-314`).
- `Schedules`: a start from an overnight window for single days happens at
  midnight of its day and then not in the evening (`core.rs:1382-1392`); the
  default date is the UTC day (`ScheduledView.tsx:41`); `schedule_active` is lost
  in a restart and the queue then is not stopped; a tick writes back a copy of the
  whole schedule.
- `AppFrame`, `SettingsFields`: a prefill is shown again when the page is entered
  from the sidebar; a seed ratio of 0.4 is stored as 0 while the field shows 0.4;
  a failed save leaves the typed value.

**Words and what happens**

- `AddDownloadDialog.tsx:395` says that invalid lines are skipped; line 128 does
  not let one valid and one invalid line be submitted.
- `SettingsView.tsx:40` names `Ctrl 1 … 5`; `App.tsx:306` handles 1 to 4.
- `App.tsx:63` says that updates are looked for once per launch; turning the
  setting off and on looks again.
- `BrowserView.tsx:73` counts browsers that could not be opened as opened.
- `extension/pack.mjs:121` says that a directory holds exactly what the installer
  bundles; without a key an old `.crx` stays there, and a stale signed `.xpi` is
  bundled with a newer one (127).
- `BatchView.tsx:64` calls duplicates invalid lines.
- `DownloadList.tsx:76-79` says "Not started" of a paused download of unknown size
  that has bytes.
- `format.ts` shows 1048575 as "1024 KB", and "Yesterday" is wrong around a change
  of the clock (83).
- `docs/site/main.js:173` says that the picture follows the chosen item; choosing
  the item that is shown while another picture is awaited does not.


## 7. Assumptions, and what is not modelled

Assumed of the outside:

- File metadata (create, rename, remove, set length) takes effect in order and
  is durable at once; file content is durable after `sync_data`. Without ordered
  metadata the code's "file first, state second" would mean nothing. Removing the
  temporary or the state file succeeds: the code ignores a failure
  (`resume.rs:49-52`).
- A blocking write that an aborted task had handed to the runtime before the
  abort has no effect after it.
- A server honours `If-Range`, and serves the version it has when it answers.
- Versions of the remote file have the same size. A different one is noticed by
  every ranged response, so equal sizes are the hard case.
- Calls of one window to the shell are answered one by one, each after its
  changes were made; events of the core reach a window in the order they were
  emitted. Answers and events have no common order.
- React runs the effects of a render before the next event of the user.

Left out of the modelled parts: downloads of unknown size (one stream to the end of
the connection); file names, checksums other than one of the whole file announced
with the probe; back-off sleeps and rate limits (they take no step); the check of
free disk space and a state saved for another address, which go the way of a file
that cannot be opened; progress; in the list of the core, queue membership and
positions of entries (all are direct, the pump takes any ready ones), seeding,
`kuhttp_reset`. A worker slot is reused after its task was joined, where the code
counts ids up.

Bounds of the models, all of them constants: `LastVersion`, `MaxRuns`,
`MaxCrashes`, `MaxCalls`, `MaxExits` and the `Max...` constants of the other
modules, which count the user's steps and the outside's changes. The code's own
limits are constants too (`MaxRetries`, `MaxRefresh`, `MaxRestarts`, `AutoRetry`,
`MaxConcurrent`, `MaxConn`, `MaxSize`, `Limit`, `Kept`) and get smaller values in
the runs than in the program.

Not modelled, with the reason and the hazards we know of:

- **aria2** (`aria2.rs`): a child process whose own list decides what happens;
  the core mirrors it by polling. Known hazards: a crash of the process while
  entries hold its ids (the restart at `core.rs:399`), a stale status applied to
  an entry that was moved to another id.
- **yt-dlp** (`ytdlp.rs`): arguments, output parsing and a table of processes.
  Known hazard: the task of an old process removes the sender that cancels a newer
  one of the same entry (`core.rs:1726`).
- **The queues inside the core**: `start_queue`, `stop_queue`, `move_to_queue`,
  `delete_queue`. Known hazards: `stop_queue` sets what it found running back to
  Queued over a completion in between (`core.rs:1228`), `move_to_queue` moves
  running downloads past the limit of the new queue (1240), a snapshot taken
  before a remove is committed after it (1039), a drained queue starts its
  countdown although a download is added meanwhile (2100). The pause of an entry
  has the same gap (870).
- **The AirSend service** (`airsend.rs`): the protocol between two devices. Known
  hazards: one receiving session at a time and its release on every path (1083),
  a cancel that races with the last block (1177), files renamed only when whole
  (1419).
- **`kuhttp_reset`** (`core/kuhttp_bridge.rs:44`): drops the engine when nothing
  is marked running, while a paused run may still be stopping.
- **Tools in the core** (`tools.rs`): a download, a check and a staged swap of one
  executable; the windows' side is `ToolJobs`.
- **Local API, native messaging, command line**: forward calls and keep no state
  between them. That a reply is lost after the call took effect is part of
  `Takeover`.
- **Analysis of links** (`probe.rs`, `classify.rs`, `landing.rs`, `smart.rs`,
  `grab.rs`, `torrent.rs`, `browsers.rs`): sequential heuristics on one link
  before there is an entry; their answers are data of the screens.
- **After a download** (`scan.rs`, `hash.rs`): an external program and a digest.
- **Android library and application**: another caller of the same core.
- **Translations**, **drawn elements** (`ui/primitives.tsx`) and the **preview**:
  tables of texts, stateless components, a mock of the core.

The runs `Answers` and `Screens` check each component alone. That two screens
disturb each other through the core is seen only as far as each takes changes of
the core at any time.


## 8. What could follow

1. `EngineRun`, an abstract run (going, told to stop, ended once, an outcome),
   refined by `KuHttpJob` and used by `DownloadLifecycle`: the promise between
   the two becomes a checked refinement.
2. The queues inside `DownloadLifecycle`: start, stop, move and delete a queue and
   limits per queue. Properties: a stopped queue starts nothing; a completed entry
   is not queued again; the countdown never ends while there is work.
3. `Aria2Engine`: process, crashes and restarts, the ids that entries hold.
   Properties: no entry holds an id of a process that is gone; a restart loop is
   bounded.
4. `AirSend`, the protocol: offers, the single receiving session, cancel, stop.
   Properties: an accepted offer does not vanish; the slot is always freed; a file
   is renamed only when whole.
5. `YtDlp`: the process table and its cancel senders.
6. Proofs: the refinement of `EngineRun`; the invariants of the screens whose state
   grows with a constant (`Store`, `QueueForms`, `DownloadsScreen`), each in a
   module of its own as `AddDialogProofs` is.
