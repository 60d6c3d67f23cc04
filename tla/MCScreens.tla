------------------------------ MODULE MCScreens ------------------------------
(***************************************************************************)
(* Instances for TLC of the screens, windows and stores of the user        *)
(* interface, each with the part of the core or of the browser it talks    *)
(* to, and of the pure functions they show with.  They share no state and  *)
(* are checked one at a time: part names the component that runs, and the  *)
(* variables x1, x2, ... hold its state, in the order it declares it.      *)
(***************************************************************************)
EXTENDS Integers, Sequences, FiniteSets, TLC

VARIABLES
  part,  \* the component that runs
  x1, x2, x3, x4, x5, x6, x7, x8, x9, x10, x11, x12, x13, x14, x15, x16, x17, x18, x19, x20, x21,
  x22, x23  \* its variables, in its order

vars == <<part, x1, x2, x3, x4, x5, x6, x7, x8, x9, x10, x11, x12, x13, x14, x15, x16, x17, x18,
          x19, x20, x21, x22, x23>>

\* A video with two qualities and a playlist of two entries.
Heights == [v |-> <<1440, 720>>, p |-> <<>>]
Entries == [v |-> {}, p |-> {1, 2}]

\* Two pages that share a link.
Found == [a |-> {1, 2}, b |-> {2, 3}]

\* One range; two that count down; three of which the limit cuts off most.
R(a, b, s, l) == [from |-> a, to |-> b, step |-> s, letters |-> l]
Patterns ==
  { <<R(1, 3, 1, FALSE)>>, <<R(4, 1, 2, FALSE), R(2, 1, 1, TRUE)>>,
    <<R(1, 2, 1, FALSE), R(1, 4, 3, FALSE), R(1, 1, 1, FALSE)>> }

\* Two segments under way, or the bit field of a torrent.
Answers ==
  { [segments |-> <<[start |-> 0, got |-> 1], [start |-> 2, got |-> 3]>>, bits |-> <<>>],
    [segments |-> <<>>, bits |-> <<1, 0, 1, 1, 0>>] }

MenuKinds == {<<"act", "disabled", "sub", "act">>, <<"heading", "disabled">>}

\* A package of three files: one shorter, two longer when deflated or not.
File(l, d, z) == [name |-> l, data |-> d, deflated |-> z]
Contents == {<<File(13, 2, 5), File(4, 300, 120), File(5, 0, 2)>>}

\* Bytes on both sides of every change of unit, of decimals and of rounding.
Amounts ==
  { 0, 1, 99, 1023, 1024, 1075, 1076, 1125, 102399, 102347, 102348, 102400,
    102911, 102912, 1048063, 1048064, 1048575, 1048576, 104805171, 104857600,
    105381887, 105381888, 106954752 }
\* The same of tenths of a second.
Tenths ==
  { 0, 4, 5, 594, 595, 599, 600, 604, 605, 35994, 35995, 35999, 36000,
    1727994, 1727995, 1728000, 864004 }
\* Three days, one of them may be an hour short or long; hours in them.
Calendars == {<<24, 24, 24>>, <<24, 23, 24>>, <<24, 25, 24>>}
Moments == {0, 1, 22, 23, 24, 25, 46, 47, 48, 49, 69, 70}

\* What browsers say of themselves; the last is a tablet that passes for a computer.
Visit(s, u, p, x) == [system |-> s, ua |-> u, platform |-> p, poses |-> x]
Visitors ==
  { Visit("windows", {"windows"}, {"win"}, FALSE), Visit("mac", {"mac os"}, {"mac"}, FALSE),
    Visit("linux", {"linux"}, {"linux"}, FALSE), Visit("android", {"android", "linux"}, {"linux"}, FALSE),
    Visit("ios", {"iphone", "mac os"}, {"iphone"}, FALSE), Visit("ios", {"mac os"}, {"mac"}, TRUE) }

\* A page with repeated links, one of a scheme not taken, a selection and media; a
\* page with one link.
El(u, m, s) == [url |-> u, media |-> m, selected |-> s]
Elements ==
  << <<El("b", FALSE, FALSE), El("m", TRUE, TRUE), El("js", FALSE, TRUE),
       El("a", FALSE, TRUE), El("b", FALSE, TRUE), El("a", TRUE, FALSE)>>,
     <<El("c", FALSE, FALSE)>> >>

CategoryOf == [id \in {"a", "b"} |-> "c1"]
QueueOf == [id \in {"a", "b"} |-> IF id = "a" THEN "main" ELSE "q1"]

\* Downloads that tie in every column.
Row(l, t, d, s, st, p, c, f) ==
  [ name |-> l, total |-> t, done |-> d, speed |-> s, status |-> st,
    position |-> p, created |-> c, completed |-> f ]
Samples ==
  { Row(1, 0, 5, 1, "downloading", 0, 1, 0), Row(1, 10, 5, 0, "paused", 0, 2, 0),
    Row(2, 10, 5, 1, "downloading", 1, 3, 0), Row(2, 20, 20, 0, "completed", 0, 4, 9),
    Row(3, 20, 0, 0, "queued", 1, 5, 0), Row(1, 20, 20, 0, "seeding", 2, 6, 8) }

M == INSTANCE MediaDetection WITH
  Media <- {"m1", "m2"}, MaxSize <- 1, MaxPages <- 2, MaxKills <- 1, MaxCalls <- 2,
  page <- x1, wanted <- x2, detected <- x3, session <- x4, saves <- x5, badges <- x6, badge <- x7,
  popup <- x8, cut <- x9, kills <- x10
P == INSTANCE PageScript WITH
  Videos <- {1, 2}, Names <- {"n1", "n2"}, MaxChanges <- 5,
  vids <- x1, inView <- x2, names <- x3, queued <- x4, reported <- x5, target <- x6, built <- x7,
  attached <- x8, visible <- x9, generic <- x10, seen <- x11, hides <- x12, recent <- x13,
  scans <- x14, changes <- x15, moved <- x16, late <- x17
St == INSTANCE Store WITH
  Ids <- {1, 2}, MaxChanges <- 2, MaxPrompts <- 1, Capacity <- 1,
  core <- x1, unsent <- x2, bus <- x3, uiReady <- x4, hidden <- x5, early <- x6, pending <- x7,
  events <- x8, start <- x9, listing <- x10, answer <- x11, rows <- x12, shown <- x13, speed <- x14,
  prompts <- x15, stale <- x16, behind <- x17, dropped <- x18, asked <- x19, changes <- x20
Ds == INSTANCE DownloadsScreen WITH
  Ids <- {1, 2}, QueuedIds <- {1}, FoundIds <- {2}, DoneIds <- {2}, MaxChanges <- 1,
  rows <- x1, changes <- x2, view <- x3, filter <- x4, searching <- x5, dir <- x6, selection <- x7,
  cursor <- x8, anchor <- x9, menu <- x10, removing <- x11, deleteFiles <- x12, ticked <- x13,
  call <- x14
In == INSTANCE InspectorPanel WITH
  Downloads <- {"d1", "d2"}, MaxShows <- 2, MaxLoads <- 2,
  status <- x1, shown <- x2, expanded <- x3, details <- x4, loads <- x5, edit <- x6, switched <- x7,
  edits <- x8, edited <- x9, verify <- x10, shows <- x11, asks <- x12
Se == INSTANCE Settings WITH
  MaxWrites <- 2, MaxLeaves <- 1,
  core <- x1, wanted <- x2, events <- x3, loaded <- x4, store <- x5, refreshes <- x6, calls <- x7,
  section <- x8, leaves <- x9, draft <- x10, writes <- x11, met <- x12, late <- x13
Qf == INSTANCE QueueForms WITH
  MaxWrites <- 3, MaxForms <- 1,
  core <- x1, wanted <- x2, events <- x3, store <- x4, pipe <- x5, list <- x6, form <- x7,
  forms <- x8, writes <- x9, raced <- x10, gone <- x11
Tj == INSTANCE ToolJobs WITH
  MaxCalls <- 1, MaxForeign <- 1,
  running <- x1, installed <- x2, events <- x3, opening <- x4, jobs <- x5, waiters <- x6,
  calls <- x7, foreign <- x8, info <- x9, infos <- x10, crossed <- x11, overtaken <- x12
Ai == INSTANCE AirSendScreen WITH
  Files <- {"f"}, Links <- {"l"}, Trusts <- {}, Notes <- {}, Sends <- {}, MaxLoads <- 0,
  MaxListed <- 1, MaxNotes <- 1,
  transfer <- x1, deciding <- x2, events <- x3, transfers <- x4, prompts <- x5, loads <- x6,
  loaded <- x7, decides <- x8, sending <- x9, sent <- x10, asked <- x11, pinFor <- x12,
  peerHere <- x13, stale <- x14, unsure <- x15, early <- x16
An == INSTANCE AirSendScreen WITH
  Files <- {"f"}, Links <- {}, Trusts <- {}, Notes <- {"n"}, Sends <- {}, MaxLoads <- 1,
  MaxListed <- 1, MaxNotes <- 1,
  transfer <- x1, deciding <- x2, events <- x3, transfers <- x4, prompts <- x5, loads <- x6,
  loaded <- x7, decides <- x8, sending <- x9, sent <- x10, asked <- x11, pinFor <- x12,
  peerHere <- x13, stale <- x14, unsure <- x15, early <- x16
As == INSTANCE AirSendScreen WITH
  Files <- {}, Links <- {}, Trusts <- {}, Notes <- {}, Sends <- {"s1", "s2"}, MaxLoads <- 1,
  MaxListed <- 2, MaxNotes <- 1,
  transfer <- x1, deciding <- x2, events <- x3, transfers <- x4, prompts <- x5, loads <- x6,
  loaded <- x7, decides <- x8, sending <- x9, sent <- x10, asked <- x11, pinFor <- x12,
  peerHere <- x13, stale <- x14, unsure <- x15, early <- x16
Vs == INSTANCE VideoScreen WITH
  Links <- {"v", "p"}, Heights <- Heights, Audio <- {"p"}, Entries <- Entries, ListOnly <- {"p"},
  Preferred <- 1080, MaxLookups <- 2,
  open <- x1, prefill <- x2, link <- x3, playlist <- x4, info <- x5, loading <- x6, error <- x7,
  mode <- x8, height <- x9, items <- x10, option <- x11, reqId <- x12, calls <- x13, menu <- x14,
  busy <- x15, sent <- x16
Ls == INSTANCE LinkScreens WITH
  Pages <- {"a", "b"}, Found <- Found, Kind <- <<"zip", "html", "pdf">>, PageKinds <- {"html"},
  Matching <- {1, 2}, MaxReads <- 2, Patterns <- Patterns, Limit <- 3, MaxLines <- 2, MaxAdds <- 1,
  pageUrl <- x1, links <- x2, reading <- x3, error <- x4, filesOnly <- x5, filtered <- x6,
  types <- x7, selected <- x8, menu <- x9, adding <- x10, busy <- x11, reads <- x12, text <- x13,
  pattern <- x14, batchBusy <- x15, urls <- x16, edited <- x17, added <- x18, adds <- x19
Pw == INSTANCE ProgressWindow WITH
  Answers <- Answers, Total <- 6, CellCount <- 3, MaxChanges <- 2, MaxCalls <- 2,
  row <- x1, changes <- x2, events <- x3, get <- x4, answer <- x5, listening <- x6, d <- x7,
  shown <- x8, closed <- x9, error <- x10, more <- x11, details <- x12, loads <- x13, calls <- x14,
  missed <- x15, crossed <- x16
Pa == INSTANCE PowerActions WITH
  MaxStarts <- 2, MaxSets <- 2,
  work <- x1, starts <- x2, queueBusy <- x3, anyBusy <- x4, afterAll <- x5, queueAfter <- x6,
  sets <- x7, toBegin <- x8, replaced <- x9, power <- x10, tasks <- x11, due <- x12,
  signalled <- x13, last <- x14, performed <- x15, quit <- x16, events <- x17, banner <- x18,
  cancels <- x19, allSets <- x20, allBegun <- x21, crossed <- x22
Ov == INSTANCE Overlays WITH
  Texts <- {"a", "b", "c", "d"}, MaxToasts <- 5, Menus <- MenuKinds, Controls <- 3,
  toasts <- x1, timers <- x2, nextId <- x3, checking <- x4, menu <- x5, active <- x6, sub <- x7,
  chosen <- x8, dialog <- x9, disabled <- x10, focus <- x11, lost <- x12
Bw == INSTANCE BrowserSetup WITH
  Browsers <- {1, 2}, MaxCalls <- 2, MaxEvents <- 3,
  registered <- x1, status <- x2, asks <- x3, busy <- x4, installs <- x5, loops <- x6, said <- x7,
  calls <- x8, unseen <- x9, settings <- x10, saves <- x11, step <- x12, opened <- x13,
  events <- x14
Pk == INSTANCE Packaging WITH
  Contents <- Contents, KeySizes <- {130}, MaxRevisions <- 2, MaxRuns <- 6,
  source <- x1, dist <- x2, pkgs <- x3, pc <- x4, runs <- x5, archive <- x6, staged <- x7,
  wanted <- x8, left <- x9, missing <- x10, conf <- x11
Tx == INSTANCE Texts WITH
  Words <- {"w", "."}, Nested <- {20, 21, 30}, Amounts <- Amounts, Tenths <- Tenths,
  Calendars <- Calendars, Moments <- Moments,
  message <- x1, meant <- x2, amount <- x3, time <- x4, days <- x5, now <- x6, then <- x7
Af == INSTANCE AppFrame WITH
  Ids <- {"a", "b"}, CategoryOf <- CategoryOf, QueueOf <- QueueOf, Categories <- {"c1"},
  MaxChanges <- 1, MaxSteps <- 2, MaxPastes <- 1,
  rows <- x1, queues <- x2, onboarded <- x3, changes <- x4, view <- x5, filter <- x6,
  selection <- x7, inspector <- x8, add <- x9, media <- x10, grab <- x11, section <- x12,
  narrow <- x13, open <- x14, menu <- x15, welcome <- x16, about <- x17, power <- x18, asked <- x19,
  pastes <- x20, toRead <- x21, steps <- x22
Sf == INSTANCE SettingsFields WITH
  MiB <- 10, MaxEdits <- 2, MaxVisits <- 1, IsWindows <- TRUE,
  row <- x1, core <- x2, stored <- x3, sent <- x4, draft <- x5, touched <- x6, saving <- x7,
  refused <- x8, shown <- x9, asked <- x10, custom <- x11, hover <- x12, edits <- x13, visits <- x14
Wf == INSTANCE WindowFrame WITH
  Nav <- "en", MaxChanges <- 3, MaxPopups <- 1, MaxSpeed <- 2, MaxSamples <- 3, Kept <- 2,
  setting <- x1, known <- x2, stored <- x3, lang <- x4, text <- x5, native <- x6, popups <- x7,
  mounted <- x8, theme <- x9, os <- x10, followed <- x11, pinned <- x12, root <- x13, told <- x14,
  platform <- x15, maximized <- x16, queries <- x17, answers <- x18, label <- x19, down <- x20,
  up <- x21, samples <- x22, changes <- x23
Ud == INSTANCE Updates WITH
  MaxChecks <- 3, MaxOpens <- 2, MaxSwitches <- 2,
  enabled <- x1, timers <- x2, launch <- x3, toasts <- x4, switches <- x5, open <- x6, opens <- x7,
  update <- x8, error <- x9, busy <- x10, last <- x11, row <- x12, rowLast <- x13, calls <- x14,
  checks <- x15
Ap == INSTANCE AirSendPage WITH
  Peers <- {"p1"}, MaxClicks <- 2, MaxNames <- 1, MaxSends <- 2, MaxAround <- 12,
  service <- x1, setting <- x2, events <- x3, store <- x4, toAsk <- x5, answers <- x6, switch <- x7,
  status <- x8, busy <- x9, error <- x10, typed <- x11, clicks <- x12, names <- x13, unsaved <- x14,
  peers <- x15, opened <- x16, transfers <- x17, sending <- x18, sent <- x19, made <- x20,
  around <- x21
Lr == INSTANCE ListRows WITH
  Counts <- {0, 6}, Heights <- {70, 110}, Overscan <- 1, Samples <- Samples, MaxSteps <- 6,
  count <- x1, height <- x2, compact <- x3, cursor <- x4, scroll <- x5, seen <- x6, trio <- x7,
  sort <- x8, scope <- x9, shown <- x10, search <- x11, searching <- x12, asked <- x13, over <- x14,
  hint <- x15, reading <- x16, dialog <- x17, notices <- x18, steps <- x19
Er == INSTANCE ExtensionRequests WITH
  Elements <- Elements, Good <- {"a", "b", "c", "m"}, WebPages <- {1}, MaxMoves <- 1, MaxCalls <- 2,
  MaxPopups <- 1, MaxLinks <- 3,
  tab <- x1, moves <- x2, popup <- x3, calls <- x4, got <- x5, notices <- x6
Si == INSTANCE Site WITH
  Items <- 3, MaxEntries <- 2, MaxTimeouts <- 2, Visitors <- Visitors,
  reduced <- x1, seen <- x2, entries <- x3, visible <- x4, frames <- x5, mine <- x6, skipped <- x7,
  current <- x8, shot <- x9, swap <- x10, timeouts <- x11, loading <- x12, returned <- x13,
  picked <- x14, cycling <- x15, visitor <- x16, linked <- x17
Sd == INSTANCE Schedules WITH
  SlotsPerDay <- 4, Week <- 2, Offset <- 1, LastSlot <- 10, Times <- {0, 3}, Stops <- {1},
  MaxEdits <- 2, MaxSaves <- 2, MaxRestarts <- 1,
  now <- x1, mem <- x2, row <- x3, active <- x4, running <- x5, tick <- x6, copy <- x7, at <- x8,
  form <- x9, drawn <- x10, opened <- x11, untouched <- x12, edits <- x13, saves <- x14,
  restarts <- x15, begun <- x16, count <- x17, stale <- x18, unwatched <- x19
Dl == INSTANCE DownloadLooks WITH
  PieceCounts <- {0, 3, 5, 7}, Limit <- 5,
  d <- x1, another <- x2, open <- x3, tab <- x4, have <- x5, count <- x6

ASSUME Assumptions ==
  /\ M!MediaAssumption
  /\ P!PageAssumption
  /\ St!StoreAssumption
  /\ Ds!ScreenAssumption
  /\ In!InspectorAssumption
  /\ Se!SettingsAssumption
  /\ Qf!FormsAssumption
  /\ Tj!ToolsAssumption
  /\ Ai!AirAssumption
  /\ An!AirAssumption
  /\ As!AirAssumption
  /\ Vs!VideoAssumption
  /\ Ls!LinksAssumption
  /\ Pw!ProgressAssumption
  /\ Pa!PowerAssumption
  /\ Ov!OverlaysAssumption
  /\ Bw!BrowserAssumption
  /\ Pk!PackagingAssumption
  /\ Tx!TextsAssumption
  /\ Af!AppFrameAssumption
  /\ Sf!SettingsFieldsAssumption
  /\ Wf!WindowFrameAssumption
  /\ Ud!UpdatesAssumption
  /\ Ap!AirSendPageAssumption
  /\ Lr!ListRowsAssumption
  /\ Er!RequestsAssumption
  /\ Si!SiteAssumption
  /\ Sd!SchedulesAssumption
  /\ Dl!DownloadLooksAssumption

\* The variables that a component does not have, from one on.
Rest23 == <<x23>>
Free23 == x23 = 0
Rest22 == <<x22, Rest23>>
Free22 == x22 = 0 /\ Free23
Rest21 == <<x21, Rest22>>
Free21 == x21 = 0 /\ Free22
Rest20 == <<x20, Rest21>>
Free20 == x20 = 0 /\ Free21
Rest18 == <<x18, x19, Rest20>>
Free18 == x18 = 0 /\ x19 = 0 /\ Free20
Rest17 == <<x17, Rest18>>
Free17 == x17 = 0 /\ Free18
Rest16 == <<x16, Rest17>>
Free16 == x16 = 0 /\ Free17
Rest15 == <<x15, Rest16>>
Free15 == x15 = 0 /\ Free16
Rest14 == <<x14, Rest15>>
Free14 == x14 = 0 /\ Free15
Rest13 == <<x13, Rest14>>
Free13 == x13 = 0 /\ Free14
Rest12 == <<x12, Rest13>>
Free12 == x12 = 0 /\ Free13
Rest11 == <<x11, Rest12>>
Free11 == x11 = 0 /\ Free12
Rest8 == <<x8, x9, x10, Rest11>>
Free8 == x8 = 0 /\ x9 = 0 /\ x10 = 0 /\ Free11
Rest7 == <<x7, Rest8>>
Free7 == x7 = 0 /\ Free8

Init ==
  \/ part = "media" /\ M!MdInit /\ Free11
  \/ part = "page script" /\ P!PgInit /\ Free18
  \/ part = "store" /\ St!StInit /\ Free21
  \/ part = "downloads" /\ Ds!DsInit /\ Free15
  \/ part = "inspector" /\ In!InInit /\ Free13
  \/ part = "settings" /\ Se!SeInit /\ Free14
  \/ part = "queues" /\ Qf!QfInit /\ Free12
  \/ part = "tools" /\ Tj!TjInit /\ Free13
  \/ part = "offers" /\ Ai!AirInit /\ Free17
  \/ part = "notes" /\ An!AirInit /\ Free17
  \/ part = "sends" /\ As!AirInit /\ Free17
  \/ part = "video" /\ Vs!VsInit /\ Free17
  \/ part \in {"grabber", "batch"} /\ Ls!LsInit /\ Free20
  \/ part = "progress" /\ Pw!PwInit /\ Free17
  \/ part = "power" /\ Pa!PaInit /\ Free23
  \/ part \in {"toasts", "menus", "dialogs"} /\ Ov!OvInit /\ Free13
  \/ part \in {"browsers", "guide"} /\ Bw!BwInit /\ Free15
  \/ part \in {"packages", "programs"} /\ Pk!PkInit /\ Free12
  \/ part \in {"messages", "formats"} /\ Tx!TxInit /\ Free8
  \/ part = "frame" /\ Af!AfInit /\ Free23
  \/ part = "fields" /\ Sf!SfInit /\ Free15
  \/ part \in {"language", "theme", "window buttons", "graph"} /\ Wf!WfInit
  \/ part = "updates" /\ Ud!UdInit /\ Free16
  \/ part \in {"air status", "air transfers", "air places"} /\ Ap!ApInit /\ Free22
  \/ part \in {"rows", "order", "search", "drop"} /\ Lr!LrInit /\ Free20
  \/ part = "requests" /\ Er!ErInit /\ Free7
  \/ part \in {"site field", "site features", "site system"} /\ Si!SiteInit /\ Free18
  \/ part = "schedules" /\ Sd!ScInit /\ Free20
  \/ part \in {"looks", "pieces"} /\ Dl!DlInit /\ Free7

Media == part = "media" /\ M!MdNext /\ UNCHANGED <<part, Rest11>>
PageScript == part = "page script" /\ P!PgNext /\ UNCHANGED <<part, Rest18>>
Store == part = "store" /\ St!StNext /\ UNCHANGED <<part, Rest21>>
Downloads == part = "downloads" /\ Ds!DsNext /\ UNCHANGED <<part, Rest15>>
Inspector == part = "inspector" /\ In!InNext /\ UNCHANGED <<part, Rest13>>
Settings == part = "settings" /\ Se!SeNext /\ UNCHANGED <<part, Rest14>>
Queues == part = "queues" /\ Qf!QfNext /\ UNCHANGED <<part, Rest12>>
Tools == part = "tools" /\ Tj!TjNext /\ UNCHANGED <<part, Rest13>>
Offers == part = "offers" /\ Ai!AirNext /\ UNCHANGED <<part, Rest17>>
Notes == part = "notes" /\ An!AirNext /\ UNCHANGED <<part, Rest17>>
Sends == part = "sends" /\ As!AirNext /\ UNCHANGED <<part, Rest17>>
Video == part = "video" /\ Vs!VsNext /\ UNCHANGED <<part, Rest17>>
Grabber == part = "grabber" /\ Ls!NextGrabber /\ UNCHANGED <<part, Rest20>>
Batch == part = "batch" /\ Ls!NextBatch /\ UNCHANGED <<part, Rest20>>
Progress == part = "progress" /\ Pw!PwNext /\ UNCHANGED <<part, Rest17>>
Power == part = "power" /\ Pa!PaNext /\ UNCHANGED <<part, Rest23>>
Toasts == part = "toasts" /\ Ov!NextToasts /\ UNCHANGED <<part, Rest13>>
Menus == part = "menus" /\ Ov!NextMenu /\ UNCHANGED <<part, Rest13>>
Dialogs == part = "dialogs" /\ Ov!NextDialog /\ UNCHANGED <<part, Rest13>>
Browsers == part = "browsers" /\ Bw!NextBrowsers /\ UNCHANGED <<part, Rest15>>
Guide == part = "guide" /\ Bw!NextGuide /\ UNCHANGED <<part, Rest15>>
Packages == part = "packages" /\ Pk!NextPackages /\ UNCHANGED <<part, Rest12>>
Programs == part = "programs" /\ Pk!NextPrograms /\ UNCHANGED <<part, Rest12>>
Messages == part = "messages" /\ Tx!NextMessages /\ UNCHANGED <<part, Rest8>>
Formats == part = "formats" /\ Tx!NextFormats /\ UNCHANGED <<part, Rest8>>
Frame == part = "frame" /\ Af!NextFrame /\ UNCHANGED <<part, Rest23>>
Fields == part = "fields" /\ Sf!SfNext /\ UNCHANGED <<part, Rest15>>
Language == part = "language" /\ Wf!NextLanguage /\ UNCHANGED part
Theme == part = "theme" /\ Wf!NextTheme /\ UNCHANGED part
WindowButtons == part = "window buttons" /\ Wf!NextButtons /\ UNCHANGED part
Graph == part = "graph" /\ Wf!NextGraph /\ UNCHANGED part
Updates == part = "updates" /\ Ud!UdNext /\ UNCHANGED <<part, Rest16>>
AirStatus == part = "air status" /\ Ap!NextStatus /\ UNCHANGED <<part, Rest22>>
AirTransfers == part = "air transfers" /\ Ap!NextSends /\ UNCHANGED <<part, Rest22>>
AirPlaces == part = "air places" /\ Ap!NextAround /\ UNCHANGED <<part, Rest22>>
Rows == part = "rows" /\ Lr!NextRows /\ UNCHANGED <<part, Rest20>>
Order == part = "order" /\ Lr!NextOrder /\ UNCHANGED <<part, Rest20>>
Search == part = "search" /\ Lr!NextSearch /\ UNCHANGED <<part, Rest20>>
Drop == part = "drop" /\ Lr!NextDrop /\ UNCHANGED <<part, Rest20>>
Requests == part = "requests" /\ Er!ErNext /\ UNCHANGED <<part, Rest7>>
SiteField == part = "site field" /\ Si!NextField /\ UNCHANGED <<part, Rest18>>
SiteFeatures == part = "site features" /\ Si!NextPicture /\ UNCHANGED <<part, Rest18>>
SiteSystem == part = "site system" /\ Si!NextSystem /\ UNCHANGED <<part, Rest18>>
Schedules == part = "schedules" /\ Sd!NextSchedules /\ UNCHANGED <<part, Rest20>>
Looks == part = "looks" /\ Dl!NextLooks /\ UNCHANGED <<part, Rest7>>
Pieces == part = "pieces" /\ Dl!NextPieces /\ UNCHANGED <<part, Rest7>>

Next ==
  \/ Media \/ PageScript \/ Store \/ Downloads \/ Inspector \/ Settings
  \/ Queues \/ Tools \/ Offers \/ Notes \/ Sends \/ Video
  \/ Grabber \/ Batch \/ Progress \/ Power \/ Toasts \/ Menus
  \/ Dialogs \/ Browsers \/ Guide \/ Packages \/ Programs \/ Messages
  \/ Formats \/ Frame \/ Fields \/ Language \/ Theme \/ WindowButtons
  \/ Graph \/ Updates \/ AirStatus \/ AirTransfers \/ AirPlaces \/ Rows
  \/ Order \/ Search \/ Drop \/ Requests \/ SiteField \/ SiteFeatures
  \/ SiteSystem \/ Schedules \/ Looks \/ Pieces

Spec == Init /\ [][Next]_vars

-----------------------------------------------------------------------------
\* Every component keeps its types.
TypesOK ==
  /\ part = "media" => M!MdTypeOK
  /\ part = "page script" => P!PgTypeOK
  /\ part = "store" => St!StTypeOK
  /\ part = "downloads" => Ds!DsTypeOK
  /\ part = "inspector" => In!InTypeOK
  /\ part = "settings" => Se!SeTypeOK
  /\ part = "queues" => Qf!QfTypeOK
  /\ part = "tools" => Tj!TjTypeOK
  /\ part = "offers" => Ai!AirTypeOK
  /\ part = "notes" => An!AirTypeOK
  /\ part = "sends" => As!AirTypeOK
  /\ part = "video" => Vs!VsTypeOK
  /\ part \in {"grabber", "batch"} => Ls!LsTypeOK
  /\ part = "progress" => Pw!PwTypeOK
  /\ part = "power" => Pa!PaTypeOK
  /\ part \in {"toasts", "menus", "dialogs"} => Ov!OvTypeOK
  /\ part \in {"browsers", "guide"} => Bw!BwTypeOK
  /\ part \in {"packages", "programs"} => Pk!PkTypeOK
  /\ part \in {"messages", "formats"} => Tx!TxTypeOK
  /\ part = "frame" => Af!AfTypeOK
  /\ part = "fields" => Sf!SfTypeOK
  /\ part \in {"language", "theme", "window buttons", "graph"} => Wf!WfTypeOK
  /\ part = "updates" => Ud!UdTypeOK
  /\ part \in {"air status", "air transfers", "air places"} => Ap!ApTypeOK
  /\ part \in {"rows", "order", "search", "drop"} => Lr!LrTypeOK
  /\ part \in {"looks", "pieces"} => Dl!DlTypeOK
  /\ part = "schedules" => Sd!ScTypeOK
  /\ part = "requests" => Er!ErTypeOK
  /\ part \in {"site field", "site features", "site system"} => Si!SiteTypeOK

(* Each of the following is stated and commented part by part in the modules, with the cases it excepts. *)

\* With nothing on its way, what shows something agrees with what it shows: rows, lists and
\* prompts with the core as far as its events arrived, fields and rows of the database with
\* what was saved, badge and button with the page, windows with language and theme, the
\* bundled files with one revision of the sources. Where the code lets a row, a key or an
\* entry fall behind, the property of the component leaves out that one and names the race.
FollowsSource ==
  /\ part = "media" => M!BadgeCountsStored
  /\ part = "page script" => P!ButtonFollows /\ P!HidesAll
  /\ part = "store" => St!RowsFollow /\ St!ListsFollow /\ St!PromptsOnce
  /\ part = "settings" => Se!WindowFollows
  /\ part = "fields" => Sf!FieldShowsStored
  /\ part = "queues" => Qf!ListFollows /\ Qf!BarIsOfList
  /\ part = "schedules" => Sd!RowIsSchedule
  /\ part = "tools" => Tj!InfoFollows
  /\ part = "offers" => Ai!PromptsWait /\ Ai!TransfersFollow
  /\ part = "notes" => An!PromptsWait /\ An!TransfersFollow
  /\ part = "air status" => Ap!SwitchFollows
  /\ part = "video" => Vs!LookupIsCurrent
  /\ part = "progress" => Pw!RowFollows
  /\ part = "browsers" => Bw!StatusFollows
  /\ part = "language" => Wf!LanguageFollows
  /\ part = "theme" => Wf!ThemeFollows
  /\ part = "window buttons" => Wf!LabelFollows
  /\ part = "packages" => Pk!OneBuild
  /\ part = "programs" => Pk!StagedAll
  /\ part = "site features" => Si!PictureFollows

\* What the user does acts on what is seen: on listed rows, on ticked links, with choices
\* the link has, as the form shows them; a request carries the links of the page it names if
\* the tab is still there when it is read; trying again sends the same to the same device;
\* Enter chooses what is highlighted, and the keyboard stays in the dialog.
ActsAsShown ==
  /\ part = "downloads" => Ds!SelectionListed /\ Ds!CursorInList
  /\ part = "video" => Vs!RequestFits
  /\ part = "grabber" => Ls!ListFits
  /\ part = "schedules" => Sd!SentAsShown /\ Sd!UntouchedStays
  /\ part = "requests" => Er!GrabbedAsAsked
  /\ part = "air transfers" => Ap!AgainIsSame
  /\ part = "menus" => Ov!MenuFits
  /\ part = "dialogs" => Ov!FocusInside
  /\ part = "looks" => Dl!SameWay

\* What was asked for is not lost on the way: a change survives every save that was made
\* knowing of it, the core keeps what a field sends it, a request arrives or its failure is
\* said to the user, or to the pop-up while it is there, a send that needs a PIN asks for
\* it, and installing in all browsers has tried each.
LosesNothing ==
  /\ part = "settings" => Se!NothingLost
  /\ part = "queues" => Qf!ChangesStay
  /\ part = "fields" => Sf!CoreKeeps
  /\ part = "requests" => Er!Told
  /\ part = "sends" => As!PinAsked
  /\ part = "browsers" => Bw!AllTried

\* What should happen once, or end, does: one countdown at a time, with its warning; a queue
\* is started once on its day and ended in its time; toasts leave, and jobs but for those
\* whose end another's took away; one check and one drawing loop; one entry for each medium,
\* and no more than the limit.
OnceInTime ==
  /\ part = "media" => M!Bounded /\ M!ListedOnce
  /\ part = "power" => Pa!OneCountdown /\ Pa!Warned /\ Pa!AfterAllOnce
  /\ part = "schedules" => Sd!StartsAsSaid /\ Sd!OnceADay /\ Sd!EndsInTime
  /\ part = "tools" => Tj!JobsEnd
  /\ part = "toasts" => Ov!ToastsGo
  /\ part = "updates" => Ud!ChecksOnlyEnabled
  /\ part = "site field" => Si!OneLoop /\ Si!DrawnWhileSeen
  /\ part = "site features" => Si!SwapEnds

\* What is drawn, counted, written or named means what it is taken for: lists without holes
\* and in one order, a tree that counts its lists, details of the download that is shown,
\* maps and graphs to scale, messages and numbers that say what they were made from,
\* archives that can be read.
ReadsRight ==
  /\ part = "frame" => Af!EntryCurrent /\ Af!CountsOfLists /\ Af!SelectionShown
  /\ part = "rows" => Lr!NoHoles
  /\ part = "order" => Lr!OneOrder
  /\ part = "search" => Lr!SearchSeen
  /\ part = "drop" => Lr!HintHonest
  /\ part = "looks" => Dl!RowAgrees /\ Dl!PaneProvided
  /\ part = "pieces" => Dl!MapHonest
  /\ part = "progress" => Pw!MapAddsUp
  /\ part = "graph" => Wf!GraphHonest
  /\ part = "air places" => Ap!Apart
  /\ part = "updates" => Ud!UpToDateIsSaid
  /\ part = "batch" => Ls!ExpandsInOrder
  /\ part = "messages" => Tx!ShownAsMeant
  /\ part = "formats" => Tx!TypedBack /\ Tx!TimeAddsUp /\ Tx!DaysNamed
  /\ part = "packages" => Pk!ArchiveReads /\ Pk!CrxReads
  /\ part = "site system" => Si!ButtonIsOfSystem

\* No step takes what is the user's or shows what is another's: files are deleted only if
\* the box was ticked, a link goes to the download it was typed for, typed text and links
\* stay, details are of the download that is shown and only while it is live, a guide that
\* was closed stays closed, and the cursor is brought into view.
StepsKeep == [][
  /\ part = "downloads" => Ds!FilesOnlyIfTicked
  /\ part = "inspector" => In!DetailsStay /\ In!EditIsOfDialog
  /\ part = "settings" => Se!TypingStays
  /\ part = "batch" => Ls!LostOnlyByHand
  /\ part = "progress" => Pw!DetailsOnlyLive
  /\ part = "guide" => Bw!GuideStaysClosed
  /\ part = "rows" => Lr!CursorSeen]_vars
=============================================================================
