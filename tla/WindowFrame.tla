----------------------------- MODULE WindowFrame -----------------------------
(***************************************************************************)
(* How the windows follow the settings and the system (app/src/lib         *)
(* i18n.tsx, native.ts, appearance.ts, main.tsx, useTheme in App.tsx) and  *)
(* the parts of the main window's frame drawn from the outside world       *)
(* (app/src/app/Shell.tsx: window buttons, speed graph).                   *)
(*                                                                         *)
(* Four parts with a next-state relation each: the language, the theme,    *)
(* the window buttons and the graph.  Languages are the texts a window     *)
(* shows; Nav is the system's language.  External: the core's settings     *)
(* and their event, the shell's window and its answers, which come in the  *)
(* order they were asked for.  Bounds: MaxChanges changes from outside,    *)
(* MaxPopups popups, samples up to MaxSpeed and MaxSamples of them.        *)
(***************************************************************************)
EXTENDS Integers, FiniteSets, Sequences

CONSTANTS Nav, MaxChanges, MaxPopups, MaxSpeed, MaxSamples, Kept

WindowFrameAssumption ==
  /\ Nav \in {"en", "de"} /\ {MaxChanges, MaxPopups, MaxSpeed, MaxSamples} \subseteq Nat /\ Kept \in Nat \ {0}

VARIABLES
  setting, known, stored, lang, text, native, popups, mounted,  \* language
  theme, os, followed, pinned, root, told,                      \* theme
  platform, maximized, queries, answers, label,                 \* window buttons
  down, up, samples,                                            \* speed graph
  changes

langVars == <<setting, known, stored, lang, text, native, popups, mounted>>
themeVars == <<theme, os, followed, pinned, root, told>>
buttonVars == <<platform, maximized, queries, answers, label>>
graphVars == <<down, up, samples>>
wfVars == <<langVars, themeVars, buttonVars, graphVars, changes>>

Languages == {"en", "de"}
Settable == Languages \cup {"system"}
Change == changes < MaxChanges /\ changes' = changes + 1

-----------------------------------------------------------------------------
(* The language.  The choice is kept in the page's own storage, so that     *)
(* every window starts in it; known is the setting the store has.           *)

Resolve(pref) == IF pref = "system" THEN Nav ELSE pref

\* A window's page starts: the language's table may fail to load.
InitLanguage(table) == [lang |-> Resolve(stored), text |-> IF table THEN Resolve(stored) ELSE "en"]

\* The first rendering hands the shell its texts.
SyncNativeStrings == native' = text /\ mounted' = TRUE

Mount ==
  /\ ~mounted /\ SyncNativeStrings
  /\ UNCHANGED <<setting, known, stored, lang, text, popups, themeVars, buttonVars, graphVars, changes>>

\* Mutated form: the choice is remembered, the window is not reloaded.
SyncQuietly(s) == stored' = s /\ UNCHANGED <<lang, text, mounted>>

\* Remember the setting; reload the window when its language changes.
SyncLanguage(s) ==
  /\ stored' = s
  /\ IF stored # s /\ Resolve(s) # lang THEN \E table \in BOOLEAN :
          /\ mounted' = FALSE /\ lang' = Resolve(s) /\ text' = IF table THEN Resolve(s) ELSE "en"
     ELSE UNCHANGED <<lang, text, mounted>>

\* The settings have come, or come anew: the window applies them.  A page that
\* is reloaded asks for them again.
SettingsArrive ==
  /\ mounted /\ known # setting /\ SyncLanguage(setting)
  /\ known' = IF mounted' THEN setting ELSE ""
  /\ UNCHANGED <<setting, native, popups, themeVars, buttonVars, graphVars, changes>>

SetLanguage(s) ==
  /\ Change /\ setting' = s
  /\ UNCHANGED <<known, stored, lang, text, native, popups, mounted, themeVars, buttonVars, graphVars>>

\* "Download File" and progress windows load the same page and do not watch the language.
OpenPopup(kind, table) ==
  /\ Cardinality(popups) < MaxPopups
  /\ popups' = popups \cup {[page |-> kind, no |-> Cardinality(popups), text |-> InitLanguage(table).text, setting |-> stored]}
  /\ UNCHANGED <<setting, known, stored, lang, text, native, mounted, themeVars, buttonVars, graphVars, changes>>

NextLanguage ==
  \/ Mount \/ SettingsArrive \/ \E s \in Settable : SetLanguage(s)
  \/ \E kind \in {"prompt", "progress"}, table \in BOOLEAN : OpenPopup(kind, table)

-----------------------------------------------------------------------------
(* The theme.  told is what the shell was told last: a pinned window theme  *)
(* also decides what the page sees as the system's; followed is what the    *)
(* page sees.                                                               *)

Seen(t, dark) == IF t = "system" THEN dark ELSE t = "dark"

ApplyAppearance(t, seen) == IF Seen(t, seen) THEN "dark" ELSE "light"

\* Mutated form: the page is not told when what it follows changes.
ListenDeaf(t, seen) == UNCHANGED <<root, told>>

\* The theme is applied to the page, and the shell is told.
Apply(t, seen) == root' = ApplyAppearance(t, seen) /\ told' = [dark |-> Seen(t, seen), follow |-> t = "system"]

Listen(t, seen) == Apply(t, seen)

\* Changing the theme applies it with what the page sees now.
SetTheme(t) ==
  /\ Change /\ theme # t /\ theme' = t /\ Apply(t, followed)
  /\ UNCHANGED <<os, followed, pinned, langVars, buttonVars, graphVars>>

\* The shell pins its window's theme, or lets it follow the system.
ShellTakes ==
  /\ pinned # told /\ pinned' = told
  /\ UNCHANGED <<theme, os, followed, root, told, langVars, buttonVars, graphVars, changes>>

SystemChanges ==
  /\ Change /\ os' = ~os
  /\ UNCHANGED <<theme, followed, pinned, root, told, langVars, buttonVars, graphVars>>

Real == IF pinned.follow THEN os ELSE pinned.dark

\* What the page sees changes: it applies the theme again.
SchemeChanges ==
  /\ followed # Real /\ followed' = Real /\ Listen(theme, Real)
  /\ UNCHANGED <<theme, os, pinned, langVars, buttonVars, graphVars, changes>>

NextTheme == ShellTakes \/ SystemChanges \/ SchemeChanges \/ \E t \in {"light", "dark", "system"} : SetTheme(t)

-----------------------------------------------------------------------------
(* The window's buttons *)

\* Where the platform wants the buttons; Default when it cannot be asked.
Layouts == {[left |-> <<>>, right |-> <<"minimize", "maximize", "close">>], [left |-> <<"close">>, right |-> <<>>],
            [left |-> <<>>, right |-> <<>>]}
NoLayout == [left |-> <<>>, right |-> <<>>]
Default == [left |-> <<>>, right |-> <<"minimize", "maximize", "close">>]

\* Mutated form: buttons that are drawn first do not ask.
FirstAsksNot(p) == queries

\* Buttons ask for the window's state when they are first drawn.
FirstAsks(p) == IF p = NoLayout THEN queries ELSE queries + 1

\* The layout is asked for once.
LoadPlatform(p) ==
  /\ platform = <<>> /\ platform' = <<p>> /\ queries' = FirstAsks(p)
  /\ UNCHANGED <<maximized, answers, label, langVars, themeVars, graphVars, changes>>

PlatformFails == LoadPlatform(Default)

Drawn == platform # <<>> /\ platform # <<NoLayout>>

\* The window is made larger or smaller, by its buttons or otherwise.
Resized ==
  /\ Change /\ maximized' = ~maximized /\ queries' = IF Drawn THEN queries + 1 ELSE queries
  /\ UNCHANGED <<platform, answers, label, langVars, themeVars, graphVars>>

\* The shell looks at its window; the answer is on its way.
IsMaximized ==
  /\ queries > 0 /\ queries' = queries - 1 /\ answers' = Append(answers, maximized)
  /\ UNCHANGED <<platform, maximized, label, langVars, themeVars, graphVars, changes>>

Sync ==
  /\ answers # <<>> /\ answers' = Tail(answers) /\ label' = Head(answers)
  /\ UNCHANGED <<platform, maximized, queries, langVars, themeVars, graphVars, changes>>

NextButtons == PlatformFails \/ (\E p \in Layouts : LoadPlatform(p)) \/ Resized \/ IsMaximized \/ Sync

-----------------------------------------------------------------------------
(* The speed graph: 180 wide, 56 high; positions in tenths.                 *)

W == 1800
H == 560

Most(s) == LET all == {0} \cup {s[i] : i \in DOMAIN s} IN CHOOSE m \in all : \A x \in all : x <= m
Larger(a, b) == IF a > b THEN a ELSE b

Peak == Larger(Most(down), Most(up))

\* Mutated form: each line has a scale of its own.
ScaleOwn(s) == Larger(5 * Most(s), 4)

\* A quarter above the peak, times four; both lines share it.
Scale(s) == Larger(5 * Peak, 4)

Slots == Larger(2, Larger(Len(down), Len(up)))

\* The points of a line, the latest at the right edge.
Points(s) ==
  LET vs == IF s = <<>> THEN <<0, 0>> ELSE s IN
    [i \in 1 .. Len(vs) |-> [v |-> vs[i], x |-> ((i - 1 + Slots - Len(vs)) * W) \div (Slots - 1),
                             y |-> H - 20 - (vs[i] * 4 * (H - 80)) \div Scale(s)]]

\* Samples of both, the last Kept of them; nothing runs any more: none.
Sampled(s, v) == LET t == Append(s, v) IN SubSeq(t, IF Len(t) > Kept THEN Len(t) - Kept + 1 ELSE 1, Len(t))

Sample(d, u) ==
  /\ samples < MaxSamples /\ samples' = samples + 1 /\ down' = Sampled(down, d) /\ up' = Sampled(up, u)
  /\ UNCHANGED <<langVars, themeVars, buttonVars, changes>>

Idle ==
  /\ down # <<>> /\ down' = <<>> /\ up' = <<>>
  /\ UNCHANGED <<samples, langVars, themeVars, buttonVars, changes>>

NextGraph == Idle \/ \E d, u \in 0 .. MaxSpeed : Sample(d, u)

-----------------------------------------------------------------------------
WfInit ==
  /\ setting \in {"system", "de"} /\ known = "" /\ stored \in {"system", setting} /\ popups = {} /\ mounted = FALSE
  /\ lang = Resolve(stored) /\ text = lang /\ native = "en"
  /\ theme = "system" /\ os = FALSE /\ followed = FALSE /\ root = "light"
  /\ told = [dark |-> FALSE, follow |-> TRUE] /\ pinned = told
  /\ platform = <<>> /\ maximized \in BOOLEAN /\ queries = 0 /\ answers = <<>> /\ label = FALSE
  /\ down = <<>> /\ up = <<>> /\ samples = 0 /\ changes = 0

WfSpec == WfInit /\ [][NextLanguage \/ NextTheme \/ NextButtons \/ NextGraph]_wfVars

-----------------------------------------------------------------------------
(* Properties *)

WfTypeOK ==
  /\ {setting, stored} \subseteq Settable /\ known \in Settable \cup {""} /\ {lang, text, native} \subseteq Languages
  /\ theme \in {"light", "dark", "system"} /\ root \in {"light", "dark"}
  /\ {os, followed, maximized, label, mounted} \subseteq BOOLEAN
  /\ queries + Len(answers) <= MaxChanges + 1 /\ Len(down) <= Kept /\ Len(up) <= Kept

\* A window that has the settings is in the language they ask for, and the shell
\* speaks the language the window does, whatever was changed on the way.
LanguageFollows ==
  /\ known # "" => lang = Resolve(known) /\ stored = known
  /\ mounted => native = text

\* When nobody is telling anybody, the page has the theme of the settings: of
\* the system's now, if they say so.  Going from a pinned theme to the system's
\* takes two rounds.
ThemeFollows == pinned = told /\ followed = Real => root = ApplyAppearance(theme, os)

\* The button says what it will do once all questions are answered.
LabelFollows == Drawn /\ queries = 0 /\ answers = <<>> => label = maximized

\* The two lines are drawn to one scale: more speed is never drawn lower.  Both
\* end at the right edge and stay inside the graph.
GraphHonest ==
  LET d == Points(down)  u == Points(up)
      all == {d[i] : i \in DOMAIN d} \cup {u[i] : i \in DOMAIN u} IN
    /\ \A p, q \in all : p.v <= q.v => q.y <= p.y
    /\ \A p \in all : p.x \in 0 .. W /\ p.y \in 0 .. H
    /\ d[Len(d)].x = W /\ u[Len(u)].x = W

=============================================================================
