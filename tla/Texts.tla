--------------------------------- MODULE Texts -------------------------------
(***************************************************************************)
(* Texts of the interface.                                                 *)
(*                                                                         *)
(* Messages of the engine (app/src/lib/engineText.ts, with tf of           *)
(* app/src/lib/i18n.tsx): the engine speaks English; te finds the template *)
(* a message was made from, takes the values out of it and puts them into  *)
(* the translation.  A text is a sequence of phrases.  A template is one   *)
(* too, in which holes stand for values; a translation is known by the     *)
(* number of its template.  Of the table there are the templates that have *)
(* holes, and some of those that have none, which are matched by equality. *)
(*                                                                         *)
(* Numbers and dates (app/src/lib/format.ts): a text is what it says, an   *)
(* amount in tenths of a unit, a length of time in parts, a date by its    *)
(* day.  Dividing by 1024 is exact in the code, so toFixed rounds halves   *)
(* up.  Bounds: amounts are below 102 MB, so that their tenths fit TLC's   *)
(* integers; a few moments of a few days, whose hours are counted.         *)
(***************************************************************************)
EXTENDS Integers, Sequences, FiniteSets, SequencesExt

CONSTANTS
  Words,     \* values of a hole
  Nested,    \* numbers of templates without holes that are values of others
  Amounts,   \* bytes, or bytes per second
  Tenths,    \* lengths of time, in tenths of a second
  Calendars, \* hours of the days, one after another
  Moments    \* hours since the first of them began

VARIABLES
  message, meant, \* what the engine said last, and what it meant by it
  amount,         \* an amount that is shown
  time,           \* a length of time that is shown
  days, now, then \* a calendar, this moment and one before it

txVars == <<message, meant, amount, time, days, now, then>>

ENGINE_TEMPLATES ==
  <<
    <<"A", "{algo}", "checksum must be", "{want}", "hexadecimal characters">>,
    <<"Can't create", "{path}", ":", "{error}">>, <<"Can't save", "{path}", ":", "{error}">>,
    <<"Can't write", "{path}", ":", "{error}">>,
    <<"Checksum mismatch (", "{algo}", "): expected", "{expected}", ", got", "{actual}", ".", "The file was not saved", ".">>,
    <<"Checksum mismatch for", "{name}", "- the download was discarded", ".">>,
    <<"Checksum mismatch: expected", "{expected}", ", got", "{actual}", ".", "The file may be corrupted - download it again", ".">>,
    <<"Could not create the destination folder", ".">>,
    <<"Could not create the folder", "{path}", ":", "{error}">>,
    <<"Could not create the folder", "{path}">>,
    <<"Could not find a free file name for", "{name}">>,
    <<"Could not reach", "the site", ".", "Check your connection", ".", "(", "{detail}", ")">>,
    <<"Could not reach", "{name}">>, <<"Could not scan", "{name}">>,
    <<"Download failed:", "{name}">>, <<"ETag changed">>,
    <<"Invalid proxy configuration:", "{error}">>,
    <<"Microsoft Defender could not scan the file (exit code", "{code}", ")", ".">>,
    <<"No KuDownloader with KuAirSend on at", "{address}", "(", "{error}", ")">>,
    <<"Not enough disk space", ".", "Free some space and resume the download", ".">>,
    <<"Not enough disk space", ".">>, <<"Request failed:", "{error}">>,
    <<"Sending [", "{name}", "] failed">>,
    <<"Server allows only", "{n}", "connections; KuDownloader is using", "{used}", ".">>,
    <<"Server allows only", "{n}", "connection; KuDownloader is using", "{used}", ".">>,
    <<"Server rejected additional connections", ".", "KuDownloader reduced the connection count to", "{n}", "and will retry automatically", ".">>,
    <<"Size check failed: expected", "{expected}", "bytes, got", "{actual}", ".">>,
    <<"Started over:", "{reason}", ".">>,
    <<"The connection ended early (", "{got}", "of", "{expected}", "bytes)", ".">>,
    <<"The connection was lost", ".">>,
    <<"The download engine rejected this download:", "{error}">>,
    <<"The download failed (aria2 code", "{code}", ")", ".">>,
    <<"The file changed on the server (", "{reason}", ")", ".">>,
    <<"The file is not on disk anymore:", "{path}">>,
    <<"The other device stopped the transfer (", "{status}", ")", ".">>,
    <<"The publisher's checksum list has no entry for", "{name}">>,
    <<"The scanner reported a problem (exit code", "{code}", ")", ".", "{detail}">>,
    <<"The server reported an internal error (HTTP", "{code}", ")", ".">>,
    <<"The server responded with HTTP", "{code}", ".">>,
    <<"The server sent an invalid range response (", "{detail}", ")", ".">>,
    <<"The site requires you to be signed in to access this media", ".", "Use the browser extension so your session cookies are sent", ".", "(", "{detail}", ")">>,
    <<"The virus scanner program was not found:", "{path}">>,
    <<"This address is a file (", "{type}", "), not a web page", ".", "Add it as a download instead", ".">>,
    <<"Threat found in", "{name}">>,
    <<"Throughput is scaling; increased to", "{n}", "connections", ".">>,
    <<"Too many redirects", ".">>, <<"Unknown tool:", "{name}">>,
    <<"Writing failed:", "{error}">>,
    <<"{name}", "asked to wait (too many attempts)", ".", "Try again in a minute", ".">>,
    <<"{name}", "does not have enough free space for this", ".">>,
    <<"{name}", "is receiving from someone else", ".", "Try again in a moment", ".">>,
    <<"{name}", "could not start the download", ".">>,
    <<"{name}", "refused the transfer (", "{status}", ")", ".">>,
    <<"{n}", "updated in [", "{queue}", "]">>, <<"[", "{name}", "] can't be read">>,
    <<"[", "{name}", "] started its queue", ".">>
  >>

Holes ==
  {
    "{actual}", "{address}", "{algo}", "{code}", "{detail}", "{error}", "{expected}", "{got}",
    "{name}", "{n}", "{path}", "{queue}", "{reason}", "{status}", "{type}", "{used}", "{want}"
  }

\* Holes whose values are messages themselves.
NESTED == {"{reason}", "{error}", "{detail}"}

TextsAssumption ==
  /\ Words \cap NESTED = {} /\ \A i \in Nested : i \in DOMAIN ENGINE_TEMPLATES
  /\ Amounts \subseteq 0 .. 106954752 /\ Tenths \subseteq Nat

TxInit ==
  /\ message = <<>> /\ meant = <<>>
  /\ amount = 0 /\ time = 0 /\ days = <<24>> /\ now = 0 /\ then = 0

-----------------------------------------------------------------------------
(* Templates *)

HolesOf(key) == {i \in DOMAIN key : key[i] \in Holes}

\* The literal after a hole, or after the beginning, 0.
Literal(key, i) == SubSeq(key, i + 1, Min({j \in HolesOf(key) : j > i} \cup {Len(key) + 1}) - 1)

\* Mutated form: the shorter literal text goes first.
LiteralLengthTurned(key) == FoldLeft(LAMBDA n, p : IF p \in Holes THEN n ELSE n - Len(p), 0, key)

LiteralLength(key) == FoldLeft(LAMBDA n, p : IF p \in Holes THEN n ELSE n + Len(p), 0, key)

\* t(key) with the values put in; the engine makes its messages the same way.
Fill(key, vars) == FlattenSeq([i \in DOMAIN key |-> IF key[i] \in Holes THEN vars[key[i]] ELSE <<key[i]>>])

-----------------------------------------------------------------------------
(* matchTemplate *)

StartsAt(lit, s, pos) == pos + Len(lit) <= Len(s) /\ SubSeq(s, pos + 1, pos + Len(lit)) = lit

\* Where the value of hole i ends, which begins at pos; -1 when nothing fits.  The
\* last literal must end the message; others are taken where they come first.
EndOf(key, i, s, pos) ==
  LET lit == Literal(key, i)
      last == i + Len(lit) = Len(key)
      ends == {e \in pos + 1 .. Len(s) : StartsAt(lit, s, e) /\ (last => e + Len(lit) = Len(s))}
  IN IF lit = <<>> THEN Len(s) ELSE IF ends = {} THEN -1 ELSE Min(ends)

\* Where the values begin and end, hole by hole.
Positions(key, s) ==
  LET at[i \in HolesOf(key)] ==
        LET before == {j \in HolesOf(key) : j < i}
            pos == IF before = {} THEN Len(Literal(key, 0)) ELSE at[Max(before)].end + Len(Literal(key, Max(before)))
        IN IF before # {} /\ at[Max(before)].end < 0 THEN [begin |-> 0, end |-> -1]
           ELSE [begin |-> pos, end |-> EndOf(key, i, s, pos)]
  IN at

Matches(key, s) ==
  LET at == Positions(key, s)
      holes == HolesOf(key)
  IN /\ StartsAt(Literal(key, 0), s, 0) /\ \A i \in holes : at[i].end > at[i].begin
     /\ IF holes = {} THEN s = key ELSE at[Max(holes)].end + Len(Literal(key, Max(holes))) = Len(s)

matchTemplate(key, s) ==
  LET at == Positions(key, s) IN [h \in {key[i] : i \in HolesOf(key)} |->
    LET i == CHOOSE j \in HolesOf(key) : key[j] = h IN SubSeq(s, at[i].begin + 1, at[i].end)]

-----------------------------------------------------------------------------
(* te *)

Known(s) == {k \in DOMAIN ENGINE_TEMPLATES : Matches(ENGINE_TEMPLATES[k], s)}

\* The most specific of the templates that match, in the order of the table.
Best(s) == CHOOSE k \in Known(s) : \A l \in Known(s) \ {k} :
  \/ LiteralLength(ENGINE_TEMPLATES[k]) > LiteralLength(ENGINE_TEMPLATES[l])
  \/ LiteralLength(ENGINE_TEMPLATES[k]) = LiteralLength(ENGINE_TEMPLATES[l]) /\ k < l

\* What is shown: translations with their values, and text that is left as it is.
Translated(k, vars) == <<[key |-> k, vars |-> vars]>>
Untranslated(s) == <<[key |-> 0, vars |-> s]>>

\* The sentences that end before the message does.
Heads(s) == {i \in 1 .. Len(s) - 1 : s[i] = "." /\ Known(SubSeq(s, 1, i)) # {}}

RECURSIVE te(_)

\* one: values that are messages are translated too.
One(s) ==
  LET vars == matchTemplate(ENGINE_TEMPLATES[Best(s)], s)
  IN Translated(Best(s), [h \in DOMAIN vars |-> IF h \in NESTED THEN te(vars[h]) ELSE Untranslated(vars[h])])

\* A message that is not known may be a known sentence and more, which is translated
\* the same way.
te(s) ==
  IF Known(s) # {} THEN One(s)
  ELSE IF Heads(s) # {} THEN One(SubSeq(s, 1, Min(Heads(s)))) \o te(SubSeq(s, Min(Heads(s)) + 1, Len(s)))
  ELSE Untranslated(s)

-----------------------------------------------------------------------------
(* The engine *)

\* A value of a hole: a message that is known, or words that are not.
Values(h, n, w) == IF h \in NESTED /\ n # 0 THEN ENGINE_TEMPLATES[n] ELSE <<w>>
Shown(h, n, w) == IF h \in NESTED /\ n # 0 THEN Translated(n, <<>>) ELSE Untranslated(<<w>>)

Says(k, n, w, more) ==
  LET key == ENGINE_TEMPLATES[k]
      holes == {key[i] : i \in HolesOf(key)}
  IN /\ message = <<>> /\ UNCHANGED <<amount, time, days, now, then>> /\ (more => Last(key) = ".")
     /\ message' = Fill(key, [h \in holes |-> Values(h, n, w)]) \o IF more THEN <<"errno 5">> ELSE <<>>
     /\ meant' = Translated(k, [h \in holes |-> Shown(h, n, w)]) \o IF more THEN Untranslated(<<"errno 5">>) ELSE <<>>

NextMessages ==
  \E k \in DOMAIN ENGINE_TEMPLATES, n \in Nested \cup {0}, w \in Words, more \in BOOLEAN :
    Says(k, n, w, more)

-----------------------------------------------------------------------------
(* Numbers *)

\* The integer nearest to p / q, halves up.
Round(p, q) == (2 * p + q) \div (2 * q)

-----------------------------------------------------------------------------
(* bytes, speed, parseRate *)

Unit(v) == IF v < 1024 THEN 0 ELSE IF v < 1048576 THEN 1 ELSE 2
Size(unit) == 1024 ^ unit

\* Mutated form: the decimals are cut off.
bytesCut(v) ==
  LET u == Unit(v) IN [unit |-> u, tenths |-> (10 * v) \div Size(u)]

\* From 100 of a unit on there are no decimals.
bytes(v) ==
  LET u == Unit(v) IN
    [unit |-> u, tenths |-> IF v >= 100 * Size(u) \/ u = 0 THEN 10 * Round(v, Size(u)) ELSE Round(10 * v, Size(u))]

\* What is typed as a rate: the same text without the unit's B and /s.
parseRate(text) == Round(text.tenths * Size(text.unit), 10)

Digit(v) == IF v >= 100 * Size(Unit(v)) \/ Unit(v) = 0 THEN Size(Unit(v)) ELSE Round(Size(Unit(v)), 10)

-----------------------------------------------------------------------------
(* duration, clock *)

\* Mutated form: the seconds are rounded when the minutes are taken off.
durationSplit(t) ==
  LET u == t \div 600 IN IF t < 600 THEN <<[of |-> 1, n |-> Round(t, 10)]>>
  ELSE <<[of |-> 60, n |-> u], [of |-> 1, n |-> Round(t % 600, 10)]>>

\* The parts of a length of time, the larger unit first.
duration(t) ==
  LET s == Round(t, 10)
      u == s \div 60
      h == u \div 60
  IN IF s < 60 THEN <<[of |-> 1, n |-> s]>>
     ELSE IF u < 60 THEN <<[of |-> 60, n |-> u], [of |-> 1, n |-> s % 60]>>
     ELSE IF h < 48 THEN <<[of |-> 3600, n |-> h], [of |-> 60, n |-> u % 60]>>
     ELSE <<[of |-> 86400, n |-> h \div 24], [of |-> 3600, n |-> h % 24]>>

\* Hours, minutes, seconds.
clock(t) ==
  LET s == Round(t, 10) IN <<s \div 3600, (s % 3600) \div 60, s % 60>>

-----------------------------------------------------------------------------
(* relativeDate *)

RECURSIVE Begin(_, _)

\* When day d begins, in hours; the day of an hour.
Begin(cal, d) == IF d = 1 THEN 0 ELSE Begin(cal, d - 1) + cal[d - 1]
DayOf(cal, hour) == CHOOSE d \in DOMAIN cal : Begin(cal, d) <= hour /\ hour < Begin(cal, d) + cal[d]

\* Mutated form: less than a day ago.
relativeDateSince(cal, at, of) == IF DayOf(cal, at) = DayOf(cal, of) THEN "today" ELSE IF at - of < 24 THEN "yesterday" ELSE "date"

\* Yesterday is the day of the moment 24 hours ago.
relativeDate(cal, at, of) ==
  IF DayOf(cal, at) = DayOf(cal, of) THEN "today"
  ELSE IF DayOf(cal, at - 24) = DayOf(cal, of) THEN "yesterday" ELSE "date"

-----------------------------------------------------------------------------
\* One of them is shown.
Nothing == amount = 0 /\ time = 0 /\ now = 0

ShowAmount(a) == Nothing /\ amount' = a /\ UNCHANGED <<message, meant, time, days, now, then>>
ShowTime(t) == Nothing /\ time' = t /\ UNCHANGED <<message, meant, amount, days, now, then>>
ShowDate(cal, at, of) == Nothing /\ days' = cal /\ now' = at /\ then' = of /\ UNCHANGED <<message, meant, amount, time>>

\* A moment has a day before it.
NextFormats ==
  \/ \E a \in Amounts : ShowAmount(a)
  \/ \E t \in Tenths : ShowTime(t)
  \/ \E cal \in Calendars, at, of \in Moments : at >= 24 /\ of <= at /\ ShowDate(cal, at, of)

TxNext == NextMessages \/ NextFormats

TxSpec == TxInit /\ [][TxNext]_txVars

-----------------------------------------------------------------------------
TxTypeOK == message \in Seq(STRING) /\ {amount, time, now, then} \subseteq Nat

\* Every message is shown as the translation of the template it was made from, with
\* its values in their holes, those that are messages translated, and detail that
\* follows it left as it is: no template swallows the message of another.  Not so
\* when a message that begins with another one has detail after it: the shorter one
\* is found first.
ShownAsMeant ==
  message # <<>> /\ (Len(meant) = 2 => Heads(Front(message)) = {}) => te(message) = meant

\* An amount that is typed in as it is shown is within half of the last digit.
TypedBack ==
  LET back == parseRate(bytes(amount))
  IN 2 * (IF back > amount THEN back - amount ELSE amount - back) <= Digit(amount) + 2

\* A length of time adds up to what it is, but for what its last unit does not
\* show, and no part reaches the unit before it: never 60 seconds.  The clock and the
\* time agree.
TimeAddsUp ==
  LET parts == duration(time)
      sum == IF Len(parts) = 1 THEN parts[1].n ELSE parts[1].n * parts[1].of + parts[2].n * parts[2].of
      c == clock(time)
  IN /\ sum <= Round(time, 10) /\ Round(time, 10) < sum + parts[Len(parts)].of
     /\ Len(parts) = 2 => parts[2].n * parts[2].of < parts[1].of
     /\ c[1] * 3600 + c[2] * 60 + c[3] = Round(time, 10) /\ c[2] < 60 /\ c[3] < 60

\* The day before is named so, and no other, while days have 24 hours.
DaysNamed ==
  (\A d \in DOMAIN days : days[d] = 24) /\ now >= 24 =>
    relativeDate(days, now, then) =
      (CASE DayOf(days, now) = DayOf(days, then) -> "today"
         [] DayOf(days, now) = DayOf(days, then) + 1 -> "yesterday"
         [] OTHER -> "date")
=============================================================================
