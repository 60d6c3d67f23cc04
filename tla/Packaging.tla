------------------------------- MODULE Packaging -------------------------------
(***************************************************************************)
(* Making the packages of a release: the scripts that build the extension  *)
(* for two browsers (extension/build.mjs), have it signed                  *)
(* (sign-firefox.mjs) and pack it with a ZIP and a CRX3 writer of their    *)
(* own (pack.mjs), the one that stages the programs an installer bundles   *)
(* (scripts/prepare-sidecars.mjs), and the one that builds the signed      *)
(* installer (app/scripts/build-signed.mjs).                               *)
(*                                                                         *)
(* A file of a package is known by the revision of the source it was made  *)
(* from, 0 when there is none.  The scripts are run one at a time, in any  *)
(* order, while the source changes, and any may be stopped between two of  *)
(* its steps.  A byte is a number, and the contents of a file only count.  *)
(*                                                                         *)
(* Bounds: MaxRevisions of the source; MaxRuns scripts started.            *)
(***************************************************************************)
EXTENDS Integers, Sequences, FiniteSets, SequencesExt

CONSTANTS
  Contents,              \* lists of files a package may have
  KeySizes,              \* lengths of a public key and of a signature
  MaxRevisions, MaxRuns

PackagingAssumption == MaxRevisions \in Nat \ {0} /\ MaxRuns \in Nat

VARIABLES
  source,     \* the revision of the source
  dist, pkgs, \* what dist/ and dist/packages/ hold
  pc,         \* the step that comes next in the script that runs
  runs,       \* scripts started
  archive,    \* the ZIP or the CRX header that was just written
  staged, wanted, left, missing, \* prepare-sidecars: staged by this run, all, still to come, missing
  conf        \* the certificate of the installer build

pkVars == <<source, dist, pkgs, pc, runs, archive, staged, wanted, left, missing, conf>>
packages == <<source, dist, pkgs, archive>>
programs == <<staged, wanted, left, missing, conf>>

Targets == <<"chrome", "firefox">>
Helpers == {"ku-native-host", "ku"}

NoArchive == [zip |-> <<>>, crx |-> <<>>]

PkInit ==
  /\ source = 1 /\ dist = [f \in {"chrome", "firefox", "signed", "xpi", "store", "crx"} |-> 0]
  /\ pkgs = [f \in {"xpi", "signed", "crx"} |-> 0] /\ pc = "none" /\ runs = 0
  /\ archive = NoArchive /\ staged = {} /\ wanted = <<>> /\ left = <<>> /\ missing = FALSE /\ conf = "none"

Idle == pc \in {"none", "packed", "staged"}
Start(script) == Idle /\ runs < MaxRuns /\ runs' = runs + 1 /\ pc' = script
Step(from, to) == pc = from /\ pc' = to /\ UNCHANGED runs

\* The source is edited, also while a script runs.
Edit ==
  /\ source < MaxRevisions /\ source' = source + 1
  /\ UNCHANGED <<dist, pkgs, pc, runs, archive, programs>>

\* A script is stopped by hand or by an exception of a command it runs.
Stopped == ~Idle /\ pc' = "none" /\ archive' = NoArchive /\ UNCHANGED <<source, dist, pkgs, runs, programs>>

-----------------------------------------------------------------------------
(* build.mjs and sign-firefox.mjs *)

\* Each target's directory is removed and copied again; manifest.json comes last.
Build == Start("chrome") /\ dist' = [dist EXCEPT !["chrome"] = 0] /\ archive' = NoArchive /\ UNCHANGED <<source, pkgs, programs>>

BuiltChrome ==
  /\ Step("chrome", "firefox") /\ dist' = [dist EXCEPT !["chrome"] = source, !["firefox"] = 0]
  /\ UNCHANGED <<source, pkgs, archive, programs>>

BuiltFirefox ==
  /\ Step("firefox", "none") /\ dist' = [dist EXCEPT !["firefox"] = source]
  /\ UNCHANGED <<source, pkgs, archive, programs>>

\* Mozilla signs dist/firefox as it is; without credentials the script ends at once.
Sign ==
  /\ Start("none") /\ dist["firefox"] # 0 /\ dist' = [dist EXCEPT !["signed"] = dist["firefox"]]
  /\ UNCHANGED <<source, pkgs, archive, programs>>

-----------------------------------------------------------------------------
(* The ZIP writer of pack.mjs *)

\* What is stored of a file: the deflated data when that is shorter.
Body(f) == IF f.deflated < f.data THEN f.deflated ELSE f.data
Method(f) == IF f.deflated < f.data THEN 8 ELSE 0
Fields(f) == [name |-> f.name, method |-> Method(f), stored |-> Body(f), data |-> f.data]

Bytes(chunks) == FoldLeft(LAMBDA n, c : n + c.len, 0, chunks)

\* Local header, name and body of a file.
Local(f) ==
  <<[kind |-> "local", len |-> 30, of |-> Fields(f)], [kind |-> "name", len |-> f.name], [kind |-> "body", len |-> Body(f)]>>

\* Mutated form: the offset counts the data, not what is stored of it.
OffsetOfData(files, i) == FoldLeft(LAMBDA n, f : n + 30 + f.name + f.data, 0, SubSeq(files, 1, i - 1))

\* The offset when file i is added.
Offset(files, i) == FoldLeft(LAMBDA n, f : n + 30 + f.name + Body(f), 0, SubSeq(files, 1, i - 1))

\* Entry of the central directory.
Central(files, i) ==
  <<[kind |-> "central", len |-> 46, of |-> Fields(files[i]), offset |-> Offset(files, i)],
    [kind |-> "name", len |-> files[i].name]>>

ZipOf(files) ==
  LET locals == FlattenSeq([i \in DOMAIN files |-> Local(files[i])])
      central == FlattenSeq([i \in DOMAIN files |-> Central(files, i)])
  IN locals \o central \o
       <<[kind |-> "end", len |-> 22, count |-> Len(central) \div 2, size |-> Bytes(central), offset |-> Offset(files, Len(files) + 1)]>>

\* A reader of ZIP files: the chunk that begins at a byte, and what it lists.
ChunkAt(zip, byte) == {i \in DOMAIN zip : Bytes(SubSeq(zip, 1, i - 1)) = byte}
Entries(zip) == {i \in DOMAIN zip : zip[i].kind = "central"}
ZipReads(zip) ==
  LET end == zip[Len(zip)] IN
    /\ end.count = Cardinality(Entries(zip)) /\ end.offset + end.size + 22 = Bytes(zip)
    /\ \A i \in Entries(zip) :
         \E h \in ChunkAt(zip, zip[i].offset) :
           zip[h].kind = "local" /\ zip[h].of = zip[i].of /\ zip[h + 1].len = zip[i].of.name /\ zip[h + 2].len = zip[i].of.stored

-----------------------------------------------------------------------------
(* The CRX3 header *)

\* Mutated form: no byte says that another follows.
VarintPlain(n) == LET groups == {k \in 0 .. 4 : k = 0 \/ n >= 128 ^ k}
                  IN [k \in 1 .. Cardinality(groups) |-> (n \div 128 ^ (k - 1)) % 128]

\* Seven bits a byte, the lowest first; the high bit says that more follow.
Varint(n) ==
  LET groups == {k \in 0 .. 4 : k = 0 \/ n >= 128 ^ k}
  IN [k \in 1 .. Cardinality(groups) |-> ((n \div 128 ^ (k - 1)) % 128) + IF k < Cardinality(groups) THEN 128 ELSE 0]

Field(num, bytes) == Varint(num * 8 + 2) \o Varint(Len(bytes)) \o bytes

Filled(n, byte) == [k \in 1 .. n |-> byte]
CrxId == [k \in 1 .. 16 |-> k]

\* The header: the proof, field 2, and the signed data, field 10000.
Header(pub, sig) ==
  Field(2, Field(1, Filled(pub, 7)) \o Field(2, Filled(sig, 9))) \o Field(10000, Field(1, CrxId))

\* A reader of protobuf: the varint at byte i, where it ends, and the fields.
VarintEnd(b, i) == CHOOSE j \in i .. Len(b) : b[j] < 128 /\ \A k \in i .. j - 1 : b[k] >= 128
VarintAt(b, i) == FoldLeft(LAMBDA v, k : v + (b[k] % 128) * 128 ^ (k - i), 0, [k \in 1 .. VarintEnd(b, i) - i + 1 |-> i + k - 1])
FieldAt(b, i) ==
  LET l == VarintEnd(b, i) + 1
      d == VarintEnd(b, l) + 1
  IN [num |-> VarintAt(b, i) \div 8, bytes |-> SubSeq(b, d, d + VarintAt(b, l) - 1), next |-> d + VarintAt(b, l)]

-----------------------------------------------------------------------------
(* pack.mjs *)

\* Both targets must have been built.
Pack == Start("xpi") /\ dist["chrome"] # 0 /\ dist["firefox"] # 0 /\ UNCHANGED <<packages, programs>>

WriteXpi(files) ==
  /\ Step("xpi", "signed") /\ archive' = [NoArchive EXCEPT !.zip = ZipOf(files)]
  /\ dist' = [dist EXCEPT !["xpi"] = dist["firefox"]] /\ pkgs' = [pkgs EXCEPT !["xpi"] = dist["firefox"]]
  /\ UNCHANGED <<source, programs>>

\* Mutated form: only when there is none yet.
CopySignedOnce ==
  /\ Step("signed", "store") /\ pkgs' = [pkgs EXCEPT !["signed"] = IF @ = 0 THEN dist["signed"] ELSE @]
  /\ archive' = NoArchive /\ UNCHANGED <<source, dist, programs>>

\* The signed add-on is copied when there is one.
CopySigned ==
  /\ Step("signed", "store") /\ pkgs' = [pkgs EXCEPT !["signed"] = IF dist["signed"] # 0 THEN dist["signed"] ELSE @]
  /\ archive' = NoArchive /\ UNCHANGED <<source, dist, programs>>

WriteStore == Step("store", "crx") /\ dist' = [dist EXCEPT !["store"] = dist["chrome"]] /\ UNCHANGED <<source, pkgs, archive, programs>>

\* The key: without one the script ends well and leaves the crx there is.
NoKey == Step("crx", "none") /\ UNCHANGED <<packages, programs>>

\* The id of the key must be the one the manifest names; then the crx is written.
WriteCrx(pub, sig) ==
  /\ Step("crx", "packed") /\ archive' = [NoArchive EXCEPT !.crx = Header(pub, sig)]
  /\ dist' = [dist EXCEPT !["crx"] = dist["chrome"]] /\ pkgs' = [pkgs EXCEPT !["crx"] = dist["chrome"]]
  /\ UNCHANGED <<source, programs>>

-----------------------------------------------------------------------------
(* prepare-sidecars.mjs *)

\* Where a program may be found: the variable KU_..._PATH, a directory of PATH,
\* the packages of winget up to three directories down.  The first one wins.
Places == {"env", "path", "winget"}
Which(there) == IF "env" \in there THEN "env" ELSE IF "path" \in there THEN "path" ELSE IF "winget" \in there THEN "winget" ELSE "nowhere"

\* cargo has built the helpers; on Windows aria2c is staged before them.
Prepare(own) ==
  /\ Start("stage") /\ wanted' = (IF own THEN <<>> ELSE <<"aria2c">>) \o <<"ku-native-host", "ku">> /\ left' = wanted'
  /\ missing' = FALSE /\ staged' = {} /\ UNCHANGED <<packages, conf>>

Found(there) == Head(left) \in Helpers \/ Which(there) # "nowhere"

\* Mutated form: the last program decides whether one is missing.
StageLast(there) ==
  /\ pc = "stage" /\ left # <<>> /\ left' = Tail(left) /\ missing' = ~Found(there)
  /\ staged' = staged \cup (IF Found(there) THEN {Head(left)} ELSE {})
  /\ UNCHANGED <<packages, pc, runs, wanted, conf>>

\* A program that is not found is reported and passed over; the rest are copied.
Stage(there) ==
  /\ pc = "stage" /\ left # <<>> /\ left' = Tail(left) /\ missing' = (missing \/ ~Found(there))
  /\ staged' = staged \cup (IF Found(there) THEN {Head(left)} ELSE {})
  /\ UNCHANGED <<packages, pc, runs, wanted, conf>>

\* Exit 0 or 1.
StagedEnd == pc = "stage" /\ left = <<>> /\ pc' = (IF missing THEN "none" ELSE "staged") /\ UNCHANGED <<packages, runs, programs>>

-----------------------------------------------------------------------------
(* build-signed.mjs *)

\* The certificate is named by the environment, or else by a file; with none
\* nothing is built.  The configuration stays where it was written.
Certificate(env, file) == IF env # "none" THEN env ELSE file

BuildSigned(env, file) ==
  /\ Start("none") /\ Certificate(env, file) # "none" /\ conf' = Certificate(env, file)
  /\ UNCHANGED <<packages, staged, wanted, left, missing>>

NextPackages ==
  \/ Edit \/ Stopped \/ Build \/ BuiltChrome \/ BuiltFirefox \/ Sign \/ Pack \/ CopySigned \/ WriteStore \/ NoKey
  \/ \E files \in Contents : WriteXpi(files)
  \/ \E pub \in KeySizes, sig \in KeySizes : WriteCrx(pub, sig)

NextPrograms ==
  \/ Stopped \/ StagedEnd
  \/ \E own \in BOOLEAN : Prepare(own)
  \/ \E there \in SUBSET Places : Stage(there)
  \/ \E env \in {"none", "a"}, file \in {"none", "b"} : BuildSigned(env, file)

PkNext == NextPackages \/ NextPrograms

PkSpec == PkInit /\ [][PkNext]_pkVars

-----------------------------------------------------------------------------
PkTypeOK ==
  /\ source \in 1 .. MaxRevisions /\ \A f \in DOMAIN dist : dist[f] \in 0 .. source
  /\ \A f \in DOMAIN pkgs : pkgs[f] \in 0 .. source

\* What the installer bundles is one revision of the extension once a pack ran to
\* its end, provided that both targets and the signed add-on were made of one:
\* nothing of an earlier pack is left in dist/packages.
OneBuild ==
  pc = "packed" /\ dist["chrome"] = dist["firefox"] /\ dist["signed"] \in {0, dist["firefox"]} =>
    pkgs["xpi"] = pkgs["crx"] /\ pkgs["signed"] \in {0, pkgs["xpi"]} /\ dist["store"] = dist["crx"]

\* A ZIP that was written can be read: every entry of the directory leads to the
\* header of its file, and the end to the directory.
ArchiveReads == archive.zip # <<>> => ZipReads(archive.zip)

\* The header of a CRX can be read: two fields, the second of which holds the id.
CrxReads ==
  archive.crx # <<>> =>
    LET proof == FieldAt(archive.crx, 1)
        signed == FieldAt(archive.crx, proof.next)
    IN /\ proof.num = 2 /\ signed.num = 10000 /\ signed.next = Len(archive.crx) + 1
       /\ FieldAt(signed.bytes, 1).bytes = CrxId
       /\ FieldAt(proof.bytes, FieldAt(proof.bytes, 1).next).next = Len(proof.bytes) + 1

\* The script that stages programs ends well only when it staged every one.
StagedAll == pc = "staged" => staged = {wanted[i] : i \in DOMAIN wanted}
===============================================================================
