---------------------------- MODULE BuilderProofs ----------------------------
(***************************************************************************)
(* Safety of the builders.  The disk builds, for any commands at once,     *)
(* manifests of any length and any number of edits; and what the builders  *)
(* make, put to the machine, for any areas, programs and banks.            *)
(***************************************************************************)
EXTENDS DiskBuilds, ProgramImages, TLAPS,
        FiniteSetTheorems, SequenceTheorems, WellFoundedInduction

-----------------------------------------------------------------------------
(* The disk builds: the invariant.                                           *)

ManifestEntries == [src : Sources, name : Names]
Contents == [src : Sources, version : Nat]
Files == [name : Names, content : Contents]
Works == [Stems -> [prg : Contents \cup {None}, lbl : Contents \cup {None}]]

Typed ==
  /\ version \in [Sources -> Nat]
  /\ kept \in [Names -> Contents \cup {None}]
  /\ at \in [Builders -> {"idle", "artifacts", "files", "labels", "program", "format", "program file"}]
  /\ job \in [Builders -> Seq(ManifestEntries)]
  /\ k \in [Builders -> Nat]
  /\ work \in [Builders -> Works]
  /\ staged \in [Builders -> Seq(Files)]
  /\ alone \in [Builders -> BOOLEAN]

\* The working directory w has, for each of the first n entries of m that are
\* built, that entry's program, and with it the labels of that very program.
Worked(w, m, n) ==
  \A i \in 1..n : Built(m[i].src) =>
    /\ w[Stem(m[i].src)].prg.src = m[i].src
    /\ Assembled(m[i].src) => w[Stem(m[i].src)].lbl = w[Stem(m[i].src)].prg

\* The files s are the first n entries of m, by name and, where no two are
\* built under one stem, by content; w has the labels of these very programs.
Staged(w, m, n, s) ==
  /\ Len(s) = n
  /\ \A i \in 1..n :
       /\ s[i].name = m[i].name
       /\ Separate(m) =>
            /\ s[i].content.src = m[i].src
            /\ Assembled(m[i].src) => w[Stem(m[i].src)].lbl = s[i].content

\* A command with its own data.
Own(step, m, n, w, s) ==
  /\ step = "idle" => n = 0
  /\ step \in {"artifacts", "files", "labels"} => Legal(m) /\ Len(m) > 0 /\ n <= Len(m)
  /\ step = "artifacts" => (Separate(m) => Worked(w, m, n))
  /\ step = "files" => (Separate(m) => Worked(w, m, Len(m))) /\ Staged(w, m, n, s)
  /\ step = "labels" => Staged(w, m, Len(m), s)
  /\ step \in {"program", "format", "program file"} => Len(m) = 1 /\ n = 0

OwnInv(b) == Own(at[b], job[b], k[b], work[b], staged[b])

\* What a command that nobody else has written beside has made of the files.
BesideBuild(b) ==
  at[b] = "labels" =>
    /\ image.made = job[b] /\ image.files = staged[b]
    /\ Separate(job[b]) =>
         \A i \in 1..k[b] : Assembled(job[b][i].src) => kept[job[b][i].name] = staged[b][i].content
BesidePackage(b) ==
  /\ at[b] \in {"format", "program file"} => prg \in Contents /\ (Assembled(prg.src) => lbl = prg)
  /\ at[b] = "program file" => image.files = <<>>

ImageForm == image = [exists |-> image.exists, made |-> image.made, files |-> image.files]

\* The inductive invariant.
BuildsInv ==
  /\ Typed
  /\ \A b \in Builders : OwnInv(b)
  /\ \A b \in Builders : alone[b] => BesideBuild(b) /\ BesidePackage(b)
  /\ ImageForm
  /\ WholeImages
  /\ SeparateEntriesAreOwn
  /\ SymbolsAreOfImage

-----------------------------------------------------------------------------
(* Sources, and directories and images that grow.                            *)

LEMMA Fields ==
  ASSUME Typed, NEW b \in Builders
  PROVE  /\ job[b] \in Seq(ManifestEntries) /\ Len(job[b]) \in Nat /\ k[b] \in Nat
         /\ staged[b] \in Seq(Files) /\ work[b] \in Works
<1>1. /\ job \in [Builders -> Seq(ManifestEntries)] /\ k \in [Builders -> Nat]
      /\ staged \in [Builders -> Seq(Files)] /\ work \in [Builders -> Works]
  BY DEF Typed
<1>2. job[b] \in Seq(ManifestEntries)
  BY <1>1
<1>3. QED
  BY <1>1, <1>2

LEMMA SourcesTyped ==
  ASSUME Typed, NEW src \in Sources
  PROVE  /\ Now(src) \in Contents /\ Now(src).src = src /\ Now(src) # None
         /\ Stem(src) \in Stems
         /\ Assembled(src) => Built(src)
<1>1. version[src] \in Nat
  BY DEF Typed
<1>2. Now(src) \in Contents /\ Now(src).src = src
  BY <1>1 DEF Now, Contents
<1>3. QED
  BY <1>2, ManifestsAssumption DEF Contents, Stem, Stems, Assembled, Built

\* The program of the next entry is built into the working directory.
LEMMA WorkedGrows ==
  ASSUME NEW w \in Works, NEW m \in Seq(ManifestEntries), NEW n \in Nat, n < Len(m), Separate(m),
         Worked(w, m, n), Built(m[n + 1].src), NEW now \in Contents, now.src = m[n + 1].src,
         NEW l \in Contents \cup {None}, Assembled(m[n + 1].src) => l = now,
         NEW w2, w2 = [w EXCEPT ![Stem(m[n + 1].src)] = [prg |-> now, lbl |-> l]]
  PROVE  Worked(w2, m, n + 1)
<1>0. n + 1 \in DOMAIN m /\ m[n + 1].src \in Sources
  <2>1. n + 1 \in DOMAIN m /\ m[n + 1] \in ManifestEntries
    OBVIOUS
  <2>2. QED
    BY <2>1 DEF ManifestEntries
<1>1. Stem(m[n + 1].src) \in Stems
  BY DEF Stem, Stems
<1>2. w2[Stem(m[n + 1].src)] = [prg |-> now, lbl |-> l]
  BY <1>1 DEF Works
<1>3. SUFFICES ASSUME NEW i \in 1..(n + 1), Built(m[i].src)
               PROVE  /\ w2[Stem(m[i].src)].prg.src = m[i].src
                      /\ Assembled(m[i].src) => w2[Stem(m[i].src)].lbl = w2[Stem(m[i].src)].prg
  BY DEF Worked
<1>4. CASE i = n + 1
  BY <1>2, <1>4
<1>5. CASE i # n + 1
  <2>1. i \in 1..n /\ i \in DOMAIN m
    BY <1>5
  <2>2. Stem(m[i].src) # Stem(m[n + 1].src)
    BY <1>0, <1>3, <1>5, <2>1 DEF Separate
  <2>3. Stem(m[i].src) \in Stems
    BY DEF Stem, Stems
  <2>4. w2[Stem(m[i].src)] = w[Stem(m[i].src)]
    BY <2>2, <2>3 DEF Works
  <2>5. QED
    BY <1>3, <2>1, <2>4 DEF Worked
<1>6. QED
  BY <1>4, <1>5

\* An entry that is taken as it is needs nothing there.
LEMMA WorkedSkips ==
  ASSUME NEW w, NEW m, NEW n \in Nat, Worked(w, m, n), ~Built(m[n + 1].src)
  PROVE  Worked(w, m, n + 1)
<1>1. ASSUME NEW i \in 1..(n + 1), i # n + 1
      PROVE  i \in 1..n
  BY <1>1
<1>2. QED
  BY <1>1 DEF Worked

\* The next entry is written to the image.
LEMMA StagedGrows ==
  ASSUME NEW w, NEW m \in Seq(ManifestEntries), NEW n \in Nat, NEW s \in Seq(Files), Staged(w, m, n, s),
         NEW f \in Files, f.name = m[n + 1].name,
         Separate(m) => /\ f.content.src = m[n + 1].src
                        /\ Assembled(m[n + 1].src) => w[Stem(m[n + 1].src)].lbl = f.content
  PROVE  Staged(w, m, n + 1, Append(s, f))
<1>1. /\ Len(Append(s, f)) = n + 1 /\ Append(s, f)[n + 1] = f
      /\ \A i \in 1..n : Append(s, f)[i] = s[i]
  BY DEF Staged
<1>2. ASSUME NEW i \in 1..(n + 1)
      PROVE  i = n + 1 \/ i \in 1..n
  OBVIOUS
<1>3. QED
  BY <1>1, <1>2 DEF Staged

-----------------------------------------------------------------------------
(* Commands do not get at one another's data.                                *)

\* A step of b.
Acts(b) ==
  \/ \E m \in Manifests : build_disk(b, m)
  \/ \E src \in Packaged : package_program(b, src)
  \/ BuildSteps(b) \/ PackageSteps(b) \/ Fails(b)

LEMMA OthersStay ==
  ASSUME Typed, NEW b \in Builders, Acts(b), NEW c \in Builders, c # b
  PROVE  /\ UNCHANGED <<at[c], job[c], k[c], work[c], staged[c]>>
         /\ alone'[c] => alone[c] /\ UNCHANGED files
<1> USE DEF Typed
<1>1. CASE \E m \in Manifests : build_disk(b, m)
  BY <1>1 DEF build_disk, Begins, Goes
<1>2. CASE \E src \in Packaged : package_program(b, src)
  BY <1>2 DEF package_program, Begins, Goes
<1>3. CASE Fails(b)
  BY <1>3 DEF Fails, Over, Goes, WritesNothing
<1>4. CASE _manifest_artifact(b)
  BY <1>4 DEF _manifest_artifact, Workdir, Next1, WritesNothing
<1>5. CASE Formats(b) \/ Refused(b) \/ Puts(b)
  BY <1>5 DEF Formats, Refused, Puts, Over, Goes, Next1, WritesNothing
<1>6. CASE Swaps(b)
  BY <1>6 DEF Swaps, Writes, Goes
<1>7. CASE Keeps(b)
  <2>1. UNCHANGED <<at[c], job[c], k[c], work[c], staged[c]>>
    BY <1>7 DEF Keeps, Next1
  <2>2. CASE Writes(b)
    BY <2>1, <2>2 DEF Writes
  <2>3. CASE UNCHANGED <<kept, alone, settled>>
    BY <1>7, <2>1, <2>3 DEF Keeps, files
  <2>4. QED
    BY <1>7, <2>2, <2>3 DEF Keeps
<1>8. CASE Reports(b)
  BY <1>8 DEF Reports, Over, Goes
<1>9. CASE Makes(b) \/ create_image(b)
  BY <1>9 DEF Makes, create_image, Writes, Goes
<1>10. CASE Places(b)
  BY <1>10 DEF Places, Over, Goes
<1>11. QED
  BY <1>1, <1>2, <1>3, <1>4, <1>5, <1>6, <1>7, <1>8, <1>9, <1>10 DEF Acts, BuildSteps, PackageSteps

-----------------------------------------------------------------------------
(* Types.                                                                    *)

\* A command's own fields where only those of b change.
LEMMA OverTyped ==
  ASSUME Typed, NEW b \in Builders, Over(b)
  PROVE  /\ at' \in [Builders -> {"idle", "artifacts", "files", "labels", "program", "format",
                                   "program file"}]
         /\ job' \in [Builders -> Seq(ManifestEntries)] /\ k' \in [Builders -> Nat]
         /\ work' \in [Builders -> Works] /\ staged' \in [Builders -> Seq(Files)]
<1>1. Empty \in Works
  BY DEF Empty, Works
<1>2. <<>> \in Seq(ManifestEntries) /\ <<>> \in Seq(Files)
  OBVIOUS
<1>3. QED
  BY <1>1, <1>2 DEF Over, Goes, Typed

LEMMA WritesTyped ==
  ASSUME NEW b \in Builders, Typed, Writes(b)
  PROVE  alone' \in [Builders -> BOOLEAN]
BY DEF Writes, Typed

\* The entry a command deals with next.
LEMMA EntryTyped ==
  ASSUME Typed, NEW b \in Builders, More(b)
  PROVE  /\ k[b] \in Nat /\ k[b] < Len(job[b]) /\ k[b] + 1 \in DOMAIN job[b]
         /\ Entry(b) = job[b][k[b] + 1]
         /\ Entry(b) \in ManifestEntries /\ Entry(b).src \in Sources /\ Entry(b).name \in Names
<1>1. job[b] \in Seq(ManifestEntries) /\ k[b] \in Nat /\ k[b] < Len(job[b])
  BY DEF Typed, More
<1>2. k[b] + 1 \in DOMAIN job[b] /\ job[b][k[b] + 1] \in ManifestEntries
  BY <1>1
<1>3. QED
  BY <1>1, <1>2 DEF Entry, ManifestEntries

LEMMA ArtifactTyped ==
  ASSUME Typed, NEW b \in Builders, Entry(b).src \in Sources, Artifact(b, Entry(b)) # None
  PROVE  Artifact(b, Entry(b)) \in Contents
<1>1. CASE Built(Entry(b).src)
  <2>1. work[b][Stem(Entry(b).src)].prg \in Contents \cup {None}
    BY SourcesTyped DEF Typed, Works
  <2>2. Artifact(b, Entry(b)) = work[b][Stem(Entry(b).src)].prg
    BY <1>1 DEF Artifact, Workdir
  <2>3. QED
    BY <2>1, <2>2
<1>2. CASE ~Built(Entry(b).src)
  BY <1>2, SourcesTyped DEF Artifact
<1>3. QED
  BY <1>1, <1>2

LEMMA NextTyped ==
  ASSUME Typed, NEW b \in Builders, Next1(b)
  PROVE  k' \in [Builders -> Nat]
<1>1. k \in [Builders -> Nat]
  BY DEF Typed
<1>2. k[b] + 1 \in Nat
  BY <1>1
<1>3. QED
  BY <1>1, <1>2 DEF Next1

LEMMA BeginsTyped ==
  ASSUME Typed, NEW b \in Builders, NEW m \in Seq(ManifestEntries), NEW step \in {"artifacts", "program"},
         Begins(b, step, m)
  PROVE  Typed'
BY DEF Begins, Goes, Typed, files

LEMMA BuildTyped ==
  ASSUME Typed, NEW b \in Builders, BuildSteps(b)
  PROVE  Typed'
<1>1. CASE _manifest_artifact(b)
  <2>1. Entry(b).src \in Sources
    BY <1>1, EntryTyped DEF _manifest_artifact
  <2>2. Now(Entry(b).src) \in Contents /\ Stem(Entry(b).src) \in Stems
    BY <2>1, SourcesTyped
  <2>3. work' \in [Builders -> Works]
    <3>1. CASE Built(Entry(b).src)
      <4>1. PICK l \in Contents \cup {None} :
              work' = [work EXCEPT ![b][Stem(Entry(b).src)] = [prg |-> Now(Entry(b).src), lbl |-> l]]
        <5>1. work[b][Stem(Entry(b).src)].lbl \in Contents \cup {None}
          BY <2>2 DEF Typed, Works
        <5>2. QED
          BY <1>1, <2>2, <3>1, <5>1 DEF _manifest_artifact, Workdir
      <4>2. [prg |-> Now(Entry(b).src), lbl |-> l]
              \in [prg : Contents \cup {None}, lbl : Contents \cup {None}]
        BY <2>2
      <4>3. QED
        BY <2>2, <4>1, <4>2 DEF Typed, Works
    <3>2. CASE ~Built(Entry(b).src)
      BY <1>1, <3>2 DEF _manifest_artifact, Typed
    <3>3. QED
      BY <3>1, <3>2
  <2>4. k' \in [Builders -> Nat]
    BY <1>1, NextTyped DEF _manifest_artifact
  <2>5. QED
    BY <1>1, <2>3, <2>4 DEF _manifest_artifact, WritesNothing, files, Typed
<1>2. CASE Formats(b)
  <2>1. <<>> \in Seq(Files) /\ 0 \in Nat
    OBVIOUS
  <2>2. QED
    BY <1>2, <2>1 DEF Formats, Goes, WritesNothing, files, Typed
<1>3. CASE Refused(b) \/ Reports(b)
  <2>1. UNCHANGED <<version, kept, alone>> /\ Over(b)
    BY <1>3 DEF Refused, Reports, WritesNothing, files
  <2>2. QED
    BY <2>1, OverTyped DEF Typed
<1>4. CASE Puts(b)
  <2>1. PICK f : f = [name |-> Entry(b).name, content |-> Artifact(b, Entry(b))]
    OBVIOUS
  <2>2. Entry(b).src \in Sources /\ Entry(b).name \in Names
    BY <1>4, EntryTyped DEF Puts
  <2>3. Artifact(b, Entry(b)) \in Contents
    BY <1>4, <2>2, ArtifactTyped DEF Puts
  <2>4. f \in Files
    BY <2>1, <2>2, <2>3 DEF Files
  <2>5. staged' = [staged EXCEPT ![b] = Append(staged[b], f)]
    BY <1>4, <2>1 DEF Puts
  <2>6. staged[b] \in Seq(Files)
    BY DEF Typed
  <2>7. Append(staged[b], f) \in Seq(Files)
    BY <2>4, <2>6
  <2>8. staged' \in [Builders -> Seq(Files)]
    BY <2>5, <2>7 DEF Typed
  <2>9. k' \in [Builders -> Nat]
    BY <1>4, NextTyped DEF Puts
  <2>10. QED
    BY <1>4, <2>8, <2>9 DEF Puts, WritesNothing, files, Typed
<1>5. CASE Swaps(b)
  BY <1>5, WritesTyped DEF Swaps, Goes, Typed
<1>6. CASE Keeps(b)
  <2>1. Entry(b).src \in Sources /\ Entry(b).name \in Names
    BY <1>6, EntryTyped DEF Keeps
  <2>2. LabelsOf(b, Entry(b)) \in Contents \cup {None}
    BY <2>1, SourcesTyped DEF LabelsOf, Workdir, Typed, Works
  <2>3. kept' \in [Names -> Contents \cup {None}] /\ alone' \in [Builders -> BOOLEAN]
    BY <1>6, <2>1, <2>2, WritesTyped DEF Keeps, Typed
  <2>4. k' \in [Builders -> Nat]
    BY <1>6, NextTyped DEF Keeps
  <2>5. QED
    BY <1>6, <2>3, <2>4 DEF Keeps, Typed
<1>7. QED
  BY <1>1, <1>2, <1>3, <1>4, <1>5, <1>6 DEF BuildSteps

LEMMA ActsTyped ==
  ASSUME Typed, NEW b \in Builders, Acts(b)
  PROVE  Typed'
<1>1. CASE \E m \in Manifests : build_disk(b, m)
  BY <1>1, BeginsTyped, ManifestsAssumption DEF build_disk, ManifestEntries
<1>2. CASE \E src \in Packaged : package_program(b, src)
  <2>1. PICK src \in Packaged : package_program(b, src)
    BY <1>2
  <2>2. [src |-> src, name |-> "a"] \in ManifestEntries
    BY ManifestsAssumption DEF ManifestEntries, Names
  <2>3. <<[src |-> src, name |-> "a"]>> \in Seq(ManifestEntries)
    BY <2>2
  <2>4. QED
    BY <2>1, <2>3, BeginsTyped DEF package_program
<1>3. CASE Fails(b)
  BY <1>3, OverTyped DEF Fails, WritesNothing, files, Typed
<1>4. CASE Makes(b) \/ create_image(b)
  BY <1>4, WritesTyped DEF Makes, create_image, Goes, Typed
<1>5. CASE Places(b)
  <2>1. alone' \in [Builders -> BOOLEAN]
    BY <1>5 DEF Places, Typed
  <2>2. QED
    BY <1>5, <2>1, OverTyped DEF Places, Typed
<1>6. QED
  BY <1>1, <1>2, <1>3, <1>4, <1>5, BuildTyped DEF Acts, PackageSteps

-----------------------------------------------------------------------------
(* A command's own data.                                                     *)

LEMMA OverOwn ==
  ASSUME Typed, NEW b \in Builders, Over(b)
  PROVE  OwnInv(b)'
<1>1. at'[b] = "idle" /\ k'[b] = 0
  BY DEF Over, Goes, Typed
<1>2. QED
  BY <1>1 DEF OwnInv, Own

LEMMA OwnOfBuild ==
  ASSUME Typed, NEW b \in Builders, OwnInv(b), BuildSteps(b)
  PROVE  OwnInv(b)'
<1>1. CASE _manifest_artifact(b)
  <2>1. /\ at'[b] = "artifacts" /\ at[b] = "artifacts" /\ job'[b] = job[b] /\ k'[b] = k[b] + 1
        /\ More(b)
    BY <1>1 DEF _manifest_artifact, Next1, Typed
  <2>2. /\ k[b] \in Nat /\ k[b] < Len(job[b]) /\ Entry(b) = job[b][k[b] + 1]
        /\ Entry(b).src \in Sources
    BY <2>1, EntryTyped
  <2>3. ASSUME Separate(job[b])
        PROVE  Worked(work'[b], job[b], k[b] + 1)
    <3>1. Worked(work[b], job[b], k[b])
      BY <2>1, <2>3 DEF OwnInv, Own
    <3>2. CASE Built(Entry(b).src)
      <4>1. PICK l : /\ l = IF Assembled(Entry(b).src) THEN Now(Entry(b).src)
                            ELSE work[b][Stem(Entry(b).src)].lbl
                     /\ work'[b] = [work[b] EXCEPT ![Stem(Entry(b).src)] =
                                      [prg |-> Now(Entry(b).src), lbl |-> l]]
        BY <1>1, <2>2, <3>2, SourcesTyped DEF _manifest_artifact, Workdir, Typed, Works
      <4>2. l \in Contents \cup {None}
        <5>1. work[b] \in Works /\ Stem(Entry(b).src) \in Stems /\ Now(Entry(b).src) \in Contents
          BY <2>2, Fields, SourcesTyped
        <5>2. work[b][Stem(Entry(b).src)].lbl \in Contents \cup {None}
          BY <5>1 DEF Works
        <5>3. QED
          BY <4>1, <5>1, <5>2
      <4>3. job[b] \in Seq(ManifestEntries) /\ work[b] \in Works
        BY Fields
      <4>4. Now(Entry(b).src) \in Contents /\ Now(Entry(b).src).src = Entry(b).src
        BY <2>2, SourcesTyped
      <4>5. Assembled(Entry(b).src) => l = Now(Entry(b).src)
        BY <4>1
      <4>6. QED
        BY <2>2, <2>3, <3>1, <3>2, <4>1, <4>2, <4>3, <4>4, <4>5, WorkedGrows
    <3>3. CASE ~Built(Entry(b).src)
      <4>1. work'[b] = work[b]
        BY <1>1, <3>3 DEF _manifest_artifact
      <4>2. Worked(work[b], job[b], k[b] + 1)
        BY <2>2, <3>1, <3>3, WorkedSkips
      <4>3. QED
        BY <4>1, <4>2
    <3>4. QED
      BY <3>2, <3>3
  <2>4. Legal(job[b]) /\ Len(job[b]) > 0 /\ k[b] + 1 <= Len(job[b])
    <3>1. Len(job[b]) \in Nat
      BY Fields
    <3>2. QED
      BY <2>1, <2>2, <3>1 DEF OwnInv, Own
  <2>5. QED
    BY <2>1, <2>3, <2>4 DEF OwnInv, Own
<1>2. CASE Formats(b)
  <2>1. /\ at[b] = "artifacts" /\ at'[b] = "files" /\ job'[b] = job[b] /\ k'[b] = 0
        /\ work'[b] = work[b] /\ staged'[b] = <<>> /\ ~More(b)
    BY <1>2 DEF Formats, Goes, Typed
  <2>2. k[b] = Len(job[b]) /\ Len(job[b]) \in Nat
    <3>1. Len(job[b]) \in Nat /\ k[b] \in Nat
      BY Fields
    <3>2. QED
      BY <2>1, <3>1 DEF OwnInv, Own, More
  <2>3. Staged(work[b], job[b], 0, <<>>)
    BY DEF Staged
  <2>4. QED
    BY <2>1, <2>2, <2>3 DEF OwnInv, Own
<1>3. CASE Refused(b) \/ Reports(b)
  BY <1>3, OverOwn DEF Refused, Reports
<1>4. CASE Puts(b)
  <2>1. /\ at[b] = "files" /\ at'[b] = "files" /\ job'[b] = job[b] /\ k'[b] = k[b] + 1
        /\ work'[b] = work[b] /\ More(b)
    BY <1>4 DEF Puts, Next1, Typed
  <2>2. /\ k[b] \in Nat /\ k[b] < Len(job[b]) /\ Entry(b) = job[b][k[b] + 1]
        /\ Entry(b).src \in Sources /\ Entry(b).name \in Names
    BY <2>1, EntryTyped
  <2>3. PICK f : /\ f = [name |-> Entry(b).name, content |-> Artifact(b, Entry(b))]
                 /\ staged'[b] = Append(staged[b], f)
    BY <1>4 DEF Puts, Typed
  <2>4. f.name = job[b][k[b] + 1].name /\ f.content = Artifact(b, Entry(b))
    BY <2>2, <2>3
  <2>5. /\ k[b] + 1 \in 1..Len(job[b]) /\ Len(job[b]) \in Nat
        /\ job[b] \in Seq(ManifestEntries) /\ staged[b] \in Seq(Files)
    BY <2>2, Fields
  <2>6. f \in Files
    <3>1. Artifact(b, Entry(b)) \in Contents
      BY <1>4, <2>2, ArtifactTyped DEF Puts
    <3>2. QED
      BY <2>2, <2>3, <3>1 DEF Files
  <2>7. ASSUME Separate(job[b])
        PROVE  /\ f.content.src = job[b][k[b] + 1].src
               /\ Assembled(job[b][k[b] + 1].src) =>
                    work[b][Stem(job[b][k[b] + 1].src)].lbl = f.content
    <3>1. Worked(work[b], job[b], Len(job[b]))
      BY <2>1, <2>7 DEF OwnInv, Own
    <3>2. CASE Built(Entry(b).src)
      <4>1. f.content = work[b][Stem(Entry(b).src)].prg
        BY <2>4, <3>2 DEF Artifact, Workdir
      <4>2. QED
        BY <2>2, <2>5, <3>1, <3>2, <4>1 DEF Worked
    <3>3. CASE ~Built(Entry(b).src)
      <4>1. f.content = Now(Entry(b).src)
        BY <2>4, <3>3 DEF Artifact
      <4>2. QED
        BY <2>2, <3>3, <4>1, SourcesTyped
    <3>4. QED
      BY <3>2, <3>3
  <2>8. Staged(work[b], job[b], k[b], staged[b])
    BY <2>1 DEF OwnInv, Own
  <2>9. Staged(work[b], job[b], k[b] + 1, Append(staged[b], f))
    BY <2>2, <2>4, <2>5, <2>6, <2>7, <2>8, StagedGrows
  <2>10. Legal(job[b]) /\ Len(job[b]) > 0 /\ k[b] + 1 <= Len(job[b])
    BY <2>1, <2>2, <2>5 DEF OwnInv, Own
  <2>11. Separate(job[b]) => Worked(work[b], job[b], Len(job[b]))
    BY <2>1 DEF OwnInv, Own
  <2>12. QED
    BY <2>1, <2>3, <2>9, <2>10, <2>11 DEF OwnInv, Own
<1>5. CASE Swaps(b)
  <2>1. /\ at[b] = "files" /\ at'[b] = "labels" /\ job'[b] = job[b] /\ k'[b] = 0
        /\ work'[b] = work[b] /\ staged'[b] = staged[b] /\ ~More(b)
    BY <1>5 DEF Swaps, Complete, Goes, Typed
  <2>2. k[b] = Len(job[b]) /\ Len(job[b]) \in Nat
    <3>1. Len(job[b]) \in Nat /\ k[b] \in Nat
      BY Fields
    <3>2. QED
      BY <2>1, <3>1 DEF OwnInv, Own, More
  <2>3. QED
    BY <2>1, <2>2 DEF OwnInv, Own
<1>6. CASE Keeps(b)
  <2>1. /\ at[b] = "labels" /\ at'[b] = "labels" /\ job'[b] = job[b] /\ k'[b] = k[b] + 1
        /\ work'[b] = work[b] /\ staged'[b] = staged[b] /\ More(b)
    BY <1>6 DEF Keeps, Next1, Typed
  <2>2. k[b] + 1 <= Len(job[b])
    <3>1. Len(job[b]) \in Nat /\ k[b] \in Nat
      BY Fields
    <3>2. QED
      BY <2>1, <3>1 DEF More
  <2>3. QED
    BY <2>1, <2>2 DEF OwnInv, Own
<1>7. QED
  BY <1>1, <1>2, <1>3, <1>4, <1>5, <1>6 DEF BuildSteps

LEMMA OwnKept ==
  ASSUME Typed, NEW b \in Builders, OwnInv(b), Acts(b)
  PROVE  OwnInv(b)'
<1>1. CASE \E m \in Manifests : build_disk(b, m)
  <2>1. PICK m \in Manifests : build_disk(b, m)
    BY <1>1
  <2>2. at[b] = "idle" /\ at'[b] = "artifacts" /\ job'[b] = m /\ k'[b] = k[b] /\ Legal(m)
    BY <2>1 DEF build_disk, Begins, Goes, Typed
  <2>3. m \in Seq(ManifestEntries) /\ m # <<>>
    BY ManifestsAssumption DEF ManifestEntries
  <2>4. Len(m) \in Nat /\ Len(m) > 0
    BY <2>3
  <2>5. k[b] = 0
    BY <2>2 DEF OwnInv, Own
  <2>6. Worked(work'[b], m, 0)
    BY DEF Worked
  <2>7. QED
    BY <2>2, <2>4, <2>5, <2>6 DEF OwnInv, Own
<1>2. CASE \E src \in Packaged : package_program(b, src)
  <2>1. PICK src \in Packaged : package_program(b, src)
    BY <1>2
  <2>2. /\ at[b] = "idle" /\ at'[b] = "program" /\ k'[b] = k[b]
        /\ job'[b] = <<[src |-> src, name |-> "a"]>>
    BY <2>1 DEF package_program, Begins, Goes, Typed
  <2>3. QED
    BY <2>2 DEF OwnInv, Own
<1>3. CASE Fails(b) \/ Places(b)
  BY <1>3, OverOwn DEF Fails, Places
<1>4. CASE Makes(b) \/ create_image(b)
  <2>1. /\ at[b] \in {"program", "format"} /\ at'[b] \in {"format", "program file"}
        /\ job'[b] = job[b] /\ k'[b] = k[b]
    BY <1>4 DEF Makes, create_image, Goes, Typed
  <2>2. QED
    BY <2>1 DEF OwnInv, Own
<1>5. QED
  BY <1>1, <1>2, <1>3, <1>4, OwnOfBuild DEF Acts, PackageSteps

-----------------------------------------------------------------------------
(* The files, as a command finds them that nobody has written beside.        *)

LEMMA BesideBuildKept ==
  ASSUME Typed, NEW b \in Builders, OwnInv(b), alone[b] => BesideBuild(b), Acts(b), alone'[b]
  PROVE  BesideBuild(b)'
<1> SUFFICES ASSUME at'[b] = "labels"
             PROVE  BesideBuild(b)'
  BY DEF BesideBuild
<1>1. Swaps(b) \/ Keeps(b)
  BY DEF Acts, build_disk, package_program, Begins, BuildSteps, PackageSteps, Fails, Over, Goes,
         _manifest_artifact, Formats, Refused, Puts, Reports, Makes, create_image, Places, Typed
<1>2. CASE Swaps(b)
  <2>1. /\ job'[b] = job[b] /\ k'[b] = 0 /\ staged'[b] = staged[b]
        /\ image' = [exists |-> TRUE, made |-> job[b], files |-> staged[b]]
    BY <1>2 DEF Swaps, Typed
  <2>2. QED
    BY <2>1 DEF BesideBuild
<1>3. CASE Keeps(b)
  <2>1. /\ at[b] = "labels" /\ job'[b] = job[b] /\ k'[b] = k[b] + 1 /\ staged'[b] = staged[b]
        /\ work'[b] = work[b] /\ image' = image /\ More(b)
    BY <1>3 DEF Keeps, Next1, Typed
  <2>2. alone[b]
    BY <1>3 DEF Keeps, Writes, Typed
  <2>3. BesideBuild(b)
    BY <2>2
  <2>4. /\ k[b] \in Nat /\ k[b] < Len(job[b]) /\ k[b] + 1 \in DOMAIN job[b]
        /\ Entry(b) = job[b][k[b] + 1] /\ Entry(b).src \in Sources /\ Entry(b).name \in Names
    BY <2>1, EntryTyped
  <2>5. Staged(work[b], job[b], Len(job[b]), staged[b]) /\ Legal(job[b])
    BY <2>1 DEF OwnInv, Own
  <2>6. ASSUME Separate(job[b]), NEW i \in 1..(k[b] + 1), Assembled(job[b][i].src)
        PROVE  kept'[job[b][i].name] = staged[b][i].content
    <3>1. i \in 1..Len(job[b]) /\ i \in DOMAIN job[b]
      BY <2>4, Fields
    <3>2. CASE i = k[b] + 1
      <4>1. LabelsOf(b, Entry(b)) = staged[b][i].content
        BY <2>4, <2>5, <2>6, <3>1, <3>2 DEF Staged, LabelsOf, Workdir
      <4>2. staged[b][i].content \in Contents
        <5>1. staged[b] \in Seq(Files) /\ Len(staged[b]) = Len(job[b])
          BY <2>5, Fields DEF Staged
        <5>2. staged[b][i] \in Files
          BY <3>1, <5>1
        <5>3. QED
          BY <5>2 DEF Files
      <4>3. LabelsOf(b, Entry(b)) # None
        BY <4>1, <4>2, ManifestsAssumption DEF Contents
      <4>4. kept' = [kept EXCEPT ![Entry(b).name] = LabelsOf(b, Entry(b))]
        BY <1>3, <2>4, <2>6, <3>2, <4>3 DEF Keeps
      <4>5. kept \in [Names -> Contents \cup {None}]
        BY DEF Typed
      <4>6. kept'[Entry(b).name] = LabelsOf(b, Entry(b))
        BY <2>4, <4>4, <4>5
      <4>7. QED
        BY <2>4, <3>2, <4>1, <4>6
    <3>3. CASE i # k[b] + 1
      <4>1. i \in 1..k[b]
        BY <2>4, <3>3
      <4>2. job[b][i].name # job[b][k[b] + 1].name
        BY <2>4, <2>5, <3>1, <3>3 DEF Legal
      <4>3. kept[job[b][i].name] = staged[b][i].content
        BY <2>1, <2>3, <2>6, <4>1 DEF BesideBuild
      <4>4. kept \in [Names -> Contents \cup {None}]
        BY DEF Typed
      <4>5. job[b][i].name \in Names
        <5>1. job[b] \in Seq(ManifestEntries)
          BY Fields
        <5>2. job[b][i] \in ManifestEntries
          BY <3>1, <5>1
        <5>3. QED
          BY <5>2 DEF ManifestEntries
      <4>6. \/ kept' = kept
            \/ kept' = [kept EXCEPT ![Entry(b).name] = LabelsOf(b, Entry(b))]
        BY <1>3 DEF Keeps
      <4>7. kept'[job[b][i].name] = kept[job[b][i].name]
        BY <2>4, <4>2, <4>4, <4>5, <4>6
      <4>8. QED
        BY <4>3, <4>7
    <3>4. QED
      BY <3>2, <3>3
  <2>7. QED
    BY <2>1, <2>3, <2>6 DEF BesideBuild
<1>4. QED
  BY <1>1, <1>2, <1>3

LEMMA ZeroIsLess == 0 < 1
OBVIOUS

LEMMA BesidePackageKept ==
  ASSUME Typed, NEW b \in Builders, OwnInv(b), alone[b] => BesidePackage(b), Acts(b), alone'[b]
  PROVE  BesidePackage(b)'
<1> SUFFICES ASSUME at'[b] \in {"format", "program file"}
             PROVE  BesidePackage(b)'
  BY DEF BesidePackage
<1>1. Makes(b) \/ create_image(b)
  BY DEF Acts, build_disk, package_program, Begins, BuildSteps, PackageSteps, Fails, Over, Goes,
         _manifest_artifact, Formats, Refused, Puts, Swaps, Keeps, Reports, Places, Typed
<1>2. CASE Makes(b)
  <2>1. at[b] = "program" /\ at'[b] = "format"
    BY <1>2 DEF Makes, Goes, Typed
  <2>2. Entry(b).src \in Sources
    <3>1. Len(job[b]) = 1 /\ k[b] = 0
      BY <2>1 DEF OwnInv, Own
    <3>2. More(b)
      <4>1. k[b] < Len(job[b])
        BY <3>1, ZeroIsLess, Zenon
      <4>2. QED
        BY <4>1 DEF More
    <3>3. QED
      BY <3>2, EntryTyped
  <2>3. /\ prg' = Now(Entry(b).src)
        /\ lbl' = IF Assembled(Entry(b).src) THEN Now(Entry(b).src) ELSE lbl
    BY <1>2 DEF Makes
  <2>4. QED
    BY <2>1, <2>2, <2>3, SourcesTyped DEF BesidePackage
<1>3. CASE create_image(b)
  <2>1. /\ at[b] = "format" /\ at'[b] = "program file" /\ prg' = prg /\ lbl' = lbl /\ alone[b]
        /\ image' = [exists |-> TRUE, made |-> <<>>, files |-> <<>>]
    BY <1>3 DEF create_image, Goes, Writes, Typed
  <2>2. QED
    BY <2>1 DEF BesidePackage
<1>4. QED
  BY <1>1, <1>2, <1>3

-----------------------------------------------------------------------------
(* The image, and the labels beside it.                                      *)

ImageInv == ImageForm /\ WholeImages /\ SeparateEntriesAreOwn

\* An image that no manifest stands for.
LEMMA PlainImage ==
  ASSUME NEW yes, NEW listing, image' = [exists |-> yes, made |-> <<>>, files |-> listing]
  PROVE  ImageInv'
BY DEF ImageInv, ImageForm, WholeImages, SeparateEntriesAreOwn

LEMMA ImageKept ==
  ASSUME Typed, NEW b \in Builders, OwnInv(b), ImageInv, Acts(b)
  PROVE  ImageInv'
<1>1. CASE Swaps(b)
  <2>1. /\ at[b] = "files" /\ ~More(b)
        /\ image' = [exists |-> TRUE, made |-> job[b], files |-> staged[b]]
    BY <1>1 DEF Swaps, Complete
  <2>2. k[b] = Len(job[b])
    BY <2>1, Fields DEF OwnInv, Own, More
  <2>3. Staged(work[b], job[b], Len(job[b]), staged[b])
    BY <2>1, <2>2 DEF OwnInv, Own
  <2>4. DOMAIN staged[b] = 1..Len(job[b])
    BY <2>3, Fields DEF Staged
  <2>5. QED
    BY <2>1, <2>3, <2>4 DEF ImageInv, ImageForm, WholeImages, SeparateEntriesAreOwn, Staged
<1>2. CASE create_image(b) \/ Places(b)
  BY <1>2, PlainImage DEF create_image, Places
<1>3. CASE ~(Swaps(b) \/ create_image(b) \/ Places(b))
  <2>1. image' = image
    BY <1>3 DEF Acts, build_disk, package_program, Begins, BuildSteps, PackageSteps, Fails,
                _manifest_artifact, Formats, Refused, Puts, Keeps, Reports, Makes, WritesNothing, files
  <2>2. QED
    BY <2>1 DEF ImageInv, ImageForm, WholeImages, SeparateEntriesAreOwn
<1>4. QED
  BY <1>1, <1>2, <1>3

LEMMA SymbolsStay ==
  ASSUME SymbolsAreOfImage, settled' \in {settled, "no"}, settled' # "no" => UNCHANGED files
  PROVE  SymbolsAreOfImage'
BY DEF SymbolsAreOfImage, disk_labels_path, files

LEMMA SymbolsKept ==
  ASSUME Typed, NEW b \in Builders, OwnInv(b), alone[b] => BesideBuild(b) /\ BesidePackage(b),
         SymbolsAreOfImage, Acts(b)
  PROVE  SymbolsAreOfImage'
<1>1. CASE Reports(b) /\ alone[b]
  <2>1. at[b] = "labels" /\ ~More(b) /\ UNCHANGED files /\ settled' = "build"
    BY <1>1 DEF Reports
  <2>2. k[b] = Len(job[b]) /\ Len(job[b]) > 0
    BY <2>1, Fields DEF OwnInv, Own, More
  <2>3. /\ image.made = job[b] /\ image.files = staged[b]
        /\ Separate(job[b]) => \A i \in 1..Len(job[b]) :
             Assembled(job[b][i].src) => kept[job[b][i].name] = staged[b][i].content
    BY <1>1, <2>1, <2>2 DEF BesideBuild
  <2>4. Staged(work[b], job[b], Len(job[b]), staged[b])
    BY <2>1 DEF OwnInv, Own
  <2>5. DOMAIN staged[b] = 1..Len(job[b]) /\ 1 \in 1..Len(job[b]) /\ staged[b] # <<>>
    BY <2>2, <2>4, Fields DEF Staged
  <2>6. staged[b][1].name = job[b][1].name
    BY <2>4, <2>5 DEF Staged
  <2>7. QED
    BY <2>1, <2>3, <2>5, <2>6 DEF SymbolsAreOfImage, disk_labels_path, files
<1>2. CASE Places(b) /\ alone[b]
  <2>1. /\ at[b] = "program file" /\ settled' = "package" /\ lbl' = lbl
        /\ image'.files = Append(image.files, [name |-> Entry(b).name, content |-> prg])
    BY <1>2 DEF Places
  <2>2. image.files = <<>> /\ prg \in Contents /\ (Assembled(prg.src) => lbl = prg)
    BY <1>2, <2>1 DEF BesidePackage
  <2>3. Len(image'.files) = 1 /\ image'.files[1].content = prg
    <3>1. PICK f : f = [name |-> Entry(b).name, content |-> prg]
      OBVIOUS
    <3>2. image'.files = Append(<<>>, f)
      BY <2>1, <2>2, <3>1
    <3>3. Append(<<>>, f) = <<f>>
      OBVIOUS
    <3>4. QED
      BY <3>1, <3>2, <3>3
  <2>4. prg # None
    BY <2>2, ManifestsAssumption DEF Contents
  <2>5. ASSUME Assembled(image'.files[1].content.src)
        PROVE  disk_labels_path' = image'.files[1].content
    BY <2>1, <2>2, <2>3, <2>4, <2>5 DEF disk_labels_path
  <2>6. settled' # "build"
    BY <2>1
  <2>7. QED
    BY <2>3, <2>5, <2>6 DEF SymbolsAreOfImage
<1>3. CASE ~((Reports(b) \/ Places(b)) /\ alone[b])
  <2>1. settled' = "no" \/ (settled' = settled /\ UNCHANGED files)
    BY <1>3 DEF Acts, build_disk, package_program, Begins, BuildSteps, PackageSteps, Fails,
                _manifest_artifact, Formats, Refused, Puts, Swaps, Keeps, Reports, Makes, create_image,
                Places, Writes, WritesNothing, files
  <2>2. QED
    BY <2>1, SymbolsStay
<1>4. QED
  BY <1>1, <1>2, <1>3

-----------------------------------------------------------------------------
(* The invariant.                                                            *)

LEMMA BuildsInit == Init => BuildsInv
<1> SUFFICES ASSUME Init PROVE BuildsInv
  OBVIOUS
<1>1. Typed
  <2>1. /\ Empty \in Works /\ <<>> \in Seq(ManifestEntries) /\ <<>> \in Seq(Files) /\ 0 \in Nat /\ 1 \in Nat
    BY DEF Empty, Works
  <2>2. QED
    BY <2>1 DEF Init, Typed
<1>2. ASSUME NEW b \in Builders
      PROVE  OwnInv(b) /\ ~alone[b]
  BY DEF Init, OwnInv, Own
<1>3. ImageInv
  BY DEF Init, NoImage, ImageInv, ImageForm, WholeImages, SeparateEntriesAreOwn
<1>4. SymbolsAreOfImage
  BY DEF Init, SymbolsAreOfImage
<1>5. QED
  BY <1>1, <1>2, <1>3, <1>4 DEF BuildsInv, ImageInv

\* The steps of a command.
LEMMA ActsKeep ==
  ASSUME BuildsInv, NEW b \in Builders, Acts(b)
  PROVE  BuildsInv'
<1>1. Typed /\ ImageInv /\ SymbolsAreOfImage
  BY DEF BuildsInv, ImageInv
<1>2. OwnInv(b) /\ (alone[b] => BesideBuild(b) /\ BesidePackage(b))
  BY DEF BuildsInv
<1>3. Typed' /\ ImageInv' /\ SymbolsAreOfImage'
  BY <1>1, <1>2, ActsTyped, ImageKept, SymbolsKept
<1>4. ASSUME NEW c \in Builders
      PROVE  OwnInv(c)' /\ (alone'[c] => BesideBuild(c)' /\ BesidePackage(c)')
  <2>1. CASE c = b
    BY <1>1, <1>2, <2>1, OwnKept, BesideBuildKept, BesidePackageKept
  <2>2. CASE c # b
    <3>1. /\ UNCHANGED <<at[c], job[c], k[c], work[c], staged[c]>>
          /\ alone'[c] => alone[c] /\ UNCHANGED files
      BY <1>1, <2>2, OthersStay
    <3>2. OwnInv(c)'
      BY <3>1 DEF BuildsInv, OwnInv
    <3>3. ASSUME alone'[c]
          PROVE  BesideBuild(c)' /\ BesidePackage(c)'
      <4>1. BesideBuild(c) /\ BesidePackage(c)
        BY <3>1, <3>3 DEF BuildsInv
      <4>2. QED
        BY <3>1, <3>3, <4>1 DEF BesideBuild, BesidePackage, files
    <3>4. QED
      BY <3>2, <3>3
  <2>3. QED
    BY <2>1, <2>2
<1>5. QED
  BY <1>3, <1>4 DEF BuildsInv, ImageInv

\* The sources and the image are changed by hand.
LEMMA HandsKeep ==
  ASSUME BuildsInv,
         \/ \E src \in Sources : Edit(src)
         \/ put_file("data", "b") \/ \E names \in {{"a"}, Names} : delete_file(names)
         \/ rename_file("b", "a")
  PROVE  BuildsInv'
<1>1. CASE \E src \in Sources : Edit(src)
  <2>1. PICK src \in Sources : Edit(src)
    BY <1>1
  <2>2. version' \in [Sources -> Nat]
    <3>1. version \in [Sources -> Nat]
      BY DEF BuildsInv, Typed
    <3>2. version[src] + 1 \in Nat
      BY <3>1
    <3>3. QED
      BY <2>1, <3>1, <3>2 DEF Edit
  <2>3. UNCHANGED <<files, own, alone, settled>>
    BY <2>1 DEF Edit
  <2>4. Typed'
    BY <2>2, <2>3 DEF BuildsInv, Typed, files, own
  <2>5. ASSUME NEW c \in Builders
        PROVE  OwnInv(c)' /\ (alone'[c] => BesideBuild(c)' /\ BesidePackage(c)')
    BY <2>3 DEF BuildsInv, OwnInv, BesideBuild, BesidePackage, files, own
  <2>6. ImageForm' /\ WholeImages' /\ SeparateEntriesAreOwn'
    BY <2>3 DEF BuildsInv, ImageForm, WholeImages, SeparateEntriesAreOwn, files
  <2>7. SymbolsAreOfImage'
    BY <2>3, SymbolsStay DEF BuildsInv
  <2>8. QED
    BY <2>4, <2>5, <2>6, <2>7 DEF BuildsInv
<1>2. ASSUME NEW listing, Changes(listing)
      PROVE  BuildsInv'
  <2>1. image' = [exists |-> image.exists, made |-> <<>>, files |-> listing]
    BY <1>2 DEF Changes, BuildsInv, ImageForm
  <2>2. /\ UNCHANGED <<version, kept, own>> /\ settled' = "no"
        /\ alone' = [c \in Builders |-> FALSE]
    BY <1>2 DEF Changes
  <2>3. Typed'
    BY <2>2 DEF BuildsInv, Typed, own
  <2>4. ASSUME NEW c \in Builders
        PROVE  OwnInv(c)' /\ ~alone'[c]
    BY <2>2 DEF BuildsInv, OwnInv, own
  <2>5. ImageInv'
    BY <2>1, PlainImage
  <2>6. SymbolsAreOfImage'
    BY <2>2 DEF SymbolsAreOfImage
  <2>7. QED
    BY <2>3, <2>4, <2>5, <2>6 DEF BuildsInv, ImageInv
<1>3. QED
  BY <1>1, <1>2 DEF put_file, delete_file, rename_file

LEMMA BuildsStep ==
  ASSUME BuildsInv, [Next]_vars
  PROVE  BuildsInv'
<1>1. CASE Next
  BY <1>1, ActsKeep, HandsKeep DEF Next, Acts
<1>2. CASE UNCHANGED vars
  <2>1. UNCHANGED <<version, files, own, alone, settled>>
    BY <1>2 DEF vars
  <2>2. Typed'
    BY <2>1 DEF BuildsInv, Typed, files, own
  <2>3. ASSUME NEW c \in Builders
        PROVE  OwnInv(c)' /\ (alone'[c] => BesideBuild(c)' /\ BesidePackage(c)')
    BY <2>1 DEF BuildsInv, OwnInv, BesideBuild, BesidePackage, files, own
  <2>4. ImageForm' /\ WholeImages' /\ SeparateEntriesAreOwn'
    BY <2>1 DEF BuildsInv, ImageForm, WholeImages, SeparateEntriesAreOwn, files
  <2>5. SymbolsAreOfImage'
    BY <2>1, SymbolsStay DEF BuildsInv
  <2>6. QED
    BY <2>2, <2>3, <2>4, <2>5 DEF BuildsInv
<1>3. QED
  BY <1>1, <1>2

-----------------------------------------------------------------------------
(* The disk builds: the theorems.                                            *)

\* What each command has in its working directory, its staging directory and,
\* as long as it is alone, in the files beside the image.
THEOREM BuildsInvariance == Spec => []BuildsInv
<1>1. QED
  BY BuildsInit, BuildsStep, PTL DEF Spec

\* build_disk replaces an image by a whole one or not at all.
THEOREM WholeOrOld == Spec => []WholeImages
<1>1. BuildsInv => WholeImages
  BY DEF BuildsInv
<1>2. QED
  BY <1>1, BuildsInvariance, PTL

\* Each file of it is the program of its own entry, where no two are built
\* under one stem.
THEOREM OwnEntries == Spec => []SeparateEntriesAreOwn
<1>1. BuildsInv => SeparateEntriesAreOwn
  BY DEF BuildsInv
<1>2. QED
  BY <1>1, BuildsInvariance, PTL

\* The labels that booting it finds are of the very program that is on it.
THEOREM MatchingSymbols == Spec => []SymbolsAreOfImage
<1>1. BuildsInv => SymbolsAreOfImage
  BY DEF BuildsInv
<1>2. QED
  BY <1>1, BuildsInvariance, PTL

-----------------------------------------------------------------------------
(* The images: the invariant.                                                *)

WrapSpecs == [load : 0..(TOP - 1), size : Nat, basic : BOOLEAN, type : {"8k", "16k", "ultimax"}]

ImagesTyped ==
  /\ build \in [kind : {"areas"}, spec : AreaJobs] \cup [kind : {"wrap"}, spec : WrapJobs]
               \cup [kind : {"banks"}, spec : BankJobs]
  /\ phase \in {"begin", "refused", "loaded", "link error", "page", "tail", "started", "flashed"}
  /\ x \in Nat /\ y \in Nat /\ from \in Nat /\ to \in Nat

\* What an end of a build, or the launcher at work, says of what is built.
Decided ==
  /\ phase = "begin" => ram = [a \in 0..(TOP - 1) |-> 0]
  /\ phase \in {"loaded", "link error"} =>
       build.kind = "areas" /\ parse_areas(build.spec.values).ok
  /\ phase = "loaded" => Links(Config, build.spec.needs)
  /\ phase = "link error" => ~Links(Config, build.spec.needs)
  /\ phase = "refused" /\ build.kind = "areas" => ~parse_areas(build.spec.values).ok
  /\ phase \in {"page", "tail", "started"} =>
       /\ build.kind = "wrap" /\ size > 0 /\ ~Misplaced
       /\ _wrap_kind = "basic" => build.spec.type # "16k"
  /\ phase = "flashed" =>
       /\ build.kind = "banks" /\ load_manifest(build.spec)
       /\ \A e \in Banked(build.spec) : Fits(e)

\* The launcher: x pages and the odd bytes are still to be copied, what is in
\* front of the pointers is, and nothing else has been written.
Copying ==
  phase \in {"page", "tail", "started"} =>
    /\ to = load + from
    /\ phase = "page" => x > 0 /\ y < PAGE /\ from + x * PAGE + Odd = size
    /\ phase \in {"tail", "started"} => from + Odd = size /\ y <= Odd
    /\ phase = "started" => y = Odd
    /\ ram = [a \in 0..(TOP - 1) |->
                IF a \in load..(load + from + y - 1) THEN a - load + 1 ELSE 0]

ImagesInv == ImagesTyped /\ Decided /\ Copying

-----------------------------------------------------------------------------
(* Pages and addresses.                                                      *)

LEMMA Pages ==
  ASSUME NEW n \in Nat
  PROVE  /\ n \div PAGE \in Nat /\ n % PAGE \in 0..(PAGE - 1)
         /\ n = (n \div PAGE) * PAGE + (n % PAGE)
BY MapAssumption

LEMMA PageLeft ==
  ASSUME NEW n \in Nat, n > 0
  PROVE  n * PAGE \in Nat /\ n * PAGE = PAGE + (n - 1) * PAGE /\ (n - 1) * PAGE \in Nat
BY MapAssumption

LEMMA NextOfPage ==
  ASSUME NEW n \in Nat, n < PAGE
  PROVE  /\ n + 1 < PAGE => (n + 1) % PAGE = n + 1
         /\ n + 1 = PAGE => (n + 1) % PAGE = 0
BY MapAssumption

LEMMA SmallAddress ==
  ASSUME NEW n \in Nat, n < TOP
  PROVE  n % TOP = n
BY AddressAssumption

\* What is known of a program that is wrapped.
LEMMA WrapTypes ==
  ASSUME ImagesTyped, build.kind = "wrap"
  PROVE  build.spec \in WrapSpecs /\ load \in 0..(TOP - 1) /\ size \in Nat
<1>1. build.spec \in WrapJobs
  BY DEF ImagesTyped
<1> QED BY <1>1, JobsAssumption DEF WrapSpecs, load, size

LEMMA Placed ==
  ASSUME ImagesTyped, build.kind = "wrap", ~Misplaced
  PROVE  prog_end <= KERNAL /\ prog_end \in Nat
<1>1. load \in 0..(TOP - 1) /\ size \in Nat
  BY WrapTypes
<1>2. ~Overlaps(KERNAL, TOP - 1)
  BY DEF Misplaced, _WRAP_NO_COPY
<1> QED BY <1>1, <1>2, MapAssumption, AddressAssumption DEF Overlaps, prog_end

\* Nothing that is worked out from what is built changes during the build.
LEMMA SameBuild ==
  ASSUME UNCHANGED build
  PROVE  UNCHANGED <<load, size, Odd, prog_end, _wrap_kind, Misplaced, Config>>
<1>1. UNCHANGED <<load, size>>
  BY DEF load, size
<1>2. UNCHANGED <<Odd, prog_end, win_end, _wrap_kind, Config>>
  BY <1>1 DEF Odd, prog_end, _wrap_kind, Config, win_end, image_bytes
<1>3. UNCHANGED Misplaced
  BY <1>1, <1>2 DEF Misplaced, Overlaps
<1> QED BY <1>1, <1>2, <1>3

-----------------------------------------------------------------------------
(* The launcher.                                                             *)

LEMMA ImagesBegin == ImagesInit => ImagesInv
BY DEF ImagesInit, ImagesInv, ImagesTyped, Decided, Copying

LEMMA KeptByEnd ==
  ASSUME ImagesInv, NEW step, Ends(step),
         step \in {"refused", "loaded", "link error", "flashed"},
         step = "loaded" => Links(Config, build.spec.needs),
         step = "link error" => ~Links(Config, build.spec.needs),
         step \in {"loaded", "link error"} => build.kind = "areas" /\ parse_areas(build.spec.values).ok,
         step = "refused" /\ build.kind = "areas" => ~parse_areas(build.spec.values).ok,
         step = "flashed" => /\ build.kind = "banks" /\ load_manifest(build.spec)
                             /\ \A e \in Banked(build.spec) : Fits(e)
  PROVE  ImagesInv'
<1>1. UNCHANGED <<build, x, y, from, to, ram>> /\ phase' = step
  BY DEF Ends, regs
<1>2. ImagesTyped'
  BY <1>1 DEF ImagesInv, ImagesTyped
<1>3. Decided'
  BY <1>1, SameBuild DEF Decided
<1>4. Copying'
  BY <1>1 DEF Copying
<1> QED BY <1>2, <1>3, <1>4 DEF ImagesInv

LEMMA KeptByWrap ==
  ASSUME ImagesInv, wrap_prg PROVE ImagesInv'
<1>1. CASE Ends("refused")
  BY <1>1, KeptByEnd DEF wrap_prg
<1>2. CASE ~Ends("refused")
  <2>1. /\ phase = "begin" /\ build.kind = "wrap" /\ ~Misplaced /\ size # 0
        /\ _wrap_kind = "basic" => build.spec.type # "16k"
        /\ x' = size \div PAGE /\ y' = 0 /\ from' = 0 /\ to' = load
        /\ phase' = IF x' = 0 THEN "tail" ELSE "page"
        /\ UNCHANGED <<build, ram>>
    BY <1>2 DEF wrap_prg
  <2>2. load \in 0..(TOP - 1) /\ size \in Nat
    BY <2>1, WrapTypes DEF ImagesInv
  <2>3. size \div PAGE \in Nat /\ Odd \in 0..(PAGE - 1) /\ size = (size \div PAGE) * PAGE + Odd
    BY <2>2, Pages DEF Odd
  <2>4. UNCHANGED <<load, size, Odd, _wrap_kind, Misplaced>>
    BY <2>1, SameBuild
  <2>5. ImagesTyped'
    BY <2>1, <2>2, <2>3 DEF ImagesInv, ImagesTyped
  <2>6. Decided'
    BY <2>1, <2>2, <2>4 DEF Decided
  <2>7. ram' = [a \in 0..(TOP - 1) |->
                  IF a \in load..(load + 0 + 0 - 1) THEN a - load + 1 ELSE 0]
    BY <2>1, <2>2 DEF ImagesInv, Decided
  <2>8. phase' = "page" => x' > 0 /\ 0 < PAGE /\ 0 + x' * PAGE + Odd = size
    BY <2>1, <2>3, MapAssumption
  <2>9. phase' = "tail" => 0 + Odd = size /\ 0 <= Odd
    <3>1. phase' = "tail" => x' = 0
      BY <2>1
    <3>2. x' = 0 => (size \div PAGE) * PAGE = 0
      BY <2>1, <2>3, MapAssumption
    <3> QED BY <3>1, <3>2, <2>3
  <2>10. Copying'
    BY <2>1, <2>2, <2>3, <2>4, <2>7, <2>8, <2>9 DEF Copying
  <2> QED BY <2>5, <2>6, <2>10 DEF ImagesInv
<1> QED BY <1>1, <1>2

\* One byte more has been copied.
LEMMA OneByte ==
  ASSUME ImagesInv, phase \in {"page", "tail"}, Copies, from + y < size
  PROVE  ram' = [a \in 0..(TOP - 1) |->
                   IF a \in load..(load + from + (y + 1) - 1) THEN a - load + 1 ELSE 0]
<1>1. /\ load \in 0..(TOP - 1) /\ size \in Nat /\ from \in Nat /\ y \in Nat
      /\ to = load + from /\ prog_end <= KERNAL
      /\ ram = [a \in 0..(TOP - 1) |-> IF a \in load..(load + from + y - 1) THEN a - load + 1 ELSE 0]
  BY WrapTypes, Placed DEF ImagesInv, ImagesTyped, Decided, Copying
<1>2. to + y \in Nat /\ to + y < TOP
  BY <1>1, MapAssumption, AddressAssumption DEF prog_end
<1>3. (to + y) % TOP = to + y
  BY <1>2, SmallAddress
<1>4. ram' = [ram EXCEPT ![load + from + y] = from + y + 1]
  BY <1>1, <1>3 DEF Copies
<1> QED BY <1>1, <1>2, <1>4, AddressAssumption

LEMMA KeptByPage ==
  ASSUME ImagesInv, _page PROVE ImagesInv'
<1>1. /\ phase = "page" /\ Copies /\ y' = (y + 1) % PAGE /\ UNCHANGED build
      /\ IF y' # 0 THEN UNCHANGED <<phase, x, from, to>>
         ELSE /\ from' = from + PAGE /\ to' = to + PAGE /\ x' = x - 1
              /\ phase' = IF x' = 0 THEN "tail" ELSE "page"
  BY DEF _page
<1>2. /\ load \in 0..(TOP - 1) /\ size \in Nat /\ from \in Nat /\ y \in Nat /\ x \in Nat
      /\ to = load + from /\ x > 0 /\ y < PAGE /\ from + x * PAGE + Odd = size
      /\ PAGE \in Nat /\ PAGE > 0
  BY <1>1, WrapTypes, MapAssumption DEF ImagesInv, ImagesTyped, Decided, Copying
<1>3. Odd \in 0..(PAGE - 1)
  BY <1>2, Pages DEF Odd
<1>4. x * PAGE = PAGE + (x - 1) * PAGE /\ (x - 1) * PAGE \in Nat
  BY <1>2, PageLeft
<1>5. from + PAGE + (x - 1) * PAGE + Odd = size
  BY <1>2, <1>3, <1>4
<1>6. from + y < size
  BY <1>2, <1>3, <1>4, <1>5
<1>7. ram' = [a \in 0..(TOP - 1) |->
                IF a \in load..(load + from + (y + 1) - 1) THEN a - load + 1 ELSE 0]
  BY <1>1, <1>6, OneByte
<1>8. UNCHANGED <<load, size, Odd, _wrap_kind, Misplaced>>
  BY <1>1, SameBuild
<1>9. CASE y + 1 < PAGE
  <2>1. y' = y + 1 /\ UNCHANGED <<phase, x, from, to>>
    BY <1>1, <1>2, <1>9, NextOfPage
  <2>2. ImagesTyped'
    BY <2>1, <1>1, <1>2 DEF ImagesInv, ImagesTyped
  <2>3. Decided'
    BY <2>1, <1>1, <1>8 DEF ImagesInv, Decided
  <2>4. Copying'
    BY <2>1, <1>1, <1>2, <1>7, <1>8, <1>9 DEF Copying
  <2> QED BY <2>2, <2>3, <2>4 DEF ImagesInv
<1>10. CASE y + 1 = PAGE
  <2>1. /\ y' = 0 /\ from' = from + PAGE /\ to' = to + PAGE /\ x' = x - 1
        /\ phase' = IF x' = 0 THEN "tail" ELSE "page"
    BY <1>1, <1>2, <1>10, NextOfPage
  <2>2. ImagesTyped'
    BY <2>1, <1>1, <1>2 DEF ImagesInv, ImagesTyped
  <2>3. Decided'
    BY <2>1, <1>1, <1>8 DEF ImagesInv, Decided
  <2>4. ram' = [a \in 0..(TOP - 1) |->
                  IF a \in load..(load + (from + PAGE) + 0 - 1) THEN a - load + 1 ELSE 0]
    BY <1>7, <1>10, <1>2
  <2>5. x' > 0 => from' + x' * PAGE + Odd = size
    BY <2>1, <1>5
  <2>6. x' = 0 => from' + Odd = size
    <3>1. x - 1 = 0 => (x - 1) * PAGE = 0
      BY <1>2
    <3> QED BY <3>1, <2>1, <1>2, <1>3, <1>5
  <2>7. Copying'
    BY <2>1, <2>4, <2>5, <2>6, <1>2, <1>3, <1>8 DEF Copying
  <2> QED BY <2>2, <2>3, <2>7 DEF ImagesInv
<1> QED BY <1>2, <1>9, <1>10

LEMMA KeptByTail ==
  ASSUME ImagesInv, _tail PROVE ImagesInv'
<1>1. phase = "tail" /\ y # Odd /\ Copies /\ y' = y + 1 /\ UNCHANGED <<build, phase, x, from, to>>
  BY DEF _tail
<1>2. /\ load \in 0..(TOP - 1) /\ size \in Nat /\ from \in Nat /\ y \in Nat
      /\ to = load + from /\ from + Odd = size /\ y <= Odd
  BY <1>1, WrapTypes DEF ImagesInv, ImagesTyped, Decided, Copying
<1>3. Odd \in Nat
  BY <1>2, Pages DEF Odd
<1>4. ram' = [a \in 0..(TOP - 1) |->
                IF a \in load..(load + from + (y + 1) - 1) THEN a - load + 1 ELSE 0]
  BY <1>1, <1>2, <1>3, OneByte
<1>5. UNCHANGED <<load, size, Odd, _wrap_kind, Misplaced>>
  BY <1>1, SameBuild
<1>6. ImagesTyped'
  BY <1>1, <1>2 DEF ImagesInv, ImagesTyped
<1>7. Decided'
  BY <1>1, <1>5 DEF ImagesInv, Decided
<1>8. Copying'
  BY <1>1, <1>2, <1>3, <1>4, <1>5 DEF Copying
<1> QED BY <1>6, <1>7, <1>8 DEF ImagesInv

LEMMA KeptByCopied ==
  ASSUME ImagesInv, _copied PROVE ImagesInv'
<1>1. phase = "tail" /\ y = Odd /\ phase' = "started" /\ UNCHANGED <<build, x, y, from, to, ram>>
  BY DEF _copied, Ends, regs
<1>2. UNCHANGED <<load, size, Odd, _wrap_kind, Misplaced>>
  BY <1>1, SameBuild
<1>3. ImagesTyped'
  BY <1>1 DEF ImagesInv, ImagesTyped
<1>4. Decided'
  BY <1>1, <1>2 DEF ImagesInv, Decided
<1>5. Copying'
  BY <1>1, <1>2 DEF ImagesInv, Copying
<1> QED BY <1>3, <1>4, <1>5 DEF ImagesInv

LEMMA KeptByBuild ==
  ASSUME ImagesInv, Links_areas \/ build_banks PROVE ImagesInv'
<1>1. CASE Links_areas
  BY <1>1, KeptByEnd DEF Links_areas
<1>2. CASE build_banks
  BY <1>2, KeptByEnd DEF build_banks
<1> QED BY <1>1, <1>2

LEMMA KeptByNothing ==
  ASSUME ImagesInv, UNCHANGED imagesVars PROVE ImagesInv'
<1>1. UNCHANGED <<build, phase, x, y, from, to, ram>>
  BY DEF imagesVars, regs
<1>2. UNCHANGED <<load, size, Odd, _wrap_kind, Misplaced, Config>>
  BY <1>1, SameBuild
<1>3. ImagesTyped'
  BY <1>1 DEF ImagesInv, ImagesTyped
<1>4. Decided'
  BY <1>1, <1>2 DEF ImagesInv, Decided
<1>5. Copying'
  BY <1>1, <1>2 DEF ImagesInv, Copying
<1> QED BY <1>3, <1>4, <1>5 DEF ImagesInv

\* Whatever is built, what its builder decided still holds at its end, and the
\* launcher has copied all that is in front of its pointers and nothing else.
THEOREM ImagesInvariance == ImagesSpec => []ImagesInv
<1>1. ImagesInit => ImagesInv
  BY ImagesBegin
<1>2. ImagesInv /\ [ImagesNext]_imagesVars => ImagesInv'
  <2> SUFFICES ASSUME ImagesInv, [ImagesNext]_imagesVars PROVE ImagesInv'
    OBVIOUS
  <2> QED BY KeptByWrap, KeptByPage, KeptByTail, KeptByCopied, KeptByBuild, KeptByNothing
          DEF ImagesNext
<1> QED BY <1>1, <1>2, PTL DEF ImagesSpec

\* wrap_prg refuses what overlaps ROM or chips, so that no copied byte is hidden.
LEMMA WrapBootsFollows ==
  ASSUME ImagesInv PROVE WrapBoots
<1>1. ASSUME phase = "started"
      PROVE  /\ \A i \in 1..size : ram[load + i - 1] = i
             /\ \A a \in DOMAIN ram \ Program : ram[a] = 0
             /\ \A a \in Program : ~Mapped(a)
             /\ _wrap_kind = "basic" => win_end < ROMH
  <2>1. /\ load \in 0..(TOP - 1) /\ size \in Nat /\ from \in Nat /\ y \in Nat
        /\ from + y = size /\ prog_end <= KERNAL /\ build.spec \in WrapSpecs
        /\ ram = [a \in 0..(TOP - 1) |-> IF a \in load..(load + from + y - 1) THEN a - load + 1 ELSE 0]
    BY <1>1, WrapTypes, Placed DEF ImagesInv, ImagesTyped, Decided, Copying
  <2>2. ram = [a \in 0..(TOP - 1) |-> IF a \in Program THEN a - load + 1 ELSE 0]
    BY <2>1 DEF Program, prog_end
  <2>3. \A i \in 1..size : load + i - 1 \in Program /\ load + i - 1 \in 0..(TOP - 1)
    BY <2>1, MapAssumption, AddressAssumption DEF Program, prog_end
  <2>4. \A i \in 1..size : ram[load + i - 1] = i
    BY <2>1, <2>2, <2>3
  <2>5. \A a \in DOMAIN ram \ Program : ram[a] = 0
    BY <2>2
  <2>6. ~Overlaps(ROML, win_end) /\ ~Overlaps(ROMH, FREE - 1) /\ ~Overlaps(IO, KERNAL - 1)
        /\ ~Overlaps(KERNAL, TOP - 1)
    BY <1>1 DEF ImagesInv, Decided, Misplaced, _WRAP_NO_COPY
  <2>7. win_end \in Nat
    BY MapAssumption DEF win_end, image_bytes
  <2>8. \A a \in Program : ~Mapped(a)
    BY <2>1, <2>6, <2>7, MapAssumption, AddressAssumption DEF Overlaps, Mapped, Program, prog_end
  <2>9. _wrap_kind = "basic" => win_end < ROMH
    BY <1>1, MapAssumption DEF ImagesInv, Decided, win_end, image_bytes
  <2> QED BY <2>4, <2>5, <2>8, <2>9
<1>2. ASSUME phase = "refused", build.kind = "wrap", size > 0, Misplaced
      PROVE  \E a \in Program : Mapped(a) \/ a >= TOP
  <2>1. load \in 0..(TOP - 1) /\ size \in Nat
    BY <1>2, WrapTypes DEF ImagesInv
  <2>2. win_end \in Nat /\ ROML <= win_end
    BY MapAssumption DEF win_end, image_bytes
  <2>3. ASSUME NEW lo \in Nat, NEW hi \in Nat, lo <= hi, Overlaps(lo, hi)
        PROVE  \E a \in Program : a \in lo..hi
    <3>1. CASE load <= lo
      <4>1. lo \in Program /\ lo \in lo..hi
        BY <3>1, <2>1, <2>3 DEF Overlaps, Program, prog_end
      <4> QED BY <4>1
    <3>2. CASE load > lo
      <4>1. load \in Program /\ load \in lo..hi
        BY <3>2, <2>1, <2>3, <1>2 DEF Overlaps, Program, prog_end
      <4> QED BY <4>1
    <3> QED BY <3>1, <3>2, <2>1
  <2>4. \/ Overlaps(ROML, win_end) \/ Overlaps(ROMH, FREE - 1) \/ Overlaps(IO, KERNAL - 1)
        \/ Overlaps(KERNAL, TOP - 1)
    BY <1>2 DEF Misplaced, _WRAP_NO_COPY
  <2>5. \E a \in Program : \/ a \in ROML..win_end \/ a \in ROMH..(FREE - 1)
                           \/ a \in IO..(KERNAL - 1) \/ a \in KERNAL..(TOP - 1)
    <3>1. /\ ROMH <= FREE - 1 /\ IO <= KERNAL - 1 /\ KERNAL <= TOP - 1
          /\ {ROML, ROMH, FREE - 1, IO, KERNAL - 1, KERNAL, TOP - 1} \subseteq Nat
      BY MapAssumption, AddressAssumption
    <3> QED BY <2>2, <2>3, <2>4, <3>1
  <2> QED BY <2>5, MapAssumption, AddressAssumption DEF Mapped
<1> QED BY <1>1, <1>2 DEF WrapBoots

\* A program that wrap_prg accepts is whole and readable when _LAUNCHER starts
\* it, and one that it refuses for its place could not be.
THEOREM WrapBootsHolds == ImagesSpec => []WrapBoots
BY ImagesInvariance, WrapBootsFollows, PTL

-----------------------------------------------------------------------------
(* An EasyFlash cartridge.                                                   *)

BankEntries == [bank : Int, key : {"int", "string"}, window : {"lo", "hi"},
                linked : BOOLEAN, size : Nat, tail : BOOLEAN, strays : BOOLEAN]

\* A manifest that is built.
Flashed(m) == m \in BankJobs /\ load_manifest(m) /\ \A e \in Banked(m) : Fits(e)

LEMMA WindowSize == BANK_WINDOW \in Nat /\ BANK_WINDOW > 0
BY WindowAssumption

LEMMA Offsets ==
  ASSUME NEW b \in 0..(EF_MAX_BANKS - 1), NEW w \in {"lo", "hi"}
  PROVE  Offset(b, w) \in Nat /\ Offset(b, w) + BANK_WINDOW <= EF_IMAGE_BYTES /\ EF_IMAGE_BYTES \in Nat
<1>1. BANK_WINDOW \in Nat /\ EF_MAX_BANKS \in Nat /\ b \in Nat /\ b + 1 <= EF_MAX_BANKS
  BY WindowAssumption
<1>2. b * 2 * BANK_WINDOW \in Nat /\ b * 2 * BANK_WINDOW + 2 * BANK_WINDOW <= EF_MAX_BANKS * 2 * BANK_WINDOW
      /\ EF_MAX_BANKS * 2 * BANK_WINDOW \in Nat
  <2>1. PICK d \in Nat : EF_MAX_BANKS = b + 1 + d
    <3>1. EF_MAX_BANKS - b - 1 \in Nat /\ EF_MAX_BANKS = b + 1 + (EF_MAX_BANKS - b - 1)
      BY <1>1
    <3> QED BY <3>1
  <2>2. EF_MAX_BANKS * 2 * BANK_WINDOW = b * 2 * BANK_WINDOW + 2 * BANK_WINDOW + d * 2 * BANK_WINDOW
    BY <1>1, <2>1
  <2>3. d * 2 * BANK_WINDOW \in Nat /\ b * 2 * BANK_WINDOW \in Nat
    BY <1>1
  <2> QED BY <1>1, <2>2, <2>3
<1> QED BY <1>1, <1>2 DEF Offset, EF_IMAGE_BYTES

\* Two windows have no byte in common.
LEMMA Apart ==
  ASSUME NEW b \in Nat, NEW c \in Nat, NEW v \in {"lo", "hi"}, NEW w \in {"lo", "hi"}, NEW i \in Int,
         i - Offset(b, v) \in 1..BANK_WINDOW, i - Offset(c, w) \in 1..BANK_WINDOW
  PROVE  b = c /\ v = w
<1>1. ASSUME NEW d \in Nat, NEW f \in Nat, d < f PROVE d * 2 * BANK_WINDOW + 2 * BANK_WINDOW <= f * 2 * BANK_WINDOW
  <2>1. PICK g \in Nat : f = d + 1 + g
    <3>1. f - d - 1 \in Nat /\ f = d + 1 + (f - d - 1)
      BY <1>1
    <3> QED BY <3>1
  <2>2. f * 2 * BANK_WINDOW = d * 2 * BANK_WINDOW + 2 * BANK_WINDOW + g * 2 * BANK_WINDOW
    BY <2>1, WindowSize
  <2>3. g * 2 * BANK_WINDOW \in Nat /\ d * 2 * BANK_WINDOW \in Nat
    BY WindowSize
  <2> QED BY <2>2, <2>3, WindowSize
<1>2. b * 2 * BANK_WINDOW \in Nat /\ c * 2 * BANK_WINDOW \in Nat
  BY WindowSize
<1>3. ~(b < c) /\ ~(c < b)
  BY <1>1, <1>2, WindowSize DEF Offset
<1>4. b = c
  BY <1>3
<1> QED BY <1>2, <1>4, WindowSize DEF Offset

LEMMA BytesForm ==
  ASSUME NEW e \in BankEntries
  PROVE  /\ Len(Bytes(e)) \in Nat /\ DOMAIN Bytes(e) = 1..Len(Bytes(e))
         /\ Bytes(e) = [i \in 1..Len(Bytes(e)) |-> Bytes(e)[i]]
         /\ Len(Bytes(e)) = IF e.linked THEN BANK_WINDOW ELSE e.size
<1>1. e.size \in Nat /\ e.linked \in BOOLEAN
  BY DEF BankEntries
<1>2. CASE e.linked
  BY <1>1, <1>2, WindowSize DEF Bytes
<1>3. CASE ~e.linked
  BY <1>1, <1>3 DEF Bytes
<1> QED BY <1>1, <1>2, <1>3

LEMMA AsFunction ==
  ASSUME NEW S, NEW u \in Seq(S)
  PROVE  u = [i \in 1..Len(u) |-> u[i]] /\ Len(u) \in Nat
OBVIOUS

LEMMA AsSequence ==
  ASSUME NEW n \in Nat, NEW f, f = [i \in 1..n |-> f[i]]
  PROVE  f \in Seq({f[i] : i \in 1..n}) /\ Len(f) = n
OBVIOUS

LEMMA WindowForm ==
  ASSUME NEW e \in BankEntries, Fits(e)
  PROVE  /\ Len(Bytes(e)) \in 0..BANK_WINDOW
         /\ Window(e) = [i \in 1..BANK_WINDOW |-> IF i <= Len(Bytes(e)) THEN Bytes(e)[i] ELSE FF]
<1>1. Len(Bytes(e)) \in 0..BANK_WINDOW
  BY BytesForm, WindowSize DEF Fits
<1> DEFINE s == Bytes(e)
           n == Len(s)
           t == Blank(BANK_WINDOW - n)
<1>2. s \in Seq({s[i] : i \in 1..n} \cup {FF})
  BY BytesForm
<1>3. t \in Seq({s[i] : i \in 1..n} \cup {FF}) /\ Len(t) = BANK_WINDOW - n
      /\ \A i \in 1..(BANK_WINDOW - n) : t[i] = FF
  BY <1>1, WindowSize DEF Blank
<1>4. s \o t = [i \in 1..BANK_WINDOW |-> IF i <= n THEN s[i] ELSE FF]
  <2>1. n \in Nat /\ n <= BANK_WINDOW /\ BANK_WINDOW \in Nat
    BY <1>1, WindowSize
  <2> HIDE DEF s, t
  <2>2. Len(s \o t) = BANK_WINDOW /\ s \o t \in Seq({s[i] : i \in 1..n} \cup {FF})
    BY <1>2, <1>3, <2>1
  <2>3. \A i \in 1..BANK_WINDOW : (s \o t)[i] = IF i <= n THEN s[i] ELSE FF
    BY <1>2, <1>3, <2>1
  <2> DEFINE u == s \o t
  <2>4. u = [i \in 1..BANK_WINDOW |-> u[i]]
    BY <2>2, AsFunction
  <2> HIDE DEF u
  <2>5. \A i \in 1..BANK_WINDOW : u[i] = IF i <= n THEN s[i] ELSE FF
    BY <2>3 DEF u
  <2>6. u = [i \in 1..BANK_WINDOW |-> IF i <= n THEN s[i] ELSE FF]
    BY <2>4, <2>5
  <2> QED BY <2>6 DEF u
<1> QED BY <1>1, <1>4 DEF Window

\* The entries of a manifest that is built, one for a window.
LEMMA FlashedEntries ==
  ASSUME NEW m, Flashed(m)
  PROVE  /\ \A n \in DOMAIN m : /\ m[n] \in BankEntries /\ Fits(m[n]) /\ m[n] \in Banked(m)
                                /\ m[n].bank \in 0..(EF_MAX_BANKS - 1) /\ m[n].window \in {"lo", "hi"}
         /\ \A n, z \in DOMAIN m : m[n].bank = m[z].bank /\ m[n].window = m[z].window => n = z
         /\ DOMAIN m \subseteq Nat
<1>1. m \in Seq(BankEntries)
  BY JobsAssumption DEF Flashed, BankEntries, EF_WINDOWS, Range
<1>2. \A n \in DOMAIN m : m[n] \in BankEntries /\ m[n] \in Banked(m) /\ Fits(m[n])
  BY <1>1 DEF Flashed, Banked
<1>3. \A n \in DOMAIN m : m[n].bank \in 0..(EF_MAX_BANKS - 1) /\ m[n].window \in {"lo", "hi"}
  BY <1>2 DEF Flashed, load_manifest, BankEntries
<1>4. ASSUME NEW n \in DOMAIN m, NEW z \in DOMAIN m, m[n].bank = m[z].bank, m[n].window = m[z].window
      PROVE  n = z
  <2>1. <<m[n].bank, m[n].key>> \in Keys(m) /\ <<m[z].bank, m[z].key>> \in Keys(m)
    BY DEF Keys
  <2>2. <<m[n].bank, m[n].key>> = <<m[z].bank, m[z].key>>
    BY <2>1, <1>4 DEF Flashed, load_manifest
  <2>3. m[n].key = m[z].key
    BY <2>2
  <2> QED BY <2>3, <1>4, JobsAssumption DEF Flashed
<1>5. DOMAIN m \subseteq Nat
  BY <1>1
<1> QED BY <1>2, <1>3, <1>4, <1>5

\* What the image has in a window: its entry, if it has one.
Data_In(m, b, w) == [i \in 1..BANK_WINDOW |-> build_easyflash(m)[Offset(b, w) + i]]

LEMMA ImageByte ==
  ASSUME NEW m, Flashed(m), NEW b \in 0..(EF_MAX_BANKS - 1), NEW w \in {"lo", "hi"},
         NEW i \in 1..BANK_WINDOW
  PROVE  /\ \A n \in DOMAIN m : m[n].bank = b /\ m[n].window = w =>
              build_easyflash(m)[Offset(b, w) + i] = Window(m[n])[i]
         /\ (~ \E n \in DOMAIN m : m[n].bank = b /\ m[n].window = w) =>
              build_easyflash(m)[Offset(b, w) + i] = FF
<1> DEFINE p == Offset(b, w) + i
           Place(n) == p - Offset(m[n].bank, m[n].window)
           writers == {n \in DOMAIN m : Place(n) \in DOMAIN Bytes(m[n])}
           last == CHOOSE n \in writers : \A other \in writers : other <= n
<1>1. Offset(b, w) \in Nat /\ p \in 1..EF_IMAGE_BYTES
  BY Offsets, WindowSize
<1>2. build_easyflash(m)[p] = IF writers = {} THEN FF ELSE Bytes(m[last])[Place(last)]
  BY <1>1 DEF build_easyflash
<1>3. ASSUME NEW z \in writers
      PROVE  m[z].bank = b /\ m[z].window = w /\ i \in 1..Len(Bytes(m[z]))
  <2>1. /\ m[z] \in BankEntries /\ Fits(m[z])
        /\ m[z].bank \in 0..(EF_MAX_BANKS - 1) /\ m[z].window \in {"lo", "hi"}
    BY FlashedEntries
  <2>2. Place(z) \in 1..Len(Bytes(m[z])) /\ Len(Bytes(m[z])) \in 0..BANK_WINDOW
    BY <2>1, BytesForm, WindowForm
  <2>3. Offset(m[z].bank, m[z].window) \in Nat
    BY <2>1, Offsets
  <2>4. p \in Int /\ p - Offset(b, w) = i /\ p - Offset(m[z].bank, m[z].window) \in 1..BANK_WINDOW
    BY <1>1, <2>2, <2>3, WindowSize
  <2>5. p - Offset(b, w) \in 1..BANK_WINDOW /\ b \in Nat /\ m[z].bank \in Nat
    BY <2>1, <2>4
  <2>6. b = m[z].bank /\ w = m[z].window
    <3> HIDE DEF p
    <3> QED BY <2>1, <2>4, <2>5, Apart
  <2> QED BY <2>2, <2>4, <2>6
<1>4. ASSUME NEW n \in DOMAIN m, m[n].bank = b, m[n].window = w
      PROVE  build_easyflash(m)[p] = Window(m[n])[i]
  <2>1. /\ Len(Bytes(m[n])) \in 0..BANK_WINDOW
        /\ DOMAIN Bytes(m[n]) = 1..Len(Bytes(m[n]))
        /\ Window(m[n])[i] = IF i <= Len(Bytes(m[n])) THEN Bytes(m[n])[i] ELSE FF
    <3>1. m[n] \in BankEntries /\ Fits(m[n])
      BY FlashedEntries
    <3> DEFINE e == m[n]
    <3>2. Window(e) = [j \in 1..BANK_WINDOW |-> IF j <= Len(Bytes(e)) THEN Bytes(e)[j] ELSE FF]
      BY <3>1, WindowForm
    <3> QED BY <3>1, <3>2, BytesForm, WindowForm
  <2>2. Place(n) = i
    BY <1>1, <1>4
  <2>3. \A z \in writers : z = n
    BY <1>3, <1>4, FlashedEntries
  <2>4. n \in Nat
    BY FlashedEntries
  <2>5. CASE i <= Len(Bytes(m[n]))
    <3>1. writers = {n}
      BY <2>1, <2>2, <2>3, <2>5
    <3>2. last = n
      <4> HIDE DEF writers
      <4> QED BY <3>1, <2>4
    <3> QED BY <1>2, <2>1, <2>2, <2>5, <3>1, <3>2
  <2>6. CASE ~(i <= Len(Bytes(m[n])))
    <3>1. writers = {}
      BY <2>1, <2>3, <1>3, <2>6
    <3> QED BY <1>2, <2>1, <2>6, <3>1
  <2> QED BY <2>5, <2>6
<1>5. ASSUME ~ \E n \in DOMAIN m : m[n].bank = b /\ m[n].window = w
      PROVE  build_easyflash(m)[p] = FF
  <2>1. writers = {}
    BY <1>3, <1>5
  <2> QED BY <1>2, <2>1
<1> QED BY <1>4, <1>5

LEMMA WindowData ==
  ASSUME NEW m, Flashed(m), NEW b \in 0..(EF_MAX_BANKS - 1), NEW w \in {"lo", "hi"}
  PROVE  /\ \A n \in DOMAIN m : m[n].bank = b /\ m[n].window = w => Data_In(m, b, w) = Window(m[n])
         /\ (~ \E n \in DOMAIN m : m[n].bank = b /\ m[n].window = w) =>
              Data_In(m, b, w) = Blank(BANK_WINDOW)
<1>1. ASSUME NEW n \in DOMAIN m, m[n].bank = b, m[n].window = w
      PROVE  Data_In(m, b, w) = Window(m[n])
  <2>1. m[n] \in BankEntries /\ Fits(m[n])
    BY FlashedEntries
  <2>2. Window(m[n]) = [i \in 1..BANK_WINDOW |-> Window(m[n])[i]]
    BY <2>1, WindowForm
  <2>3. \A i \in 1..BANK_WINDOW : build_easyflash(m)[Offset(b, w) + i] = Window(m[n])[i]
    BY <1>1, ImageByte
  <2> QED BY <2>2, <2>3 DEF Data_In
<1>2. ASSUME ~ \E n \in DOMAIN m : m[n].bank = b /\ m[n].window = w
      PROVE  Data_In(m, b, w) = Blank(BANK_WINDOW)
  BY <1>2, ImageByte DEF Data_In, Blank
<1> QED BY <1>1, <1>2

\* The packets that are written, and a look for one.
LEMMA PacketsForm ==
  ASSUME NEW m, Flashed(m)
  PROVE  cartconv(build_easyflash(m)) =
           {p \in {[bank |-> b, window |-> w, data |-> Data_In(m, b, w)] :
                     b \in 0..(EF_MAX_BANKS - 1), w \in {"lo", "hi"}} :
              p.data # Blank(BANK_WINDOW)}
<1> DEFINE flash == build_easyflash(m)
           From(b, w) == b * 2 * BANK_WINDOW + (IF w = "lo" THEN 1 ELSE BANK_WINDOW + 1)
           Upto(b, w) == b * 2 * BANK_WINDOW + (IF w = "lo" THEN BANK_WINDOW ELSE 2 * BANK_WINDOW)
<1>1. ASSUME NEW b \in 0..(EF_MAX_BANKS - 1), NEW w \in {"lo", "hi"}
      PROVE  SubSeq(flash, From(b, w), Upto(b, w)) = Data_In(m, b, w)
  <2>1. b * 2 * BANK_WINDOW \in Nat
    BY WindowSize, WindowAssumption
  <2>2. From(b, w) = Offset(b, w) + 1 /\ Upto(b, w) = Offset(b, w) + BANK_WINDOW /\ Offset(b, w) \in Nat
    BY <2>1, WindowSize DEF Offset
  <2>3. SubSeq(flash, Offset(b, w) + 1, Offset(b, w) + BANK_WINDOW)
          = [i \in 1..BANK_WINDOW |-> flash[Offset(b, w) + i]]
    <3> DEFINE o == Offset(b, w)
               part == SubSeq(flash, o + 1, o + BANK_WINDOW)
    <3>1. EF_IMAGE_BYTES \in Nat /\ o + BANK_WINDOW <= EF_IMAGE_BYTES
      BY Offsets
    <3>2. flash \in Seq({flash[i] : i \in 1..EF_IMAGE_BYTES}) /\ Len(flash) = EF_IMAGE_BYTES
      <4> DEFINE Body(i) ==
                   LET Place(n) == i - Offset(m[n].bank, m[n].window)
                       writers  == {n \in DOMAIN m : Place(n) \in DOMAIN Bytes(m[n])}
                       last     == CHOOSE n \in writers : \A other \in writers : other <= n
                   IN  IF writers = {} THEN FF ELSE Bytes(m[last])[Place(last)]
      <4>1. flash = [i \in 1..EF_IMAGE_BYTES |-> Body(i)]
        BY DEF build_easyflash
      <4> HIDE DEF Body, flash
      <4>2. flash = [i \in 1..EF_IMAGE_BYTES |-> flash[i]]
        BY <4>1
      <4> QED BY <4>2, <3>1, AsSequence
    <3> HIDE DEF flash, o
    <3>3. o \in Nat
      BY <2>2 DEF o
    <3>4. /\ part \in Seq({flash[i] : i \in 1..EF_IMAGE_BYTES}) /\ Len(part) = BANK_WINDOW
          /\ \A i \in 1..BANK_WINDOW : part[i] = flash[o + i]
      BY <3>1, <3>2, <3>3, WindowSize
    <3> HIDE DEF part
    <3>5. part = [i \in 1..BANK_WINDOW |-> part[i]]
      BY <3>4, AsFunction
    <3>6. part = [i \in 1..BANK_WINDOW |-> flash[o + i]]
      BY <3>4, <3>5
    <3> QED BY <3>6 DEF part, o
  <2>4. SubSeq(flash, From(b, w), Upto(b, w)) = SubSeq(flash, Offset(b, w) + 1, Offset(b, w) + BANK_WINDOW)
    <3> HIDE DEF flash, From, Upto
    <3> QED BY <2>2
  <2> HIDE DEF flash, From, Upto
  <2>5. SubSeq(flash, From(b, w), Upto(b, w)) = [i \in 1..BANK_WINDOW |-> flash[Offset(b, w) + i]]
    BY <2>2, <2>3, <2>4
  <2> QED BY <2>5 DEF Data_In, flash
<1> HIDE DEF flash
<1>2. cartconv(flash) =
           {p \in {[bank |-> b, window |-> w, data |-> SubSeq(flash, From(b, w), Upto(b, w))] :
                     b \in 0..(EF_MAX_BANKS - 1), w \in {"lo", "hi"}} :
              p.data # Blank(BANK_WINDOW)}
  BY DEF cartconv
<1> HIDE DEF From, Upto
<1>3. {[bank |-> b, window |-> w, data |-> SubSeq(flash, From(b, w), Upto(b, w))] :
           b \in 0..(EF_MAX_BANKS - 1), w \in {"lo", "hi"}}
        = {[bank |-> b, window |-> w, data |-> Data_In(m, b, w)] :
             b \in 0..(EF_MAX_BANKS - 1), w \in {"lo", "hi"}}
  <2> DEFINE one(b, w) == [bank |-> b, window |-> w, data |-> SubSeq(flash, From(b, w), Upto(b, w))]
             other(b, w) == [bank |-> b, window |-> w, data |-> Data_In(m, b, w)]
  <2>1. \A b \in 0..(EF_MAX_BANKS - 1), w \in {"lo", "hi"} : one(b, w) = other(b, w)
    BY <1>1
  <2> HIDE DEF one, other
  <2>2. {one(b, w) : b \in 0..(EF_MAX_BANKS - 1), w \in {"lo", "hi"}}
          = {other(b, w) : b \in 0..(EF_MAX_BANKS - 1), w \in {"lo", "hi"}}
    BY <2>1
  <2> QED BY <2>2 DEF one, other
<1>4. cartconv(flash) =
           {p \in {[bank |-> b, window |-> w, data |-> Data_In(m, b, w)] :
                     b \in 0..(EF_MAX_BANKS - 1), w \in {"lo", "hi"}} :
              p.data # Blank(BANK_WINDOW)}
  BY <1>2, <1>3
<1> QED BY <1>4 DEF flash

LEMMA ChipForm ==
  ASSUME NEW m, Flashed(m), NEW b \in 0..(EF_MAX_BANKS - 1), NEW w \in {"lo", "hi"}
  PROVE  chip(cartconv(build_easyflash(m)), b, w) =
           IF Data_In(m, b, w) = Blank(BANK_WINDOW) THEN {}
           ELSE {[bank |-> b, window |-> w, data |-> Data_In(m, b, w)]}
<1> DEFINE c == cartconv(build_easyflash(m))
<1>1. c = {p \in {[bank |-> f, window |-> v, data |-> Data_In(m, f, v)] :
                    f \in 0..(EF_MAX_BANKS - 1), v \in {"lo", "hi"}} :
             p.data # Blank(BANK_WINDOW)}
  BY PacketsForm
<1> HIDE DEF c
<1> DEFINE mine == [bank |-> b, window |-> w, data |-> Data_In(m, b, w)]
<1>2. ASSUME NEW p, p \in chip(c, b, w) PROVE p = mine /\ Data_In(m, b, w) # Blank(BANK_WINDOW)
  <2>1. p \in c /\ p.bank = b /\ p.window = w
    BY <1>2 DEF chip
  <2>2. p.data # Blank(BANK_WINDOW)
        /\ \E f \in 0..(EF_MAX_BANKS - 1), v \in {"lo", "hi"} :
             p = [bank |-> f, window |-> v, data |-> Data_In(m, f, v)]
    BY <2>1, <1>1
  <2>3. PICK f \in 0..(EF_MAX_BANKS - 1), v \in {"lo", "hi"} :
             p = [bank |-> f, window |-> v, data |-> Data_In(m, f, v)]
    BY <2>2
  <2>4. f = b /\ v = w
    BY <2>1, <2>3
  <2> QED BY <2>2, <2>3, <2>4
<1>3. Data_In(m, b, w) # Blank(BANK_WINDOW) => mine \in chip(c, b, w)
  BY <1>1 DEF chip
<1>4. chip(c, b, w) = IF Data_In(m, b, w) = Blank(BANK_WINDOW) THEN {} ELSE {mine}
  <2> HIDE DEF mine
  <2> QED BY <1>2, <1>3
<1> QED BY <1>4 DEF c

-----------------------------------------------------------------------------
(* What a window reports as used.                                            *)

LEMMA Smallest ==
  ASSUME NEW T, T \subseteq Nat, T # {}
  PROVE  \E n \in T : \A z \in T : n <= z
<1>1. PICK n \in T : \A z \in T : ~(<<z, n>> \in OpToRel(<, Nat))
  BY WFMin, NatLessThanWellFounded
<1>2. \A z \in T : ~(z < n)
  BY <1>1 DEF OpToRel
<1> QED BY <1>2

LEMMA Largest ==
  ASSUME NEW n \in Nat, NEW T, T \subseteq 1..n, T # {}
  PROVE  \E i \in T : \A j \in T : j <= i
<1> DEFINE D == {d \in 0..n : n - d \in T}
<1>1. PICK i \in T : TRUE
  OBVIOUS
<1>2. n - i \in D
  BY <1>1
<1>3. PICK d \in D : \A z \in D : d <= z
  <2>1. D \subseteq Nat
    OBVIOUS
  <2> HIDE DEF D
  <2>2. D # {}
    BY <1>2
  <2> QED BY <2>1, <2>2, Smallest
<1>4. n - d \in T
  BY <1>3
<1>5. ASSUME NEW j \in T PROVE j <= n - d
  <2>1. n - j \in D /\ j \in Nat
    BY <1>5
  <2> QED BY <2>1, <1>3
<1> QED BY <1>4, <1>5

\* The bytes that are not fill.
Used(f) == {i \in DOMAIN f : f[i] # FF}

LEMMA StrippedIs ==
  ASSUME NEW n \in Nat, NEW f, DOMAIN f = 1..n
  PROVE  /\ Stripped(f) \in 0..n
         /\ \A i \in 1..n : f[i] # FF => i <= Stripped(f)
         /\ Stripped(f) > 0 => f[Stripped(f)] # FF
<1>1. CASE Used(f) = {}
  BY <1>1 DEF Used, Stripped
<1>2. CASE Used(f) # {}
  <2>1. PICK i \in Used(f) : \A j \in Used(f) : j <= i
    BY <1>2, Largest DEF Used
  <2>2. Stripped(f) = CHOOSE l \in Used(f) : \A j \in Used(f) : j <= l
    BY <1>2 DEF Used, Stripped
  <2>3. Stripped(f) \in Used(f) /\ \A j \in Used(f) : j <= Stripped(f)
    BY <2>1, <2>2
  <2> QED BY <2>3 DEF Used
<1> QED BY <1>1, <1>2

\* The bytes of f up to s, and r bytes from k on, are no more than s + r.
LEMMA CountedIn ==
  ASSUME NEW s \in Nat, NEW r \in Nat, NEW z \in Nat, NEW A,
         A \subseteq (1..s) \cup ((z + 1)..(z + r))
  PROVE  Cardinality(A) <= s + r
<1>1. IsFiniteSet(1..s) /\ Cardinality(1..s) = s
  BY FS_Interval
<1>2. IsFiniteSet((z + 1)..(z + r)) /\ Cardinality((z + 1)..(z + r)) = r
  BY FS_Interval
<1> DEFINE L == 1..s
           H == (z + 1)..(z + r)
<1> HIDE DEF L, H
<1>3. IsFiniteSet(L) /\ IsFiniteSet(H) /\ Cardinality(L) = s /\ Cardinality(H) = r /\ A \subseteq L \cup H
  BY <1>1, <1>2 DEF L, H
<1>4. IsFiniteSet(L \cup H) /\ Cardinality(L \cup H) = s + r - Cardinality(L \cap H)
  BY <1>3, FS_Union
<1>5. IsFiniteSet(L \cap H)
  BY <1>3, FS_Subset
<1>6. Cardinality(L \cap H) \in Nat
  BY <1>5, FS_CardinalityType
<1>7. IsFiniteSet(A) /\ Cardinality(A) <= Cardinality(L \cup H)
  BY <1>3, <1>4, FS_Subset
<1>8. Cardinality(A) \in Nat
  BY <1>7, FS_CardinalityType
<1> QED BY <1>4, <1>6, <1>7, <1>8

\* What is cut off a sequence at its end.
LEMMA PartIs ==
  ASSUME NEW n \in Nat, NEW f, f = [i \in 1..n |-> f[i]], NEW a \in 1..(n + 1), NEW b \in (a - 1)..n
  PROVE  /\ SubSeq(f, a, b) = [i \in 1..(b - a + 1) |-> f[a + i - 1]]
         /\ Len(SubSeq(f, a, b)) = b - a + 1
<1> DEFINE C == {f[i] : i \in 1..n}
           part == SubSeq(f, a, b)
<1>1. f \in Seq(C) /\ Len(f) = n
  BY AsSequence
<1> HIDE DEF C
<1>2. /\ part \in Seq(C) /\ Len(part) = b - a + 1
      /\ \A i \in 1..(b - a + 1) : part[i] = f[a + i - 1]
  <2>1. a \in 1..(Len(f) + 1) /\ b \in (a - 1)..Len(f)
    BY <1>1
  <2> QED BY <1>1, <2>1, SubSeqProperties
<1> HIDE DEF part
<1>3. part = [i \in 1..(b - a + 1) |-> part[i]]
  BY <1>2, AsFunction
<1>4. part = [i \in 1..(b - a + 1) |-> f[a + i - 1]]
  BY <1>2, <1>3
<1> QED BY <1>2, <1>4 DEF part

LEMMA UsedBytes ==
  ASSUME NEW n \in Nat, NEW f, f = [i \in 1..n |-> f[i]], NEW r \in 0..n
  PROVE  /\ _used_bytes(f, r) \in r..n
         /\ \A i \in 1..n : f[i] # FF => i <= _used_bytes(f, r) - r \/ i > n - r
         /\ _used_bytes(f, r) > r => f[_used_bytes(f, r) - r] # FF
<1> DEFINE part == SubSeq(f, 1, n - r)
<1>1. Len(f) = n
  BY AsSequence
<1>2. part = [i \in 1..(n - r) |-> f[i]]
  <2>1. 1 \in 1..(n + 1) /\ n - r \in (1 - 1)..n
    OBVIOUS
  <2>2. part = [i \in 1..(n - r - 1 + 1) |-> f[1 + i - 1]]
    BY <2>1, PartIs
  <2>3. n - r - 1 + 1 = n - r /\ \A i \in 1..(n - r) : 1 + i - 1 = i
    OBVIOUS
  <2> QED BY <2>2, <2>3
<1>3. _used_bytes(f, r) = Stripped(part) + r
  BY <1>1 DEF _used_bytes
<1> HIDE DEF part
<1>4. n - r \in Nat /\ DOMAIN part = 1..(n - r) /\ \A i \in 1..(n - r) : part[i] = f[i]
  BY <1>2
<1>5. /\ Stripped(part) \in 0..(n - r)
      /\ \A i \in 1..(n - r) : part[i] # FF => i <= Stripped(part)
      /\ Stripped(part) > 0 => part[Stripped(part)] # FF
  BY <1>4, StrippedIs
<1> DEFINE u == _used_bytes(f, r)
           t == Stripped(part)
<1>6. u = t + r
  BY <1>3
<1> HIDE DEF u
<1>7. t \in 0..(n - r) /\ (\A i \in 1..(n - r) : f[i] # FF => i <= t) /\ (t > 0 => f[t] # FF)
  <2>1. t \in 0..(n - r) /\ (\A i \in 1..(n - r) : part[i] # FF => i <= t) /\ (t > 0 => part[t] # FF)
    BY <1>5
  <2> HIDE DEF t
  <2>2. t > 0 => t \in 1..(n - r)
    BY <2>1
  <2> QED BY <2>1, <2>2, <1>4
<1> HIDE DEF t
<1>8. u \in r..n /\ u - r = t
  BY <1>6, <1>7
<1>9. \A i \in 1..n : f[i] # FF => i <= u - r \/ i > n - r
  <2> SUFFICES ASSUME NEW i \in 1..n, f[i] # FF PROVE i <= u - r \/ i > n - r
    OBVIOUS
  <2>1. i <= n - r => i \in 1..(n - r)
    OBVIOUS
  <2> QED BY <2>1, <1>7, <1>8
<1>10. u > r => f[u - r] # FF
  BY <1>6, <1>7, <1>8
<1> QED BY <1>8, <1>9, <1>10 DEF u

LEMMA WindowUsed ==
  ASSUME NEW e \in BankEntries, Fits(e)
  PROVE  /\ _ef_window_used(e) >= Cardinality({i \in DOMAIN Bytes(e) : Bytes(e)[i] # FF})
         /\ ~boot(e) /\ e.window = "hi" => Len(Bytes(e)) - _ef_window_used(e) = FillOf(Bytes(e))
<1> DEFINE f == Bytes(e)
           n == Len(f)
           body == BANK_WINDOW - JT_SIZE
           A == {i \in DOMAIN f : f[i] # FF}
<1>1. n \in 0..BANK_WINDOW /\ n \in Nat /\ DOMAIN f = 1..n /\ f = [i \in 1..n |-> f[i]]
  BY BytesForm, WindowForm, WindowSize
<1>2. JT_SIZE \in 1..BANK_WINDOW /\ VECTORS_SIZE \in 1..BANK_WINDOW /\ body \in 0..BANK_WINDOW /\ BANK_WINDOW \in Nat
  BY WindowAssumption
<1> HIDE DEF f, n
<1>3. CASE boot(e) /\ n = BANK_WINDOW
  <2> DEFINE u == _used_bytes(f, VECTORS_SIZE)
  <2>1. _ef_window_used(e) = u
    BY <1>3 DEF _ef_window_used, f, n
  <2>2. u \in VECTORS_SIZE..n
        /\ \A i \in 1..n : f[i] # FF => i <= u - VECTORS_SIZE \/ i > n - VECTORS_SIZE
    <3>1. VECTORS_SIZE \in 0..n
      BY <1>2, <1>3
    <3> QED BY <3>1, <1>1, UsedBytes
  <2> DEFINE s == u - VECTORS_SIZE
             z == n - VECTORS_SIZE
  <2> HIDE DEF u
  <2>3. s \in Nat /\ z \in Nat /\ VECTORS_SIZE \in Nat /\ A \subseteq (1..s) \cup ((z + 1)..(z + VECTORS_SIZE))
    BY <1>1, <1>2, <1>3, <2>2
  <2>4. u = s + VECTORS_SIZE
    BY <2>2, <1>2
  <2> HIDE DEF s, z, A
  <2>5. Cardinality(A) <= s + VECTORS_SIZE
    BY <2>3, CountedIn
  <2> QED BY <2>1, <2>4, <2>5, <2>3, <1>3 DEF A, f
<1>4. CASE ~(boot(e) /\ n = BANK_WINDOW) /\ e.window = "lo" /\ n > body
  <2> DEFINE low == SubSeq(f, 1, body)
             high == SubSeq(f, body + 1, n)
             s == _used_bytes(low, 0)
             r == _used_bytes(high, 0)
  <2>1. _ef_window_used(e) = s + r
    BY <1>4 DEF _ef_window_used, f, n
  <2>2. low = [i \in 1..body |-> f[i]]
    <3>1. low = [i \in 1..(body - 1 + 1) |-> f[1 + i - 1]]
      BY <1>1, <1>2, <1>4, PartIs
    <3>2. body - 1 + 1 = body /\ \A i \in 1..body : 1 + i - 1 = i
      BY <1>2
    <3> QED BY <3>1, <3>2
  <2>3. high = [i \in 1..(n - body) |-> f[body + i]]
    <3> DEFINE a == body + 1
    <3>0. a \in 1..(n + 1) /\ n \in (a - 1)..n
      BY <1>1, <1>2, <1>4
    <3>1. high = [i \in 1..(n - (body + 1) + 1) |-> f[(body + 1) + i - 1]]
      <4> HIDE DEF a
      <4>1. SubSeq(f, a, n) = [i \in 1..(n - a + 1) |-> f[a + i - 1]]
        BY <3>0, <1>1, PartIs
      <4> QED BY <4>1 DEF a
    <3>2. n - (body + 1) + 1 = n - body /\ \A i \in 1..(n - body) : (body + 1) + i - 1 = body + i
      BY <1>1, <1>2
    <3> QED BY <3>1, <3>2
  <2> HIDE DEF low, high
  <2>4. s \in 0..body /\ \A i \in 1..body : low[i] # FF => i <= s - 0 \/ i > body - 0
    <3>1. low = [i \in 1..body |-> low[i]] /\ body \in Nat /\ 0 \in 0..body
      BY <1>2, <2>2
    <3> HIDE DEF body
    <3> QED BY <3>1, UsedBytes
  <2>5. r \in 0..(n - body)
        /\ \A i \in 1..(n - body) : high[i] # FF => i <= r - 0 \/ i > (n - body) - 0
    <3> DEFINE d == n - body
    <3>1. high = [i \in 1..d |-> high[i]] /\ d \in Nat /\ 0 \in 0..d
      BY <1>1, <1>2, <1>4, <2>3
    <3> HIDE DEF d
    <3>2. r \in 0..d /\ \A i \in 1..d : high[i] # FF => i <= r - 0 \/ i > d - 0
      BY <3>1, UsedBytes
    <3> QED BY <3>2 DEF d
  <2> HIDE DEF s, r
  <2>6. s \in Nat /\ r \in Nat /\ body \in Nat
    BY <2>4, <2>5, <1>1, <1>2
  <2>7. A \subseteq (1..s) \cup ((body + 1)..(body + r))
    <3>1. SUFFICES ASSUME NEW i \in 1..n, f[i] # FF PROVE i \in 1..s \/ i \in (body + 1)..(body + r)
      BY <1>1
    <3>2. CASE i <= body
      <4>1. low[i] # FF /\ i \in 1..body
        BY <3>1, <3>2, <2>2, <1>2
      <4> QED BY <4>1, <2>4, <2>6
    <3>3. CASE i > body
      <4> HIDE DEF body
      <4>1. i - body \in 1..(n - body) /\ body + (i - body) = i
        BY <3>1, <3>3, <1>1, <1>2, <2>6
      <4>2. high[i - body] # FF
        BY <4>1, <2>3, <3>1
      <4>3. i - body <= r
        BY <4>1, <4>2, <2>5, <2>6, <1>1
      <4> QED BY <4>1, <4>3, <2>6, <3>1
    <3> QED BY <3>2, <3>3, <1>2
  <2>8. Cardinality(A) <= s + r
    <3> HIDE DEF A, body
    <3> QED BY <2>6, <2>7, CountedIn
  <2>9. e.window # "hi"
    BY <1>4
  <2> QED BY <2>1, <2>8, <2>9, <2>6 DEF A, f
<1>5. CASE ~(boot(e) /\ n = BANK_WINDOW) /\ ~(e.window = "lo" /\ n > body)
  <2> DEFINE s == _used_bytes(f, 0)
  <2>1. _ef_window_used(e) = s
    BY <1>5 DEF _ef_window_used, f, n
  <2>2. /\ s \in 0..n
        /\ \A i \in 1..n : f[i] # FF => i <= s - 0 \/ i > n - 0
        /\ s > 0 => f[s - 0] # FF
    <3>1. 0 \in 0..n
      BY <1>1
    <3> HIDE DEF s
    <3> QED BY <1>1, <3>1, UsedBytes DEF s
  <2> HIDE DEF s
  <2>3. s \in 0..n /\ (\A i \in 1..n : f[i] # FF => i <= s) /\ (s > 0 => f[s] # FF)
    BY <2>2, <1>1
  <2>4. Cardinality(A) <= s + 0
    <3>1. s \in Nat /\ 0 \in Nat /\ A \subseteq (1..s) \cup ((0 + 1)..(0 + 0))
      BY <2>3, <1>1
    <3> HIDE DEF A
    <3> QED BY <3>1, CountedIn
  <2>5. FillOf(f) = n - s
    <3> DEFINE B == {i \in DOMAIN f : \A j \in i..Len(f) : f[j] = FF}
    <3>1. B = (s + 1)..n
      <4>1. ASSUME NEW i \in B PROVE i \in (s + 1)..n
        <5>1. i \in 1..n /\ \A j \in i..n : f[j] = FF
          BY <4>1, <1>1 DEF n
        <5> QED BY <5>1, <2>3, <1>1
      <4>2. ASSUME NEW i \in (s + 1)..n PROVE i \in B
        <5>1. i \in 1..n /\ \A j \in i..n : j \in 1..n /\ ~(j <= s)
          BY <2>3, <1>1
        <5>2. \A j \in i..n : f[j] = FF
          BY <5>1, <2>3
        <5> QED BY <5>1, <5>2, <1>1 DEF n
      <4> QED BY <4>1, <4>2
    <3>2. Cardinality((s + 1)..n) = IF s + 1 > n THEN 0 ELSE n - (s + 1) + 1
      <4>1. s + 1 \in Int /\ n \in Int
        BY <2>3, <1>1
      <4> QED BY <4>1, FS_Interval
    <3>3. Cardinality((s + 1)..n) = n - s
      BY <3>2, <2>3, <1>1
    <3> QED BY <3>1, <3>3 DEF FillOf
  <2>6. n - s = Len(Bytes(e)) - _ef_window_used(e)
    BY <2>1 DEF n, f
  <2>7. Cardinality(A) <= _ef_window_used(e)
    BY <2>1, <2>3, <2>4, <1>1
  <2> QED BY <2>5, <2>6, <2>7 DEF A, f
<1> QED BY <1>3, <1>4, <1>5

\* The pre-flight check and the vector.
LEMMA Verified ==
  ASSUME NEW m, Flashed(m)
  PROVE  LET made == cartconv(build_easyflash(m))
         IN  cart_verify(made) = {} <=>
               \E e \in Banked(m) : boot(e) /\ Bytes(e)[BANK_WINDOW] # FF /\ ~e.strays
<1> DEFINE made == cartconv(build_easyflash(m))
<1>1. PICK n \in DOMAIN m : m[n].bank = 0 /\ m[n].window = "hi"
  BY DEF Flashed, load_manifest
<1> DEFINE e == m[n]
           data == Data_In(m, 0, "hi")
<1>2. e \in BankEntries /\ Fits(e) /\ e \in Banked(m) /\ boot(e) /\ 0 \in 0..(EF_MAX_BANKS - 1)
  BY <1>1, FlashedEntries DEF boot
<1>3. \A d \in Banked(m) : boot(d) => d = e
  <2>1. \A z \in DOMAIN m : m[z].bank = 0 /\ m[z].window = "hi" => z = n
    BY <1>1, FlashedEntries
  <2> QED BY <2>1 DEF Banked, boot
<1>4. data = Window(e)
  BY <1>1, <1>2, WindowData
<1>5. data[BANK_WINDOW] = Bytes(e)[BANK_WINDOW]
  <2>1. Len(Bytes(e)) = BANK_WINDOW
    BY <1>2 DEF Fits
  <2>2. Window(e) = [i \in 1..BANK_WINDOW |-> IF i <= Len(Bytes(e)) THEN Bytes(e)[i] ELSE FF]
    BY <1>2, WindowForm
  <2>3. BANK_WINDOW \in 1..BANK_WINDOW /\ BANK_WINDOW <= Len(Bytes(e))
    BY <2>1, WindowSize
  <2> HIDE DEF e
  <2> QED BY <2>2, <2>3, <1>4
<1>6. chip(made, 0, "hi") = IF data = Blank(BANK_WINDOW) THEN {}
                            ELSE {[bank |-> 0, window |-> "hi", data |-> data]}
  BY <1>2, ChipForm
<1>7. BANK_WINDOW \in 1..BANK_WINDOW
  BY WindowSize
<1>10. Bytes(e)[BANK_WINDOW] # FF => Bytes(e)[BANK_WINDOW].tag[3] = e.strays
  <2> SUFFICES ASSUME Bytes(e)[BANK_WINDOW] # FF
               PROVE  Bytes(e)[BANK_WINDOW].tag[3] = e.strays
    OBVIOUS
  <2>1. Len(Bytes(e)) = BANK_WINDOW
    BY <1>2 DEF Fits
  <2> HIDE DEF e
  <2>2. Bytes(e)[BANK_WINDOW] = Data(Tag(e), BANK_WINDOW)
    <3>1. CASE e.linked
      BY <3>1, <1>7 DEF Bytes
    <3>2. CASE ~e.linked
      <4>1. e.size = BANK_WINDOW
        BY <3>2, <2>1, <1>2 DEF Bytes, BankEntries
      <4>2. Bytes(e)[BANK_WINDOW] = IF e.tail THEN FF ELSE Data(Tag(e), BANK_WINDOW)
        BY <3>2, <4>1, <1>7 DEF Bytes
      <4>3. QED
        BY <4>2
    <3>3. QED
      BY <3>1, <3>2
  <2>3. QED
    BY <2>2 DEF Data, Tag
<1> HIDE DEF made, data, e
<1>8. CASE data = Blank(BANK_WINDOW)
  <2>1. Bytes(e)[BANK_WINDOW] = FF
    BY <1>5, <1>7, <1>8 DEF Blank
  <2>2. "no boot window" \in cart_verify(made)
    BY <1>6, <1>8 DEF cart_verify
  <2> QED BY <2>1, <2>2, <1>3 DEF made
<1>9. CASE data # Blank(BANK_WINDOW)
  <2> DEFINE c == [bank |-> 0, window |-> "hi", data |-> data]
  <2>1. chip(made, 0, "hi") = {c} /\ c.data = data
    BY <1>6, <1>9
  <2> HIDE DEF c
  <2>2. UnfilledVector(c) <=> Bytes(e)[BANK_WINDOW] = FF
    BY <2>1, <1>5 DEF UnfilledVector
  <2>3. ~UnfilledVector(c) => (StrayVector(c) <=> e.strays)
    BY <2>1, <2>2, <1>5, <1>10 DEF StrayVector
  <2>4. cart_verify(made) = {} <=> ~UnfilledVector(c) /\ ~StrayVector(c)
    BY <2>1 DEF cart_verify
  <2> QED BY <2>2, <2>3, <2>4, <1>2, <1>3 DEF made
<1> QED BY <1>8, <1>9

LEMMA BanksLandFollows ==
  ASSUME ImagesInv PROVE BanksLand
<1> SUFFICES ASSUME phase = "flashed" PROVE BanksLand
  BY DEF BanksLand
<1> DEFINE m == build.spec
<1>1. Flashed(m) /\ crt = cartconv(build_easyflash(m))
  BY DEF ImagesInv, ImagesTyped, Decided, Flashed, crt
<1> HIDE DEF m
<1>2. ASSUME NEW e \in Banked(m)
      PROVE  /\ e \in BankEntries /\ Fits(e)
             /\ LET found == chip(crt, e.bank, e.window)
                IN  IF Window(e) = Blank(BANK_WINDOW) THEN found = {}
                    ELSE \E c \in found : found = {c} /\ c.data = Window(e)
  <2>1. PICK n \in DOMAIN m : e = m[n]
    BY DEF Banked
  <2>2. e \in BankEntries /\ Fits(e) /\ e.bank \in 0..(EF_MAX_BANKS - 1) /\ e.window \in {"lo", "hi"}
    BY <1>1, <2>1, FlashedEntries
  <2>3. Data_In(m, e.bank, e.window) = Window(e)
    BY <1>1, <2>1, <2>2, WindowData
  <2>4. chip(crt, e.bank, e.window) =
          IF Window(e) = Blank(BANK_WINDOW) THEN {}
          ELSE {[bank |-> e.bank, window |-> e.window, data |-> Window(e)]}
    <3>1. chip(cartconv(build_easyflash(m)), e.bank, e.window) =
            IF Data_In(m, e.bank, e.window) = Blank(BANK_WINDOW) THEN {}
            ELSE {[bank |-> e.bank, window |-> e.window, data |-> Data_In(m, e.bank, e.window)]}
      <4> DEFINE b == e.bank
                 w == e.window
      <4>1. b \in 0..(EF_MAX_BANKS - 1) /\ w \in {"lo", "hi"}
        BY <2>2
      <4> HIDE DEF b, w
      <4>2. chip(cartconv(build_easyflash(m)), b, w) =
              IF Data_In(m, b, w) = Blank(BANK_WINDOW) THEN {}
              ELSE {[bank |-> b, window |-> w, data |-> Data_In(m, b, w)]}
        BY <1>1, <4>1, ChipForm
      <4> QED BY <4>2 DEF b, w
    <3> QED BY <1>1, <2>3, <3>1, Zenon
  <2> DEFINE c == [bank |-> e.bank, window |-> e.window, data |-> Window(e)]
  <2>5. c.data = Window(e)
    OBVIOUS
  <2> HIDE DEF c
  <2>6. Window(e) # Blank(BANK_WINDOW) => chip(crt, e.bank, e.window) = {c}
    BY <2>4 DEF c
  <2> QED BY <2>2, <2>4, <2>5, <2>6
<1>3. ASSUME NEW c \in crt
      PROVE  \E e \in Banked(m) : c.bank = e.bank /\ c.window = e.window
  <2>1. c.data # Blank(BANK_WINDOW)
        /\ \E b \in 0..(EF_MAX_BANKS - 1), w \in {"lo", "hi"} :
             c = [bank |-> b, window |-> w, data |-> Data_In(m, b, w)]
    BY <1>1, PacketsForm
  <2>2. PICK b \in 0..(EF_MAX_BANKS - 1), w \in {"lo", "hi"} :
             c = [bank |-> b, window |-> w, data |-> Data_In(m, b, w)]
    BY <2>1
  <2>3. PICK n \in DOMAIN m : m[n].bank = b /\ m[n].window = w
    BY <1>1, <2>1, <2>2, WindowData
  <2>4. m[n] \in Banked(m)
    BY DEF Banked
  <2> QED BY <2>2, <2>3, <2>4
<1>4. cart_verify(crt) = {} <=>
        \E e \in Banked(m) : boot(e) /\ Bytes(e)[BANK_WINDOW] # FF /\ ~e.strays
  BY <1>1, Verified
<1>5. ASSUME NEW e \in Banked(m)
      PROVE  /\ _ef_window_used(e) >= Cardinality({i \in DOMAIN Bytes(e) : Bytes(e)[i] # FF})
             /\ ~boot(e) /\ e.window = "hi" =>
                  Len(Bytes(e)) - _ef_window_used(e) = FillOf(Bytes(e))
  BY <1>2, WindowUsed
<1> QED BY <1>2, <1>3, <1>4, <1>5 DEF BanksLand, m

\* Each file of a manifest that build_easyflash accepts reads back from its own
\* window, and cart_verify and _ef_window_used tell of it what is so.
THEOREM BanksLandHolds == ImagesSpec => []BanksLand
BY ImagesInvariance, BanksLandFollows, PTL

-----------------------------------------------------------------------------
(* Areas: their order.                                                       *)

\* Induction over the numbers a..n, for a set of those that are fine.
LEMMA UpTo ==
  ASSUME NEW a \in Nat, NEW n \in Nat, NEW G, a <= n => a \in G,
         \A z \in a..(n - 1) : z \in G => z + 1 \in G
  PROVE  \A z \in a..n : z \in G
<1> DEFINE B == {z \in a..n : z \notin G}
<1>1. SUFFICES ASSUME B # {} PROVE FALSE
  OBVIOUS
<1>2. B \subseteq Nat
  OBVIOUS
<1>3. PICK z \in B : \A j \in B : z <= j
  <2> HIDE DEF B
  <2> QED BY <1>1, <1>2, Smallest
<1>4. z # a
  BY <1>3
<1>5. z - 1 \in a..(n - 1) /\ z - 1 \notin B /\ (z - 1) + 1 = z
  BY <1>3, <1>4
<1>6. z - 1 \in G
  BY <1>5
<1>7. z \in G
  BY <1>5, <1>6
<1> QED BY <1>3, <1>7


AreaSet == [name : [word : STRING, letters : STRING], start : Int, size : Int]

\* p puts the first k areas in their order.
Orders(values, z, p) ==
  /\ p \in [1..z -> 1..z]
  /\ \A i, j \in 1..z : p[i] = p[j] => i = j
  /\ \A t \in 1..z : \E i \in 1..z : p[i] = t
  /\ \A i, j \in 1..z : i < j => Ahead(values, p[i], p[j])

\* One area more goes to its place, those behind it a place on.
LEMMA OneMore ==
  ASSUME NEW values \in Seq(AreaSet), NEW z \in Nat, z + 1 <= Len(values),
         NEW p, Orders(values, z, p)
  PROVE  \E r : Orders(values, z + 1, r)
<1> DEFINE v == z + 1
           T == {t \in 1..v : t = v \/ Ahead(values, v, p[t])}
<1>1. \A i \in 1..v : values[i].start \in Int
  <2>1. \A i \in 1..v : values[i] \in AreaSet
    OBVIOUS
  <2> QED BY <2>1 DEF AreaSet
<1>2. PICK s \in T : \A t \in T : s <= t
  <2>1. T \subseteq Nat /\ v \in T
    OBVIOUS
  <2> HIDE DEF T
  <2> QED BY <2>1, Smallest
<1>3. p \in [1..z -> 1..z] /\ s \in 1..v /\ (s = v \/ Ahead(values, v, p[s]))
  BY <1>2 DEF Orders
<1>4. \A i \in 1..z : p[i] \in 1..z
  BY <1>3
<1>5. ASSUME NEW i \in 1..z, i < s PROVE Ahead(values, p[i], v)
  <2>1. i \in 1..v /\ i # v /\ ~(i \in T)
    BY <1>2, <1>5
  <2>2. ~Ahead(values, v, p[i])
    BY <2>1
  <2> QED BY <2>2, <1>1, <1>4 DEF Ahead
<1>6. ASSUME NEW i \in 1..z, s <= i PROVE Ahead(values, v, p[i])
  <2>1. s \in 1..z /\ Ahead(values, v, p[s])
    BY <1>3, <1>6
  <2>2. CASE s = i
    BY <2>1, <2>2
  <2>3. CASE s < i
    <3>1. Ahead(values, p[s], p[i])
      BY <2>1, <2>3 DEF Orders
    <3>2. p[s] \in 1..z /\ p[i] \in 1..z
      BY <2>1, <1>4
    <3>3. /\ values[v].start \in Int /\ values[p[s]].start \in Int /\ values[p[i]].start \in Int
          /\ v \in Int /\ p[s] \in Int /\ p[i] \in Int
      BY <3>2, <1>1
    <3> QED BY <2>1, <3>1, <3>3 DEF Ahead
  <2> QED BY <2>2, <2>3, <1>3, <1>6
<1> DEFINE r == [i \in 1..v |-> IF i < s THEN p[i] ELSE IF i = s THEN v ELSE p[i - 1]]
<1>7. /\ \A i \in 1..v : i < s => i \in 1..z /\ r[i] = p[i]
      /\ r[s] = v
      /\ \A i \in 1..v : i > s => i - 1 \in 1..z /\ s <= i - 1 /\ r[i] = p[i - 1]
  BY <1>3
<1>8. r \in [1..v -> 1..v]
  <2>1. \A i \in 1..v : r[i] \in 1..v
    BY <1>3, <1>4, <1>7
  <2> QED BY <2>1
<1> HIDE DEF r, T
<1>9. ASSUME NEW i \in 1..v, NEW j \in 1..v, i < j PROVE Ahead(values, r[i], r[j])
  <2>1. CASE j < s
    BY <2>1, <1>7, <1>9, <1>3 DEF Orders
  <2>2. CASE j = s
    BY <2>2, <1>7, <1>9, <1>5
  <2>3. CASE j > s /\ i < s
    <3>1. i \in 1..z /\ j - 1 \in 1..z /\ i < j - 1 /\ r[i] = p[i] /\ r[j] = p[j - 1]
      BY <2>3, <1>7, <1>3
    <3> QED BY <3>1 DEF Orders
  <2>4. CASE j > s /\ i = s
    BY <2>4, <1>7, <1>6
  <2>5. CASE j > s /\ i > s
    <3>1. i - 1 \in 1..z /\ j - 1 \in 1..z /\ i - 1 < j - 1 /\ r[i] = p[i - 1] /\ r[j] = p[j - 1]
      BY <2>5, <1>7, <1>9
    <3> QED BY <3>1 DEF Orders
  <2> QED BY <2>1, <2>2, <2>3, <2>4, <2>5, <1>3
<1>10. \A i \in 1..v : ~Ahead(values, i, i)
  BY <1>1 DEF Ahead
<1>11. ASSUME NEW i \in 1..v, NEW j \in 1..v, r[i] = r[j] PROVE i = j
  <2>1. ~(i < j)
    BY <1>8, <1>9, <1>10, <1>11
  <2>2. ~(j < i)
    BY <1>8, <1>9, <1>10, <1>11
  <2> QED BY <2>1, <2>2
<1>12. ASSUME NEW t \in 1..v PROVE \E i \in 1..v : r[i] = t
  <2>1. CASE t = v
    BY <2>1, <1>3, <1>7
  <2>2. CASE t \in 1..z
    <3>1. PICK i \in 1..z : p[i] = t
      BY <2>2 DEF Orders
    <3>2. CASE i < s
      BY <3>1, <3>2, <1>7
    <3>3. CASE i >= s
      <4>1. i + 1 \in 1..v /\ i + 1 > s /\ (i + 1) - 1 = i
        BY <3>3, <1>3
      <4> QED BY <4>1, <3>1, <1>7
    <3> QED BY <3>2, <3>3, <1>3
  <2> QED BY <2>1, <2>2
<1>13. Orders(values, v, r)
  BY <1>8, <1>9, <1>11, <1>12 DEF Orders
<1> QED BY <1>13

\* The order that Sorted chooses exists: one by one the areas find their places.
LEMMA SortedIs ==
  ASSUME NEW values \in Seq(AreaSet)
  PROVE  \E p : /\ Orders(values, Len(values), p)
                /\ Sorted(values) = [i \in 1..Len(values) |-> values[p[i]]]
<1> DEFINE n == Len(values)
           G == {z \in 0..n : \E p : Orders(values, z, p)}
           Right(p) == \A i, j \in DOMAIN values : i < j => Ahead(values, p[i], p[j])
<1>1. 0 \in G
  <2>1. Orders(values, 0, <<>>)
    BY DEF Orders
  <2> QED BY <2>1
<1>2. ASSUME NEW z \in 0..(n - 1), z \in G PROVE z + 1 \in G
  <2>1. PICK p : Orders(values, z, p)
    BY <1>2
  <2> QED BY <2>1, OneMore
<1>3. n \in G
  <2>1. n \in Nat
    OBVIOUS
  <2> HIDE DEF G, n
  <2>2. 0 \in Nat /\ \A z \in 0..(n - 1) : z \in G => z + 1 \in G
    BY <1>2
  <2>3. \A z \in 0..n : z \in G
    BY <1>1, <2>1, <2>2, UpTo
  <2> QED BY <2>1, <2>3
<1>4. PICK r : Orders(values, n, r)
  BY <1>3
<1>5. DOMAIN values = 1..n
  OBVIOUS
<1>6. r \in Bijection(DOMAIN values, DOMAIN values) /\ Right(r)
  <2>1. Right(r)
    BY <1>4, <1>5 DEF Orders
  <2>2. r \in Injection(DOMAIN values, DOMAIN values)
    BY <1>4, <1>5 DEF Orders, Injection, IsInjective
  <2>3. r \in Surjection(DOMAIN values, DOMAIN values)
    BY <1>4, <1>5 DEF Orders, Surjection
  <2> QED BY <2>1, <2>2, <2>3 DEF Bijection
<1> DEFINE order == CHOOSE p \in Bijection(DOMAIN values, DOMAIN values) : Right(p)
<1>7. order \in Bijection(DOMAIN values, DOMAIN values) /\ Right(order)
  <2> HIDE DEF Right
  <2> QED BY <1>6
<1>8. Sorted(values) = [i \in DOMAIN values |-> values[order[i]]]
  BY DEF Sorted
<1> HIDE DEF order
<1>9. Orders(values, n, order)
  <2>1. \A i, j \in 1..n : i < j => Ahead(values, order[i], order[j])
    BY <1>5, <1>7
  <2>2. order \in [1..n -> 1..n] /\ \A i, j \in 1..n : order[i] = order[j] => i = j
    BY <1>5, <1>7 DEF Bijection, Injection, IsInjective
  <2>3. \A t \in 1..n : \E i \in 1..n : order[i] = t
    BY <1>5, <1>7 DEF Bijection, Surjection
  <2> HIDE DEF n
  <2> QED BY <2>1, <2>2, <2>3 DEF Orders
<1> QED BY <1>5, <1>8, <1>9

-----------------------------------------------------------------------------
(* The flat file.                                                            *)

\* g[i] is the first i sequences of q in a row.
Joins(S, q, g) ==
  /\ g \in [1..Len(q) -> Seq(S)]
  /\ \A i \in 1..Len(q) : g[i] = IF i = 1 THEN q[i] ELSE g[i - 1] \o q[i]

LEMMA Elements ==
  ASSUME NEW S, NEW q \in Seq(S), NEW i \in 1..Len(q)
  PROVE  q[i] \in S
OBVIOUS

LEMMA AreaTypes ==
  ASSUME NEW areas \in Seq(AreaSet)
  PROVE  \A i \in 1..Len(areas) : areas[i].start \in Int /\ areas[i].size \in Int
<1> SUFFICES ASSUME NEW i \in 1..Len(areas)
             PROVE  areas[i].start \in Int /\ areas[i].size \in Int
  OBVIOUS
<1>1. areas[i] \in AreaSet
  BY Elements
<1> QED BY <1>1 DEF AreaSet

LEMMA JoinsExists ==
  ASSUME NEW S, NEW q \in Seq(Seq(S))
  PROVE  \E g : Joins(S, q, g)
<1> DEFINE n == Len(q)
           Does(g, z) == \A i \in 1..z : g[i] = IF i = 1 THEN q[i] ELSE g[i - 1] \o q[i]
           G == {z \in 0..n : \E g \in [1..n -> Seq(S)] : Does(g, z)}
<1>1. 0 \in G
  <2> DEFINE g == [i \in 1..n |-> <<>>]
  <2>1. g \in [1..n -> Seq(S)] /\ Does(g, 0)
    OBVIOUS
  <2> HIDE DEF g, Does
  <2> QED BY <2>1
<1>2. ASSUME NEW z \in 0..(n - 1), z \in G PROVE z + 1 \in G
  <2>1. PICK g \in [1..n -> Seq(S)] : Does(g, z)
    BY <1>2
  <2> DEFINE next == IF z = 0 THEN q[1] ELSE g[z] \o q[z + 1]
             h == [g EXCEPT ![z + 1] = next]
  <2>2. z + 1 \in 1..n /\ q[z + 1] \in Seq(S) /\ n \in Nat
    <3>1. z + 1 \in 1..n /\ n \in Nat
      OBVIOUS
    <3> QED BY <3>1, Elements
  <2>3. next \in Seq(S)
    <3>1. CASE z = 0
      <4>1. next = q[z + 1]
        BY <3>1
      <4> QED BY <4>1, <2>2
    <3>2. CASE z # 0
      <4>1. z \in 1..n
        BY <3>2
      <4>2. g[z] \in Seq(S)
        BY <4>1
      <4>3. next = g[z] \o q[z + 1]
        BY <3>2
      <4> DEFINE u == q[z + 1]
                 w == g[z]
      <4>4. u \in Seq(S) /\ w \in Seq(S)
        BY <2>2, <4>2
      <4> HIDE DEF u, w
      <4>5. w \o u \in Seq(S)
        BY <4>4
      <4> QED BY <4>3, <4>5 DEF u, w
    <3> QED BY <3>1, <3>2
  <2>4. h \in [1..n -> Seq(S)] /\ h[z + 1] = next /\ \A i \in 1..z : h[i] = g[i]
    <3> HIDE DEF next
    <3> QED BY <2>2, <2>3
  <2> HIDE DEF h
  <2>5. ASSUME NEW i \in 1..(z + 1) PROVE h[i] = IF i = 1 THEN q[i] ELSE h[i - 1] \o q[i]
    <3>1. CASE i \in 1..z
      <4>1. h[i] = g[i] /\ (i # 1 => h[i - 1] = g[i - 1])
        BY <2>4, <3>1
      <4>2. g[i] = IF i = 1 THEN q[i] ELSE g[i - 1] \o q[i]
        BY <2>1, <3>1
      <4> QED BY <4>1, <4>2
    <3>2. CASE i = z + 1
      <4>1. z # 0 => h[z] = g[z]
        BY <2>4
      <4>2. CASE z = 0
        BY <3>2, <4>2, <2>4
      <4>3. CASE z # 0
        <5>1. i # 1 /\ i - 1 = z
          BY <3>2, <4>3
        <5>2. h[i] = g[z] \o q[i]
          <6>1. next = g[z] \o q[z + 1]
            BY <4>3
          <6> HIDE DEF next
          <6> QED BY <6>1, <2>4, <3>2
        <5> QED BY <5>1, <5>2, <4>1, <4>3
      <4> QED BY <4>2, <4>3
    <3> QED BY <3>1, <3>2
  <2>6. Does(h, z + 1)
    BY <2>5
  <2> HIDE DEF Does
  <2> QED BY <2>2, <2>4, <2>6
<1>3. n \in G
  <2>1. n \in Nat
    OBVIOUS
  <2> HIDE DEF G, n
  <2>2. 0 \in Nat /\ \A z \in 0..(n - 1) : z \in G => z + 1 \in G
    BY <1>2
  <2>3. \A z \in 0..n : z \in G
    BY <1>1, <2>1, <2>2, UpTo
  <2> QED BY <2>1, <2>3
<1>4. PICK g \in [1..n -> Seq(S)] : Does(g, n)
  BY <1>3
<1> QED BY <1>4 DEF Joins

\* FlattenSeq is defined by a CHOOSE: one such g is all there is.
LEMMA FlattenJoins ==
  ASSUME NEW S, NEW q \in Seq(Seq(S)), Len(q) # 0
  PROVE  \E g : Joins(S, q, g) /\ FlattenSeq(q) = g[Len(q)]
<1> DEFINE Solves(g) == g = [i \in 1..Len(q) |-> IF i = 1 THEN q[i] ELSE g[i - 1] \o q[i]]
           flatten == CHOOSE g : Solves(g)
<1>1. FlattenSeq(q) = flatten[Len(q)]
  BY DEF FlattenSeq
<1>2. PICK g : Joins(S, q, g)
  BY JoinsExists
<1>3. Solves(g)
  BY <1>2 DEF Joins
<1>4. Solves(flatten)
  <2> HIDE DEF Solves
  <2> QED BY <1>3
<1> HIDE DEF flatten
<1>5. ASSUME NEW i \in 1..Len(q) PROVE flatten[i] = IF i = 1 THEN q[i] ELSE flatten[i - 1] \o q[i]
  BY <1>4
<1> DEFINE G == {z \in 1..Len(q) : flatten[z] \in Seq(S)}
<1>6. \A z \in 1..Len(q) : z \in G
  <2>1. 1 <= Len(q) => 1 \in G
    BY <1>5
  <2>2. ASSUME NEW z \in 1..(Len(q) - 1), z \in G PROVE z + 1 \in G
    <3>1. z + 1 \in 1..Len(q) /\ z + 1 # 1 /\ (z + 1) - 1 = z
      OBVIOUS
    <3>2. flatten[z + 1] = flatten[z] \o q[z + 1]
      BY <3>1, <1>5
    <3>3. flatten[z] \in Seq(S) /\ q[z + 1] \in Seq(S)
      BY <2>2, <3>1, Elements
    <3> DEFINE u == q[z + 1]
               w == flatten[z]
    <3>4. u \in Seq(S) /\ w \in Seq(S)
      BY <3>3
    <3> HIDE DEF u, w
    <3>5. w \o u \in Seq(S)
      BY <3>4
    <3>6. flatten[z + 1] \in Seq(S)
      BY <3>2, <3>5 DEF u, w
    <3> QED BY <3>1, <3>6
  <2> HIDE DEF G
  <2>3. 1 \in Nat /\ Len(q) \in Nat
    OBVIOUS
  <2> QED BY <2>1, <2>2, <2>3, UpTo
<1>7. flatten \in [1..Len(q) -> Seq(S)]
  <2>1. flatten = [i \in 1..Len(q) |-> flatten[i]]
    BY <1>4
  <2> QED BY <2>1, <1>6
<1>8. Joins(S, q, flatten)
  BY <1>5, <1>7 DEF Joins
<1> QED BY <1>1, <1>8

\* Where the j-th sequence begins.
StartOf(g, j) == IF j = 1 THEN 0 ELSE Len(g[j - 1])

\* Every byte of every sequence is there, in its place, and no other.
Each(q, g, z) ==
  \A j \in 1..z : \A b \in 1..Len(q[j]) :
    StartOf(g, j) + b \in 1..Len(g[z]) /\ g[z][StartOf(g, j) + b] = q[j][b]
NothingElse(q, g, z) ==
  \A p \in 1..Len(g[z]) : \E j \in 1..z : \E b \in 1..Len(q[j]) : p = StartOf(g, j) + b

LEMMA JoinedBytes ==
  ASSUME NEW S, NEW q \in Seq(Seq(S)), NEW g, Joins(S, q, g), NEW z \in 1..Len(q)
  PROVE  Each(q, g, z) /\ NothingElse(q, g, z)
<1> DEFINE Here(m) == \A j \in 1..m : \A b \in 1..Len(q[j]) :
                        StartOf(g, j) + b \in 1..Len(g[m]) /\ g[m][StartOf(g, j) + b] = q[j][b]
           Only(m) == \A p \in 1..Len(g[m]) : \E j \in 1..m : \E b \in 1..Len(q[j]) : p = StartOf(g, j) + b
           G == {m \in 1..Len(q) : Here(m) /\ Only(m)}
<1>1. \A m \in 1..Len(q) : g[m] \in Seq(S) /\ q[m] \in Seq(S) /\ Len(g[m]) \in Nat /\ Len(q[m]) \in Nat
  <2> SUFFICES ASSUME NEW m \in 1..Len(q)
               PROVE  g[m] \in Seq(S) /\ q[m] \in Seq(S) /\ Len(g[m]) \in Nat /\ Len(q[m]) \in Nat
    OBVIOUS
  <2>1. g[m] \in Seq(S)
    BY DEF Joins
  <2>2. q[m] \in Seq(S)
    BY Elements
  <2> QED BY <2>1, <2>2, LenProperties
<1>2. 1 <= Len(q) => 1 \in G
  <2> SUFFICES ASSUME 1 <= Len(q) PROVE 1 \in G
    OBVIOUS
  <2>0. 1 \in 1..Len(q)
    OBVIOUS
  <2>1. g[1] = q[1] /\ StartOf(g, 1) = 0
    BY <2>0 DEF Joins, StartOf
  <2>2. Here(1)
    BY <2>1, <1>1
  <2>3. Only(1)
    BY <2>1, <1>1
  <2> QED BY <2>1, <2>2, <2>3
<1>3. ASSUME NEW m \in 1..(Len(q) - 1), m \in G PROVE m + 1 \in G
  <2> DEFINE v == m + 1
  <2>1. v \in 1..Len(q) /\ v # 1 /\ v - 1 = m /\ m \in 1..Len(q) /\ m \in Nat
    OBVIOUS
  <2>2. g[v] = g[m] \o q[v] /\ StartOf(g, v) = Len(g[m])
    BY <2>1 DEF Joins, StartOf
  <2>3. /\ Len(g[v]) = Len(g[m]) + Len(q[v])
        /\ \A p \in 1..Len(g[m]) : g[v][p] = g[m][p]
        /\ \A b \in 1..Len(q[v]) : g[v][Len(g[m]) + b] = q[v][b]
    <3> DEFINE s == g[m]
               t == q[v]
    <3>1. s \in Seq(S) /\ t \in Seq(S)
      BY <2>1, <1>1
    <3> HIDE DEF s, t
    <3>2. /\ Len(s \o t) = Len(s) + Len(t)
          /\ \A p \in 1..Len(s) : (s \o t)[p] = s[p]
          /\ \A b \in 1..Len(t) : (s \o t)[Len(s) + b] = t[b]
      BY <3>1
    <3> QED BY <2>2, <3>2 DEF s, t
  <2>4. Len(g[m]) \in Nat /\ Len(q[v]) \in Nat
    BY <2>1, <1>1
  <2>5. Here(m) /\ Only(m)
    BY <1>3
  <2> HIDE DEF v
  <2>8. /\ \A i : i \in 1..Len(g[m]) => i \in 1..Len(g[v])
        /\ \A i \in 1..Len(q[v]) : Len(g[m]) + i \in 1..Len(g[v])
        /\ \A i \in 1..Len(g[v]) : i > Len(g[m]) => i - Len(g[m]) \in 1..Len(q[v])
    <3> DEFINE lm == Len(g[m])
               lv == Len(g[v])
               lq == Len(q[v])
    <3>1. lm \in Nat /\ lq \in Nat /\ lv = lm + lq
      BY <2>3, <2>4
    <3> HIDE DEF lm, lv, lq
    <3>2. /\ \A i : i \in 1..lm => i \in 1..lv
          /\ \A i \in 1..lq : lm + i \in 1..lv
          /\ \A i \in 1..lv : i > lm => i - lm \in 1..lq
      BY <3>1
    <3> QED BY <3>2 DEF lm, lv, lq
  <2>6. Here(v)
    <3>1. SUFFICES ASSUME NEW j \in 1..v, NEW b \in 1..Len(q[j])
                   PROVE  StartOf(g, j) + b \in 1..Len(g[v]) /\ g[v][StartOf(g, j) + b] = q[j][b]
      OBVIOUS
    <3>2. CASE j = v
      <4>1. b \in 1..Len(q[v]) /\ StartOf(g, j) + b = Len(g[m]) + b
        BY <3>1, <3>2, <2>2
      <4>2. Len(g[m]) + b \in 1..Len(g[v])
        BY <4>1, <2>8
      <4>3. g[v][Len(g[m]) + b] = q[v][b]
        BY <4>1, <2>3
      <4> QED BY <4>1, <4>2, <4>3, <3>2
    <3>3. CASE j \in 1..m
      <4>1. StartOf(g, j) + b \in 1..Len(g[m]) /\ g[m][StartOf(g, j) + b] = q[j][b]
        <5>1. \A a \in 1..Len(q[j]) :
                StartOf(g, j) + a \in 1..Len(g[m]) /\ g[m][StartOf(g, j) + a] = q[j][a]
          BY <3>3, <2>5
        <5> QED BY <3>1, <5>1
      <4>2. StartOf(g, j) + b \in 1..Len(g[v])
        BY <4>1, <2>8
      <4> QED BY <4>1, <4>2, <2>3
    <3> QED BY <3>2, <3>3, <2>1
  <2>7. Only(v)
    <3>1. SUFFICES ASSUME NEW p \in 1..Len(g[v])
                   PROVE  \E j \in 1..v : \E b \in 1..Len(q[j]) : p = StartOf(g, j) + b
      OBVIOUS
    <3>2. CASE p \in 1..Len(g[m])
      <4>1. PICK j \in 1..m : \E b \in 1..Len(q[j]) : p = StartOf(g, j) + b
        BY <3>2, <2>5
      <4> QED BY <4>1, <2>1
    <3>3. CASE p > Len(g[m])
      <4>1. p - Len(g[m]) \in 1..Len(q[v])
        BY <3>1, <3>3, <2>8
      <4>2. p = StartOf(g, v) + (p - Len(g[m]))
        <5>1. p \in Int
          BY <3>1
        <5> QED BY <5>1, <2>2, <2>4
      <4>3. v \in 1..v
        BY <2>1
      <4> QED BY <4>1, <4>2, <4>3
    <3> QED BY <3>2, <3>3, <3>1, <2>3, <2>4
  <2> HIDE DEF Here, Only
  <2> QED BY <2>1, <2>6, <2>7 DEF v
<1>4. \A m \in 1..Len(q) : m \in G
  <2> HIDE DEF G
  <2>1. 1 \in Nat /\ Len(q) \in Nat
    OBVIOUS
  <2> QED BY <1>2, <1>3, <2>1, UpTo
<1>5. Here(z) /\ Only(z)
  BY <1>4
<1> QED BY <1>5 DEF Each, NothingElse

\* The configuration, area by area.
LEMMA ConfigForm ==
  ASSUME NEW areas \in Seq(AreaSet)
  PROVE  LET c == linker_config(areas)
         IN  /\ DOMAIN c = 1..(Len(areas) + 1)
             /\ c[1].name = MAIN /\ c[1].start = BASIC_START
             /\ c[1].size = (IF areas = <<>> THEN MAIN_END ELSE areas[1].start) - BASIC_START
             /\ c[1].fill = (areas # <<>>)
             /\ \A i \in 1..Len(areas) :
                  /\ c[i + 1].name = areas[i].name /\ c[i + 1].start = areas[i].start
                  /\ c[i + 1].size = areas[i].size /\ c[i + 1].fill = (i < Len(areas))
<1> DEFINE n == Len(areas)
           main == [name |-> MAIN, start |-> BASIC_START,
                    size |-> (IF areas = <<>> THEN MAIN_END ELSE areas[1].start) - BASIC_START,
                    fill |-> areas # <<>>]
           Entry_Of(i) == [name |-> areas[i].name, start |-> areas[i].start,
                           size |-> areas[i].size, fill |-> i < n]
           rest == [i \in 1..n |-> Entry_Of(i)]
           c == linker_config(areas)
<1>1. DOMAIN areas = 1..n /\ n \in Nat
  OBVIOUS
<1>2. c = <<main>> \o rest
  BY <1>1 DEF linker_config
<1> DEFINE S == {main} \cup {Entry_Of(i) : i \in 1..n}
<1> HIDE DEF main, Entry_Of, n, c
<1>3. <<main>> \in Seq(S) /\ rest \in Seq(S) /\ Len(rest) = n
  BY <1>1
<1>4. \A i \in 1..n : rest[i] = Entry_Of(i)
  OBVIOUS
<1> HIDE DEF rest, S
<1>5. /\ Len(c) = 1 + n /\ DOMAIN c = 1..Len(c)
      /\ c[1] = main /\ \A i \in 1..n : c[1 + i] = rest[i]
  <2>1. Len(<<main>>) = 1 /\ <<main>>[1] = main
    OBVIOUS
  <2>2. c \in Seq(S) /\ Len(c) = 1 + n
    BY <1>1, <1>2, <1>3, <2>1
  <2>3. c[1] = main /\ \A i \in 1..n : c[1 + i] = rest[i]
    BY <1>1, <1>2, <1>3, <2>1
  <2> QED BY <2>2, <2>3
<1>6. DOMAIN c = 1..(n + 1) /\ c[1] = main /\ \A i \in 1..n : c[i + 1] = Entry_Of(i)
  <2>1. 1 + n = n + 1 /\ \A i \in 1..n : 1 + i = i + 1
    BY <1>1
  <2> QED BY <1>4, <1>5, <2>1
<1>7. /\ main.name = MAIN /\ main.start = BASIC_START
      /\ main.size = (IF areas = <<>> THEN MAIN_END ELSE areas[1].start) - BASIC_START
      /\ main.fill = (areas # <<>>)
  BY DEF main
<1>8. \A i \in 1..n : /\ Entry_Of(i).name = areas[i].name /\ Entry_Of(i).start = areas[i].start
                      /\ Entry_Of(i).size = areas[i].size /\ Entry_Of(i).fill = (i < n)
  BY DEF Entry_Of
<1> QED BY <1>6, <1>7, <1>8 DEF n, c

LEMMA ConfigLength ==
  ASSUME NEW areas \in Seq(AreaSet)
  PROVE  Len(linker_config(areas)) = Len(areas) + 1
<1> DEFINE c == linker_config(areas)
<1>1. DOMAIN c = 1..(Len(areas) + 1) /\ Len(areas) \in Nat
  BY ConfigForm
<1>2. Len(c) = Len(areas) + 1
  <2>1. DOMAIN c = 1..Len(c) /\ Len(c) \in Nat
    BY DEF linker_config
  <2> HIDE DEF c
  <2>2. QED
    BY <1>1, <2>1
<1> QED BY <1>2

Length(config, needs, i) == IF config[i].fill THEN config[i].size ELSE needs[i]

\* The file: offset[j] is where the bytes of area j begin, and offset[j] + b the place
\* of the byte b of it; there is nothing else.
FileAt(config, needs, l, offset) ==
  LET file == ld65(config, needs)
  IN  /\ offset \in [1..l -> Nat]
      /\ offset[1] = 0
      /\ \A j \in 1..(l - 1) : offset[j + 1] = offset[j] + Length(config, needs, j)
      /\ \A j \in 1..l : \A b \in 1..Length(config, needs, j) :
           /\ offset[j] + b \in DOMAIN file
           /\ file[offset[j] + b] = IF b <= needs[j] THEN Byte(config[j].name, b) ELSE Fill
      /\ \A p \in DOMAIN file :
           \E j \in 1..l : \E b \in 1..Length(config, needs, j) : p = offset[j] + b

LEMMA FileForm ==
  ASSUME NEW config, NEW needs, NEW l \in Nat, l > 0, DOMAIN config = 1..l,
         \A i \in 1..l : needs[i] \in Nat /\ config[i].size \in Nat
  PROVE  \E offset : FileAt(config, needs, l, offset)
<1> DEFINE file == ld65(config, needs)
           Cell(i, b) == IF b <= needs[i] THEN Byte(config[i].name, b) ELSE Fill
           Part(i) == [b \in 1..Length(config, needs, i) |-> Cell(i, b)]
           q == [i \in 1..l |-> Part(i)]
           S == {Cell(i, b) : i \in 1..l, b \in Nat}
<1>1. file = FlattenSeq(q)
  BY DEF ld65, Length
<1>2. \A i \in 1..l : Length(config, needs, i) \in Nat
  BY DEF Length
<1> HIDE DEF Cell, file
<1>3. ASSUME NEW i \in 1..l
      PROVE  /\ Part(i) \in Seq(S) /\ Len(Part(i)) = Length(config, needs, i)
             /\ \A b \in 1..Length(config, needs, i) : Part(i)[b] = Cell(i, b)
  <2> DEFINE d == Length(config, needs, i)
  <2>1. d \in Nat
    BY <1>2
  <2>2. \A b \in 1..d : Cell(i, b) \in S
    BY <2>1
  <2> HIDE DEF d, S
  <2>3. [b \in 1..d |-> Cell(i, b)] \in Seq(S) /\ Len([b \in 1..d |-> Cell(i, b)]) = d
    BY <2>1, <2>2
  <2> QED BY <2>3 DEF d
<1> HIDE DEF S, Part
<1>4. q \in Seq(Seq(S)) /\ Len(q) = l /\ \A i \in 1..l : q[i] = Part(i)
  BY <1>3
<1> HIDE DEF q
<1>5. PICK g : Joins(S, q, g) /\ file = g[l]
  BY <1>1, <1>4, FlattenJoins
<1> DEFINE offset == [j \in 1..l |-> StartOf(g, j)]
<1>6. \A j \in 1..l : g[j] \in Seq(S)
  BY <1>4, <1>5 DEF Joins
<1>7. offset \in [1..l -> Nat] /\ offset[1] = 0
  <2>1. \A j \in 1..l : StartOf(g, j) \in Nat
    <3> SUFFICES ASSUME NEW j \in 1..l PROVE StartOf(g, j) \in Nat
      OBVIOUS
    <3>1. j # 1 => j - 1 \in 1..l
      OBVIOUS
    <3>2. j # 1 => Len(g[j - 1]) \in Nat
      BY <1>6, <3>1, LenProperties
    <3> QED BY <3>2 DEF StartOf
  <2>2. StartOf(g, 1) = 0 /\ 1 \in 1..l
    BY DEF StartOf
  <2> QED BY <2>1, <2>2
<1>8. ASSUME NEW j \in 1..(l - 1) PROVE offset[j + 1] = offset[j] + Length(config, needs, j)
  <2>1. j \in 1..l /\ j + 1 \in 1..l /\ j + 1 # 1 /\ (j + 1) - 1 = j
    OBVIOUS
  <2>2. offset[j + 1] = Len(g[j]) /\ offset[j] = IF j = 1 THEN 0 ELSE Len(g[j - 1])
    BY <2>1 DEF StartOf
  <2>3. g[j] = IF j = 1 THEN q[j] ELSE g[j - 1] \o q[j]
    BY <2>1, <1>4, <1>5 DEF Joins
  <2>4. q[j] \in Seq(S) /\ Len(q[j]) = Length(config, needs, j)
    BY <2>1, <1>3, <1>4
  <2>5. CASE j = 1
    BY <2>2, <2>3, <2>4, <2>5, <2>1, <1>2
  <2>6. CASE j # 1
    <3>1. g[j - 1] \in Seq(S)
      BY <2>1, <2>6, <1>6
    <3> DEFINE s == g[j - 1]
               t == q[j]
    <3>2. s \in Seq(S) /\ t \in Seq(S)
      BY <3>1, <2>4
    <3> HIDE DEF s, t
    <3>3. Len(s \o t) = Len(s) + Len(t)
      BY <3>2
    <3> QED BY <2>2, <2>3, <2>4, <2>6, <3>3 DEF s, t
  <2> QED BY <2>5, <2>6
<1>9. l \in 1..Len(q) /\ file \in Seq(S) /\ DOMAIN file = 1..Len(g[l])
  BY <1>4, <1>5, <1>6
<1>10. /\ \A j \in 1..l : \A b \in 1..Len(q[j]) :
            StartOf(g, j) + b \in DOMAIN file /\ file[StartOf(g, j) + b] = q[j][b]
       /\ \A p \in DOMAIN file : \E j \in 1..l : \E b \in 1..Len(q[j]) : p = StartOf(g, j) + b
  <2>1. /\ \A j \in 1..l : \A b \in 1..Len(q[j]) :
              StartOf(g, j) + b \in 1..Len(g[l]) /\ g[l][StartOf(g, j) + b] = q[j][b]
        /\ \A p \in 1..Len(g[l]) : \E j \in 1..l : \E b \in 1..Len(q[j]) : p = StartOf(g, j) + b
    <3>1. q \in Seq(Seq(S)) /\ Joins(S, q, g) /\ l \in 1..Len(q)
      BY <1>4, <1>5, <1>9
    <3>2. Each(q, g, l) /\ NothingElse(q, g, l)
      BY <3>1, JoinedBytes, Zenon
    <3> QED BY <3>2 DEF Each, NothingElse
  <2> QED BY <2>1, <1>5, <1>9, Zenon
<1>11. \A j \in 1..l : offset[j] = StartOf(g, j) /\ Len(q[j]) = Length(config, needs, j)
  BY <1>3, <1>4
<1> HIDE DEF offset
<1>12. ASSUME NEW j \in 1..l, NEW b \in 1..Length(config, needs, j)
       PROVE  /\ offset[j] + b \in DOMAIN file
              /\ file[offset[j] + b] = IF b <= needs[j] THEN Byte(config[j].name, b) ELSE Fill
  <2>1. b \in 1..Len(q[j])
    BY <1>11
  <2>2. offset[j] + b \in DOMAIN file /\ file[offset[j] + b] = q[j][b]
    BY <2>1, <1>10, <1>11
  <2>3. q[j][b] = Cell(j, b)
    BY <1>3, <1>4
  <2> QED BY <2>2, <2>3 DEF Cell
<1>13. ASSUME NEW p \in DOMAIN file
       PROVE  \E j \in 1..l : \E b \in 1..Length(config, needs, j) : p = offset[j] + b
  <2>1. PICK j \in 1..l : \E b \in 1..Len(q[j]) : p = StartOf(g, j) + b
    BY <1>10
  <2> QED BY <2>1, <1>11
<1>14. FileAt(config, needs, l, offset)
  BY <1>7, <1>8, <1>12, <1>13 DEF file, FileAt
<1> QED BY <1>14

\* The numbers of a configuration: what linker_config makes of areas that the
\* linker accepts.
LEMMA ConfigTypes ==
  ASSUME NEW areas \in Seq(AreaSet), NEW needs,
         \A i \in 1..(Len(areas) + 1) : needs[i] \in Nat,
         Links(linker_config(areas), needs)
  PROVE  LET c == linker_config(areas)
         IN  \A i \in 1..(Len(areas) + 1) :
               /\ c[i].size \in Nat /\ c[i].size > 0 /\ c[i].start \in Int
               /\ needs[i] <= c[i].size
               /\ needs[i] <= Length(c, needs, i)
<1> DEFINE c == linker_config(areas)
           n == Len(areas)
<1>1. /\ DOMAIN c = 1..(n + 1)
      /\ c[1].start = BASIC_START
      /\ c[1].size = (IF areas = <<>> THEN MAIN_END ELSE areas[1].start) - BASIC_START
      /\ \A i \in 1..n : c[i + 1].start = areas[i].start /\ c[i + 1].size = areas[i].size
  BY ConfigForm
<1>2. \A i \in 1..n : areas[i].start \in Int /\ areas[i].size \in Int
  BY AreaTypes
<1>3. areas # <<>> => 1 \in 1..n
  OBVIOUS
<1>4. n \in Nat
  OBVIOUS
<1>5. \A i \in DOMAIN c : c[i].size > 0 /\ ~(needs[i] > c[i].size)
  BY DEF Links, Overflows
<1> HIDE DEF c, n
<1>6. c[1].size \in Int /\ c[1].start \in Int
  BY <1>1, <1>2, <1>3, AddressAssumption
<1>7. ASSUME NEW i \in 1..(n + 1)
      PROVE  c[i].size \in Int /\ c[i].start \in Int
  <2>1. CASE i = 1
    BY <2>1, <1>6
  <2>2. CASE i # 1
    <3>1. i - 1 \in 1..n /\ (i - 1) + 1 = i
      BY <2>2, <1>4
    <3> QED BY <3>1, <1>1, <1>2
  <2> QED BY <2>1, <2>2
<1>8. ASSUME NEW i \in 1..(n + 1)
      PROVE  /\ c[i].size \in Nat /\ c[i].size > 0 /\ c[i].start \in Int
             /\ needs[i] <= c[i].size /\ needs[i] <= Length(c, needs, i)
  <2>1. needs[i] \in Nat
    BY DEF n
  <2>2. c[i].size \in Int /\ c[i].start \in Int /\ c[i].size > 0 /\ needs[i] <= c[i].size
    BY <1>1, <1>5, <1>7, <2>1
  <2> QED BY <2>1, <2>2 DEF Length
<1> QED BY <1>8 DEF c, n

-----------------------------------------------------------------------------
(* What parse_areas accepts, and what it refuses.                            *)

\* Areas that meet, and end in memory, land where they were asked for.
LEMMA MetLand ==
  ASSUME NEW areas \in Seq(AreaSet), NEW needs,
         \A i \in 1..(Len(areas) + 1) : needs[i] \in Nat,
         Links(linker_config(areas), needs),
         \A i \in 1..(Len(areas) - 1) : Meet(areas[i], areas[i + 1]),
         \A i \in 1..Len(areas) : End(areas[i]) <= TOP
  PROVE  Lands(linker_config(areas), needs)
<1> DEFINE c == linker_config(areas)
           n == Len(areas)
           l == n + 1
           file == ld65(c, needs)
<1>1. /\ DOMAIN c = 1..l
      /\ c[1].start = BASIC_START
      /\ c[1].size = (IF areas = <<>> THEN MAIN_END ELSE areas[1].start) - BASIC_START
      /\ c[1].fill = (areas # <<>>)
      /\ \A i \in 1..n : /\ c[i + 1].start = areas[i].start /\ c[i + 1].size = areas[i].size
                         /\ c[i + 1].fill = (i < n)
  BY ConfigForm
<1>2. \A i \in 1..l : /\ c[i].size \in Nat /\ c[i].size > 0 /\ c[i].start \in Int /\ needs[i] \in Nat
                      /\ needs[i] <= c[i].size /\ needs[i] <= Length(c, needs, i)
  BY ConfigTypes
<1>3. n \in Nat /\ l \in Nat /\ l > 0 /\ (areas # <<>> <=> n > 0)
  OBVIOUS
<1>4. ASSUME NEW i \in 1..n PROVE c[i].fill /\ c[i].start + c[i].size = c[i + 1].start
  <2>1. CASE i = 1
    <3>1. areas # <<>> /\ c[1 + 1].start = areas[1].start
      BY <2>1, <1>1, <1>3
    <3>2. c[1 + 1].start \in Int
      <4>1. 1 + 1 \in 1..l
        BY <1>3
      <4> QED BY <4>1, <1>2
    <3>3. c[1].start = BASIC_START /\ c[1].size = areas[1].start - BASIC_START /\ c[1].fill
      BY <3>1, <1>1
    <3>4. areas[1].start \in Int /\ BASIC_START \in Int
      BY <3>1, <3>2, AddressAssumption
    <3> QED BY <2>1, <3>1, <3>3, <3>4
  <2>2. CASE i # 1
    <3>1. i - 1 \in 1..n /\ (i - 1) + 1 = i /\ i - 1 \in 1..(n - 1) /\ i - 1 < n
      BY <2>2, <1>3
    <3>2. c[i].fill /\ c[i].start = areas[i - 1].start /\ c[i].size = areas[i - 1].size
          /\ c[i + 1].start = areas[i].start
      BY <3>1, <1>1
    <3>3. areas[i - 1].start + areas[i - 1].size = areas[i].start
      BY <3>1 DEF Meet, End
    <3> QED BY <3>2, <3>3
  <2> QED BY <2>1, <2>2
<1>5. ASSUME NEW i \in 1..l PROVE c[i].start + c[i].size <= TOP
  <2>1. CASE i = 1 /\ n = 0
    BY <2>1, <1>1, <1>3, AddressAssumption
  <2>2. CASE i = 1 /\ n > 0
    <3>1. c[1].start + c[1].size = c[2].start /\ 1 \in 1..n
      BY <2>2, <1>3, <1>4
    <3>2. c[2].start = areas[1].start /\ c[2].size = areas[1].size /\ End(areas[1]) <= TOP
      BY <3>1, <1>1
    <3>3. c[2].size \in Nat /\ c[2].start \in Int
      BY <2>2, <1>2, <1>3
    <3> QED BY <2>2, <3>1, <3>2, <3>3, AddressAssumption DEF End
  <2>3. CASE i # 1
    <3>1. i - 1 \in 1..n /\ (i - 1) + 1 = i
      BY <2>3, <1>3
    <3>2. c[i].start = areas[i - 1].start /\ c[i].size = areas[i - 1].size /\ End(areas[i - 1]) <= TOP
      BY <3>1, <1>1
    <3> QED BY <3>2 DEF End
  <2> QED BY <2>1, <2>2, <2>3, <1>3
<1> HIDE DEF c, n, l, file
<1>6. \A i \in 1..l : needs[i] \in Nat /\ c[i].size \in Nat
  BY <1>2
<1>20. PICK offset : FileAt(c, needs, l, offset)
  <2>1. l \in Nat /\ l > 0 /\ DOMAIN c = 1..l
    BY <1>1, <1>3
  <2> QED BY <2>1, <1>6, FileForm, Zenon
<1>7. /\ offset[1] = 0
      /\ \A j \in 1..(l - 1) : offset[j + 1] = offset[j] + Length(c, needs, j)
      /\ \A j \in 1..l : \A b \in 1..Length(c, needs, j) :
           /\ offset[j] + b \in DOMAIN file
           /\ file[offset[j] + b] = IF b <= needs[j] THEN Byte(c[j].name, b) ELSE Fill
  BY <1>20 DEF FileAt, file
<1> DEFINE G == {i \in 1..l : offset[i] = c[i].start - BASIC_START}
<1>8. \A i \in 1..l : i \in G
  <2>1. 1 \in G
    BY <1>1, <1>3, <1>7, AddressAssumption
  <2>2. ASSUME NEW i \in 1..(l - 1), i \in G PROVE i + 1 \in G
    <3>1. i \in 1..n /\ i + 1 \in 1..l /\ i \in 1..l
      BY <1>3 DEF l
    <3>2. offset[i + 1] = offset[i] + c[i].size
      BY <3>1, <1>4, <1>7 DEF Length
    <3>3. offset[i + 1] = c[i + 1].start - BASIC_START
      <4>1. offset[i] = c[i].start - BASIC_START
        BY <2>2
      <4>2. c[i].start \in Int /\ c[i].size \in Int /\ BASIC_START \in Int /\ c[i].start + c[i].size = c[i + 1].start
        BY <3>1, <1>2, <1>4, AddressAssumption
      <4> QED BY <3>2, <4>1, <4>2
    <3> QED BY <3>1, <3>3
  <2> HIDE DEF G
  <2>3. 1 \in Nat
    OBVIOUS
  <2> QED BY <2>1, <2>2, <2>3, <1>3, UpTo
<1>9. ASSUME NEW i \in 1..l, NEW b \in 1..needs[i]
      PROVE  LET p == c[i].start + b - BASIC_START
             IN  p \in DOMAIN file /\ file[p] = Byte(c[i].name, b) /\ c[i].start + b <= TOP
  <2>1. /\ c[i].start \in Int /\ c[i].size \in Nat /\ needs[i] \in Nat
        /\ needs[i] <= c[i].size /\ needs[i] <= Length(c, needs, i)
    BY <1>2
  <2>2. Length(c, needs, i) \in Int
    BY <2>1 DEF Length
  <2>3. b \in 1..Length(c, needs, i) /\ b <= needs[i] /\ b <= c[i].size
    BY <2>1, <2>2
  <2>4. offset[i] + b \in DOMAIN file /\ file[offset[i] + b] = Byte(c[i].name, b)
    BY <1>7, <2>3
  <2>5. c[i].start + b - BASIC_START = offset[i] + b
    <3>1. offset[i] = c[i].start - BASIC_START
      BY <1>8
    <3> QED BY <3>1, <2>1, AddressAssumption
  <2>6. c[i].start + b <= TOP
    BY <2>1, <2>3, <1>5, AddressAssumption
  <2> QED BY <2>4, <2>5, <2>6
<1> QED BY <1>1, <1>9 DEF Lands, c, file

LEMMA SortedTyped ==
  ASSUME NEW values \in Seq(AreaSet), NEW p, Orders(values, Len(values), p),
         Sorted(values) = [i \in 1..Len(values) |-> values[p[i]]]
  PROVE  /\ Sorted(values) \in Seq(AreaSet) /\ Len(Sorted(values)) = Len(values)
         /\ \A i \in 1..Len(values) : p[i] \in 1..Len(values) /\ Sorted(values)[i] = values[p[i]]
<1> DEFINE n == Len(values)
           F(i) == values[p[i]]
           f == [i \in 1..n |-> F(i)]
<1>1. n \in Nat /\ \A i \in 1..n : p[i] \in 1..n
  BY DEF Orders
<1>2. \A i \in 1..n : F(i) \in AreaSet
  BY <1>1, Elements
<1>3. Sorted(values) = f
  OBVIOUS
<1> HIDE DEF F, n
<1>4. f \in Seq(AreaSet) /\ Len(f) = n /\ \A i \in 1..n : f[i] = F(i)
  BY <1>1, <1>2
<1> QED BY <1>1, <1>3, <1>4 DEF F, n

\* The segments of a program that uses all of its areas.
Filled(config) == [i \in DOMAIN config |-> IF i = 1 THEN 1 ELSE config[i].size]

\* An area that the linker accepts for such a program is usable, unless its name
\* is reserved in other letters.
LEMMA LinkedIsUsable ==
  ASSUME NEW values \in Seq(AreaSet),
         Links(linker_config(Sorted(values)), Filled(linker_config(Sorted(values)))),
         Lands(linker_config(Sorted(values)), Filled(linker_config(Sorted(values)))),
         NEW i \in DOMAIN values, ~NearlyReserved(values[i].name)
  PROVE  ~Unusable(values, i)
<1> DEFINE n == Len(values)
           areas == Sorted(values)
           c == linker_config(areas)
           full == Filled(c)
<1>1. PICK p : Orders(values, n, p) /\ areas = [t \in 1..n |-> values[p[t]]]
  BY SortedIs
<1>2. /\ areas \in Seq(AreaSet) /\ Len(areas) = n
      /\ \A t \in 1..n : p[t] \in 1..n /\ areas[t] = values[p[t]]
  BY <1>1, SortedTyped
<1>3. i \in 1..n /\ n \in Nat /\ \A t \in 1..n : values[t].start \in Int /\ values[t].size \in Int
  BY AreaTypes
<1> HIDE DEF n, areas
<1>4. areas # <<>>
  BY <1>2, <1>3
<1>5. /\ DOMAIN c = 1..(n + 1) /\ c[1].name = MAIN
      /\ c[1].size = areas[1].start - BASIC_START
      /\ \A t \in 1..n : /\ c[t + 1].name = areas[t].name /\ c[t + 1].start = areas[t].start
                         /\ c[t + 1].size = areas[t].size
  BY <1>2, <1>4, ConfigForm
<1> HIDE DEF c
<1>6. /\ \A s, t \in 1..(n + 1) : c[s].name = c[t].name => s = t
      /\ \A s \in 1..(n + 1) : c[s].size > 0
  BY <1>5 DEF Links, areas, c
<1>14. \A s \in 2..(n + 1) : c[s].name \notin ConfigNames
  <2>1. Len(c) = n + 1
    BY <1>2, ConfigLength DEF c
  <2>2. QED
    BY <2>1 DEF Links, areas, c
<1>7. \A t \in 1..n : /\ t + 1 \in 1..(n + 1) /\ t + 1 # 1 /\ 1 \in 1..(n + 1)
                      /\ full[t + 1] = c[t + 1].size
  BY <1>3, <1>5 DEF Filled
<1>8. PICK t \in 1..n : p[t] = i
  BY <1>1, <1>3 DEF Orders
<1>9. c[t + 1].name = values[i].name /\ c[t + 1].start = values[i].start /\ c[t + 1].size = values[i].size
  BY <1>2, <1>5, <1>8
<1>10. values[i].size > 0
  BY <1>6, <1>7, <1>9
<1>11. upper(values[i].name) \notin RESERVED_AREA_NAMES
  <2>1. t + 1 \in 2..(n + 1)
    BY <1>3
  <2>2. values[i].name \notin ConfigNames
    BY <1>9, <1>14, <2>1
  <2>3. upper(values[i].name) \notin ConfigNames
    BY <2>2 DEF NearlyReserved
  <2>4. RESERVED_AREA_NAMES = ConfigNames
    BY DEF RESERVED_AREA_NAMES, ConfigNames, InCapitals
  <2>5. QED
    BY <2>3, <2>4
<1>12. ASSUME NEW j \in 1..(i - 1), values[j].name = values[i].name PROVE FALSE
  <2>1. j \in 1..n /\ j # i
    BY <1>3
  <2>2. PICK s \in 1..n : p[s] = j
    BY <1>1, <2>1 DEF Orders
  <2>3. c[s + 1].name = values[j].name
    BY <1>2, <1>5, <2>2
  <2>4. s + 1 = t + 1
    BY <1>6, <1>7, <1>9, <1>12, <2>3
  <2>5. s = t
    BY <2>4
  <2> QED BY <1>8, <2>1, <2>2, <2>5
<1>13. values[i].start > BASIC_START
  <2>1. 1 \in 1..n
    BY <1>3
  <2>2. areas[1] = values[p[1]] /\ p[1] \in 1..n
    BY <1>2, <2>1
  <2>3. values[p[1]].start <= values[i].start
    <3>1. CASE t = 1
      BY <1>3, <1>8, <3>1
    <3>2. CASE t # 1
      <4>1. Ahead(values, p[1], p[t])
        BY <1>1, <2>1, <3>2 DEF Orders
      <4> QED BY <4>1, <1>3, <1>8, <2>2 DEF Ahead
    <3> QED BY <3>1, <3>2
  <2>4. values[p[1]].start - BASIC_START > 0
    BY <1>5, <1>6, <1>7, <2>2
  <2>5. values[p[1]].start \in Int /\ values[i].start \in Int /\ BASIC_START \in Int
    BY <1>3, <2>2, AddressAssumption
  <2> QED BY <2>3, <2>4, <2>5
<1>15. End(values[i]) <= TOP
  <2>1. values[i].size \in 1..full[t + 1] /\ t + 1 \in DOMAIN c
    BY <1>3, <1>5, <1>7, <1>9, <1>10
  <2>2. \A s \in DOMAIN c : \A b \in 1..full[s] : c[s].start + b <= TOP
    BY DEF Lands, c, areas
  <2>3. c[t + 1].start + values[i].size <= TOP
    BY <2>1, <2>2
  <2> QED BY <2>3, <1>9 DEF End
<1> QED BY <1>3, <1>10, <1>11, <1>12, <1>13, <1>15, AddressAssumption DEF Unusable, End

\* The areas of such a program meet.
LEMMA LinkedMeets ==
  ASSUME NEW areas \in Seq(AreaSet),
         Links(linker_config(areas), Filled(linker_config(areas))),
         Lands(linker_config(areas), Filled(linker_config(areas))),
         NEW i \in 1..(Len(areas) - 1)
  PROVE  Meet(areas[i], areas[i + 1])
<1> DEFINE c == linker_config(areas)
           n == Len(areas)
           l == n + 1
           full == Filled(c)
           file == ld65(c, full)
<1>1. /\ DOMAIN c = 1..l /\ c[1].name = MAIN
      /\ \A t \in 1..n : c[t + 1].start = areas[t].start /\ c[t + 1].size = areas[t].size
  BY ConfigForm
<1>2. \A t \in 1..n : areas[t].start \in Int /\ areas[t].size \in Int
  BY AreaTypes
<1>3. n \in Nat /\ l \in Nat /\ l > 0
  OBVIOUS
<1>4. /\ \A s, t \in DOMAIN c : c[s].name = c[t].name => s = t
      /\ \A s \in DOMAIN c : c[s].size > 0
  BY DEF Links
<1>5. \A s \in DOMAIN c : \A b \in 1..full[s] :
        c[s].start + b - BASIC_START \in DOMAIN file
        /\ file[c[s].start + b - BASIC_START] = Byte(c[s].name, b)
  BY DEF Lands
<1>6. full = [s \in DOMAIN c |-> IF s = 1 THEN 1 ELSE c[s].size]
  BY DEF Filled
<1>7. i \in 1..n /\ i + 1 \in 1..n
  OBVIOUS
<1>8. c[1].size \in Int
  <2>1. areas # <<>> /\ 1 \in 1..n
    BY <1>7
  <2> QED BY <2>1, <1>2, ConfigForm, AddressAssumption
<1> HIDE DEF c, n, l, full, file
<1>9. ASSUME NEW s \in 2..l PROVE s - 1 \in 1..n /\ s = (s - 1) + 1
  BY <1>3 DEF l
<1>10. \A s \in 2..l : c[s].start \in Int /\ c[s].size \in Nat /\ c[s].size >= 1
                       /\ full[s] = c[s].size /\ s \in DOMAIN c
  <2>1. SUFFICES ASSUME NEW s \in 2..l
                 PROVE  c[s].start \in Int /\ c[s].size \in Nat /\ c[s].size >= 1
                        /\ full[s] = c[s].size /\ s \in DOMAIN c
    OBVIOUS
  <2>2. s \in DOMAIN c /\ s # 1
    BY <1>1, <1>3
  <2>3. c[s].start \in Int /\ c[s].size \in Int
    BY <1>1, <1>2, <1>9
  <2>4. c[s].size > 0
    BY <1>4, <2>2
  <2> QED BY <1>6, <2>2, <2>3, <2>4
<1>11. \A s \in 1..l : full[s] \in Nat /\ c[s].size \in Nat
  <2>1. SUFFICES ASSUME NEW s \in 1..l PROVE full[s] \in Nat /\ c[s].size \in Nat
    OBVIOUS
  <2>2. CASE s = 1
    <3>1. full[1] = 1 /\ c[1].size > 0
      BY <1>1, <1>4, <1>6, <2>2
    <3> QED BY <3>1, <2>2, <1>8
  <2>3. CASE s # 1
    <3>1. s \in 2..l
      BY <2>3, <1>3
    <3> QED BY <3>1, <1>10
  <2> QED BY <2>2, <2>3
<1>12. PICK offset : FileAt(c, full, l, offset)
  BY <1>1, <1>3, <1>11, FileForm, Zenon
<1>13. /\ offset \in [1..l -> Nat]
       /\ \A j \in 1..(l - 1) : offset[j + 1] = offset[j] + Length(c, full, j)
       /\ \A j \in 1..l : \A b \in 1..Length(c, full, j) :
            file[offset[j] + b] = IF b <= full[j] THEN Byte(c[j].name, b) ELSE Fill
       /\ \A q \in DOMAIN file : \E j \in 1..l : \E b \in 1..Length(c, full, j) : q = offset[j] + b
  BY <1>12 DEF FileAt, file
<1>14. ASSUME NEW s \in 2..l PROVE offset[s] = c[s].start - BASIC_START
  <2> DEFINE q == c[s].start + 1 - BASIC_START
  <2>1. 1 \in 1..full[s] /\ s \in DOMAIN c
    BY <1>10
  <2>2. q \in DOMAIN file /\ file[q] = Byte(c[s].name, 1)
    BY <1>5, <2>1
  <2> HIDE DEF q
  <2>3. PICK j \in 1..l : \E b \in 1..Length(c, full, j) : q = offset[j] + b
    BY <1>13, <2>2
  <2>4. PICK b \in 1..Length(c, full, j) : q = offset[j] + b
    BY <2>3
  <2>5. file[q] = IF b <= full[j] THEN Byte(c[j].name, b) ELSE Fill
    BY <1>13, <2>4
  <2>6. \A v, w : Byte(v, 1) # Byte(w, 0)
    BY DEF Byte
  <2>7. b <= full[j]
    BY <2>2, <2>5, <2>6 DEF Fill
  <2>8. Byte(c[j].name, b) = Byte(c[s].name, 1)
    BY <2>2, <2>5, <2>7
  <2>9. c[j].name = c[s].name /\ b = 1
    <3> DEFINE v == c[j].name
               w == c[s].name
    <3>1. Byte(v, b).of = v /\ Byte(v, b).i = b /\ Byte(w, 1).of = w /\ Byte(w, 1).i = 1
      BY DEF Byte
    <3> HIDE DEF v, w
    <3>2. Byte(v, b) = Byte(w, 1)
      BY <2>8 DEF v, w
    <3>3. v = w /\ b = 1
      BY <3>1, <3>2
    <3> QED BY <3>3 DEF v, w
  <2>10. j = s
    BY <1>1, <1>4, <2>1, <2>9
  <2>11. offset[s] \in Nat /\ c[s].start \in Int /\ BASIC_START \in Int
    <3>1. s \in 1..l
      BY <2>3, <2>10
    <3> QED BY <3>1, <1>10, <1>13, AddressAssumption
  <2>12. c[s].start + 1 - BASIC_START = offset[s] + 1
    BY <2>4, <2>9, <2>10 DEF q
  <2> DEFINE u == c[s].start
             w == offset[s]
  <2>13. u \in Int /\ w \in Int /\ BASIC_START \in Int /\ u + 1 - BASIC_START = w + 1
    BY <2>11, <2>12
  <2> HIDE DEF u, w
  <2>14. w = u - BASIC_START
    BY <2>13
  <2> QED BY <2>14 DEF u, w
<1>15. i + 1 \in 2..l /\ i + 2 \in 2..l /\ (i + 1) + 1 = i + 2 /\ i + 1 \in 1..(l - 1)
  BY <1>3, <1>7 DEF l
<1>16. offset[i + 2] = offset[i + 1] + c[i + 1].size
  <2>1. Length(c, full, i + 1) = c[i + 1].size
    BY <1>10, <1>15 DEF Length
  <2>2. offset[(i + 1) + 1] = offset[i + 1] + Length(c, full, i + 1)
    BY <1>13, <1>15
  <2> QED BY <2>1, <2>2, <1>15
<1>17. offset[i + 1] = c[i + 1].start - BASIC_START /\ offset[i + 2] = c[i + 2].start - BASIC_START
  BY <1>14, <1>15
<1>18. /\ c[i + 1].start = areas[i].start /\ c[i + 1].size = areas[i].size
       /\ c[i + 2].start = areas[i + 1].start
  BY <1>1, <1>7, <1>15
<1>19. areas[i].start + areas[i].size = areas[i + 1].start
  <2>1. /\ areas[i].start \in Int /\ areas[i].size \in Int /\ areas[i + 1].start \in Int
        /\ BASIC_START \in Int
    BY <1>2, <1>7, AddressAssumption
  <2>2. offset[i + 1] = areas[i].start - BASIC_START /\ offset[i + 2] = areas[i + 1].start - BASIC_START
    BY <1>17, <1>18
  <2>3. offset[i + 2] = offset[i + 1] + areas[i].size
    BY <1>16, <1>18
  <2>4. areas[i + 1].start - BASIC_START = (areas[i].start - BASIC_START) + areas[i].size
    BY <2>2, <2>3
  <2> DEFINE u == areas[i].start
             v == areas[i].size
             w == areas[i + 1].start
  <2>5. u \in Int /\ v \in Int /\ w \in Int /\ BASIC_START \in Int
        /\ w - BASIC_START = (u - BASIC_START) + v
    BY <2>1, <2>4
  <2> HIDE DEF c, u, v, w
  <2>6. u + v = w
    BY <2>5
  <2> QED BY <2>6 DEF u, v, w
<1> QED BY <1>19 DEF Meet, End

\* What is refused would not have linked and landed, but for such a name.
LEMMA RefusedRightly ==
  ASSUME NEW values \in Seq(AreaSet),
         Links(linker_config(Sorted(values)), Filled(linker_config(Sorted(values)))),
         Lands(linker_config(Sorted(values)), Filled(linker_config(Sorted(values)))),
         \A i \in DOMAIN values : ~NearlyReserved(values[i].name)
  PROVE  parse_areas(values).ok
<1>1. \A i \in DOMAIN values : ~Unusable(values, i)
  BY LinkedIsUsable
<1>2. PICK p : Orders(values, Len(values), p) /\ Sorted(values) = [t \in 1..Len(values) |-> values[p[t]]]
  BY SortedIs
<1>3. Sorted(values) \in Seq(AreaSet)
  BY <1>2, SortedTyped
<1>4. \A i \in 1..(Len(Sorted(values)) - 1) : Meet(Sorted(values)[i], Sorted(values)[i + 1])
  <2> DEFINE areas == Sorted(values)
  <2> HIDE DEF areas
  <2>1. areas \in Seq(AreaSet) /\ Links(linker_config(areas), Filled(linker_config(areas)))
        /\ Lands(linker_config(areas), Filled(linker_config(areas)))
    BY <1>3 DEF areas
  <2>2. \A i \in 1..(Len(areas) - 1) : Meet(areas[i], areas[i + 1])
    BY <2>1, LinkedMeets
  <2> QED BY <2>2 DEF areas
<1> QED BY <1>1, <1>4 DEF parse_areas

\* What is accepted links, unless a segment is too large for its area.
LEMMA AcceptedLinks ==
  ASSUME NEW values \in Seq(AreaSet), parse_areas(values).ok, NEW needs,
         ~Overflows(linker_config(parse_areas(values).areas), needs)
  PROVE  Links(linker_config(parse_areas(values).areas), needs)
<1> DEFINE n == Len(values)
           areas == Sorted(values)
           c == linker_config(areas)
<1>1. (\A i \in DOMAIN values : ~Unusable(values, i)) /\ parse_areas(values).areas = areas
  BY DEF parse_areas
<1>2. PICK p : Orders(values, n, p) /\ areas = [t \in 1..n |-> values[p[t]]]
  BY SortedIs
<1>3. /\ areas \in Seq(AreaSet) /\ Len(areas) = n
      /\ \A t \in 1..n : p[t] \in 1..n /\ areas[t] = values[p[t]]
  BY <1>2, SortedTyped
<1>4. /\ n \in Nat /\ DOMAIN values = 1..n
      /\ \A t \in 1..n : values[t].start \in Int /\ values[t].size \in Int
                         /\ values[t] \in AreaSet
  BY AreaTypes, Elements
<1> HIDE DEF n, areas
<1>5. /\ DOMAIN c = 1..(n + 1) /\ c[1].name = MAIN
      /\ c[1].size = (IF areas = <<>> THEN MAIN_END ELSE areas[1].start) - BASIC_START
      /\ \A t \in 1..n : /\ c[t + 1].name = areas[t].name /\ c[t + 1].start = areas[t].start
                         /\ c[t + 1].size = areas[t].size
  BY <1>3, ConfigForm
<1>6. Len(c) = n + 1
  BY <1>3, ConfigLength
<1> HIDE DEF c
<1>7. \A s \in 2..(n + 1) : s - 1 \in 1..n /\ (s - 1) + 1 = s
  BY <1>4
<1>8. \A t \in 1..n : /\ upper(values[t].name) \notin ConfigNames /\ values[t].size > 0
                      /\ values[t].start > BASIC_START
                      /\ \A j \in 1..(t - 1) : values[j].name # values[t].name
  <2>1. RESERVED_AREA_NAMES = ConfigNames
    BY DEF RESERVED_AREA_NAMES, ConfigNames, InCapitals
  <2>2. SUFFICES ASSUME NEW t \in 1..n
                 PROVE  /\ upper(values[t].name) \notin ConfigNames /\ values[t].size > 0
                        /\ values[t].start > BASIC_START
                        /\ \A j \in 1..(t - 1) : values[j].name # values[t].name
    OBVIOUS
  <2>3. ~Unusable(values, t)
    BY <1>1, <1>4
  <2>4. /\ upper(values[t].name) \notin RESERVED_AREA_NAMES
        /\ ~(values[t].size <= 0) /\ ~(values[t].start <= BASIC_START)
        /\ \A j \in 1..(t - 1) : values[j].name # values[t].name
    BY <2>3 DEF Unusable
  <2>5. values[t].size \in Int /\ values[t].start \in Int /\ BASIC_START \in Int
    BY <1>4, AddressAssumption
  <2>6. values[t].size > 0 /\ values[t].start > BASIC_START
    BY <2>4, <2>5
  <2>7. QED
    BY <2>1, <2>4, <2>6
<1>9. \A t \in 1..n : values[t].name \notin ConfigNames
  <2> SUFFICES ASSUME NEW t \in 1..n, values[t].name \in ConfigNames PROVE FALSE
    OBVIOUS
  <2> DEFINE name == values[t].name
  <2>1. name \in [word : STRING, letters : STRING] /\ name.letters = "capitals"
    BY <1>4 DEF AreaSet, ConfigNames, InCapitals
  <2> HIDE DEF name
  <2>2. upper(name) = name
    BY <2>1 DEF upper
  <2>3. QED
    BY <1>8, <2>2 DEF name
<1>10. MAIN \in ConfigNames
  BY DEF MAIN, ConfigNames, InCapitals
<1>11. \A s \in 2..(n + 1) : /\ c[s].name = values[p[s - 1]].name /\ p[s - 1] \in 1..n
                             /\ c[s].size = values[p[s - 1]].size
  BY <1>3, <1>5, <1>7
<1>12. \A s \in 2..(n + 1) : c[s].name \notin ConfigNames /\ c[s].size > 0
  BY <1>8, <1>9, <1>11
<1>13. c[1].size > 0
  <2>1. CASE areas = <<>>
    BY <2>1, <1>5, AddressAssumption
  <2>2. CASE areas # <<>>
    <3>1. 1 \in 1..n
      BY <2>2, <1>3, <1>4
    <3>2. areas[1].start \in Int /\ areas[1].start > BASIC_START
      BY <3>1, <1>3, <1>4, <1>8
    <3> QED BY <2>2, <3>2, <1>5, AddressAssumption
  <2> QED BY <2>1, <2>2
<1>14. ASSUME NEW s \in 2..(n + 1), NEW t \in 2..(n + 1), c[s].name = c[t].name PROVE s = t
  <2> DEFINE u == p[s - 1]
             v == p[t - 1]
  <2>1. u \in 1..n /\ v \in 1..n /\ values[u].name = values[v].name
    BY <1>11, <1>14
  <2> HIDE DEF u, v
  <2>2. ~(u < v) /\ ~(v < u)
    <3>1. u < v => u \in 1..(v - 1)
      BY <2>1, <1>4
    <3>2. v < u => v \in 1..(u - 1)
      BY <2>1, <1>4
    <3> QED BY <3>1, <3>2, <2>1, <1>8
  <2>3. u = v
    BY <2>1, <2>2, <1>4
  <2>4. s - 1 = t - 1
    BY <2>3, <1>2, <1>7 DEF Orders, u, v
  <2> QED BY <2>4, <1>4
<1>15. \A s, t \in DOMAIN c : c[s].name = c[t].name => s = t
  <2> SUFFICES ASSUME NEW s \in 1..(n + 1), NEW t \in 1..(n + 1), c[s].name = c[t].name
               PROVE  s = t
    BY <1>5
  <2>1. \A q \in 1..(n + 1) : q = 1 \/ q \in 2..(n + 1)
    BY <1>4
  <2> QED BY <2>1, <1>5, <1>10, <1>12, <1>14
<1>16. \A s \in DOMAIN c : c[s].size > 0
  <2>1. \A q \in 1..(n + 1) : q = 1 \/ q \in 2..(n + 1)
    BY <1>4
  <2> QED BY <2>1, <1>5, <1>12, <1>13
<1>17. ~Overflows(c, needs)
  BY <1>1 DEF c
<1>18. Links(c, needs)
  BY <1>6, <1>12, <1>15, <1>16, <1>17 DEF Links
<1> QED BY <1>1, <1>18 DEF c

\* What is accepted is usable and meets.
LEMMA AcceptedForm ==
  ASSUME NEW values \in Seq(AreaSet), parse_areas(values).ok
  PROVE  LET areas == parse_areas(values).areas
         IN  /\ areas \in Seq(AreaSet) /\ Len(areas) = Len(values)
             /\ \A i \in 1..(Len(areas) - 1) : Meet(areas[i], areas[i + 1])
             /\ \A i \in 1..Len(areas) : End(areas[i]) <= TOP
<1>1. /\ \A i \in DOMAIN values : ~Unusable(values, i)
      /\ parse_areas(values).areas = Sorted(values)
      /\ \A i \in 1..(Len(Sorted(values)) - 1) : Meet(Sorted(values)[i], Sorted(values)[i + 1])
  BY DEF parse_areas
<1>2. PICK p : Orders(values, Len(values), p) /\ Sorted(values) = [t \in 1..Len(values) |-> values[p[t]]]
  BY SortedIs
<1>3. /\ Sorted(values) \in Seq(AreaSet) /\ Len(Sorted(values)) = Len(values)
      /\ \A i \in 1..Len(values) : p[i] \in 1..Len(values) /\ Sorted(values)[i] = values[p[i]]
  BY <1>2, SortedTyped
<1>4. ASSUME NEW i \in 1..Len(values) PROVE End(values[i]) <= TOP
  <2>1. values[i] \in AreaSet
    BY Elements
  <2>2. values[i].start \in Int /\ values[i].size \in Int
    BY <2>1 DEF AreaSet
  <2>3. ~(End(values[i]) > TOP)
    BY <1>1 DEF Unusable
  <2> QED BY <2>2, <2>3, AddressAssumption DEF End
<1> QED BY <1>1, <1>3, <1>4

LEMMA AreasLandFollows ==
  ASSUME ImagesInv PROVE AreasLand
<1> DEFINE values == build.spec.values
           needs == build.spec.needs
<1>1. ASSUME build.kind = "areas"
      PROVE  values \in Seq(AreaSet) /\ needs \in [1..(Len(values) + 1) -> Nat]
  <2>1. build.spec \in AreaJobs
    BY <1>1 DEF ImagesInv, ImagesTyped
  <2> QED BY <2>1, JobsAssumption DEF AreaSet
<1>2. ASSUME phase = "loaded" PROVE Lands(Config, needs)
  <2> DEFINE areas == parse_areas(values).areas
  <2>1. build.kind = "areas" /\ parse_areas(values).ok /\ Links(linker_config(areas), needs)
        /\ Config = linker_config(areas)
    BY <1>2 DEF ImagesInv, Decided, Config
  <2>2. values \in Seq(AreaSet) /\ needs \in [1..(Len(values) + 1) -> Nat]
    BY <1>1, <2>1
  <2> HIDE DEF values, needs
  <2>3. /\ areas \in Seq(AreaSet) /\ Len(areas) = Len(values)
        /\ \A i \in 1..(Len(areas) - 1) : Meet(areas[i], areas[i + 1])
        /\ \A i \in 1..Len(areas) : End(areas[i]) <= TOP
    BY <2>1, <2>2, AcceptedForm
  <2> HIDE DEF areas
  <2>4. \A i \in 1..(Len(areas) + 1) : needs[i] \in Nat
    BY <2>2, <2>3
  <2> QED BY <2>1, <2>3, <2>4, MetLand
<1>3. ASSUME phase = "refused", build.kind = "areas"
      PROVE  ~WouldLand(values) \/ \E i \in DOMAIN values : NearlyReserved(values[i].name)
  <2>1. ~parse_areas(values).ok
    BY <1>3 DEF ImagesInv, Decided
  <2>2. values \in Seq(AreaSet)
    BY <1>1, <1>3
  <2> HIDE DEF values
  <2>3. WouldLand(values) =>
          /\ Links(linker_config(Sorted(values)), Filled(linker_config(Sorted(values))))
          /\ Lands(linker_config(Sorted(values)), Filled(linker_config(Sorted(values))))
    BY DEF WouldLand, Filled
  <2> QED BY <2>1, <2>2, <2>3, RefusedRightly
<1>4. ASSUME phase = "link error" PROVE Overflows(Config, needs)
  <2>1. /\ build.kind = "areas" /\ parse_areas(values).ok
        /\ Config = linker_config(parse_areas(values).areas) /\ ~Links(Config, needs)
    BY <1>4 DEF ImagesInv, Decided, Config
  <2>2. values \in Seq(AreaSet)
    BY <1>1, <2>1
  <2> HIDE DEF values, needs
  <2> QED BY <2>1, <2>2, AcceptedLinks
<1> QED BY <1>2, <1>3, <1>4 DEF AreasLand

\* The lists of areas that parse_areas accepts link, unless a segment is too
\* large, and ld65 and the KERNAL put them where they were asked for; those that
\* it refuses would not, but for names reserved in other letters.
THEOREM AreasLandHolds == ImagesSpec => []AreasLand
BY ImagesInvariance, AreasLandFollows, PTL
=============================================================================
