------------------------------ MODULE DiskBuilds ------------------------------
(***************************************************************************)
(* A disk image and what lies beside it, as several commands work on them  *)
(* at once: `c64 disk build` makes an image from a manifest in a staging   *)
(* directory and renames it over the old one (disk.py, build_disk), `c64   *)
(* package` writes a program, its labels and an image of it in place       *)
(* (packaging.py), `c64 disk put`, `rm` and `rename` change the image in   *)
(* place, and booting it looks for the label file of its program (ops.py,  *)
(* disk_labels_path).  Sources are edited and commands fail or are killed  *)
(* at any point.                                                           *)
(*                                                                         *)
(* A program is told by its source and the version of it that was built.   *)
(* The tools (ca65, ld65, petcat, c1541) are external: one run is a step.  *)
(***************************************************************************)
EXTENDS Naturals, Sequences, SequencesExt, FiniteSets

CONSTANTS
  Builders,      \* the commands at work
  Manifests,     \* sequences of [src |-> a source, name |-> a CBM name]
  Packaged,      \* sources that are packaged
  MaxVersion,    \* bound on the edits of a source
  MaxCommands,   \* bound on the builds of a behaviour
  TotalBlocks,   \* blocks of an empty image
  None           \* no such file

ASSUME BoundsAssumption == MaxVersion \in Nat /\ MaxCommands \in Nat /\ TotalBlocks \in Nat

VARIABLES
  version,  \* the sources as they are now
  image,    \* the disk image: its files, and the manifest it was built from
  prg, lbl, \* IMAGE.prg and IMAGE.lbl, of a package
  kept,     \* IMAGE.<cbm name>.lbl, of the entries of a build
  begun,    \* commands so far
  at,       \* where a command is
  job,      \* its manifest, or the program it packages
  k,        \* the entries it has dealt with
  work,     \* programs and labels in its working directory, by stem
  costs,    \* blocks the entries need, as measured
  staged,   \* the files of the image in its staging directory
  alone,    \* no one else has written since it began
  settled   \* the command that was the last to write, alone and with success

files == <<image, prg, lbl, kept>>
own == <<at, job, k, work, costs, staged>>
vars == <<version, files, begun, own, alone, settled>>

-----------------------------------------------------------------------------
(* Sources, programs, manifests.                                           *)

Sources == {"left.s", "right.s", "right.bas", "data"}
Stems == {"left", "right"}
Stem(src) == IF src = "left.s" THEN "left" ELSE "right"
Assembled(src) == src \in {"left.s", "right.s"}
Built(src) == src # "data"
Names == {"a", "b"}

Now(src) == [src |-> src, version |-> version[src]]

\* Data grows when it is edited.
blocks_for(content) == IF content.src = "data" THEN content.version ELSE 1

Total(numbers) == FoldSeq(+, 0, numbers)
Blocks(listing) == Total([i \in DOMAIN listing |-> blocks_for(listing[i].content)])
NamesOn(listing) == {listing[i].name : i \in DOMAIN listing}

\* load_disk_manifest refuses a name given twice.
Legal(m) == \A i, j \in DOMAIN m : m[i].name = m[j].name => i = j

\* No two entries are built under one name in the working directory.
Separate(m) ==
  \A i, j \in DOMAIN m :
    Built(m[i].src) /\ Built(m[j].src) /\ Stem(m[i].src) = Stem(m[j].src) => i = j

\* A manifest has a file; a missing one is no program.
ASSUME ManifestsAssumption ==
  /\ \A m \in Manifests : m \in Seq([src : Sources, name : Names]) /\ m # <<>>
  /\ Packaged \subseteq Sources
  /\ None \notin [src : Sources, version : Nat]

Empty == [s \in Stems |-> [prg |-> None, lbl |-> None]]
NoImage == [exists |-> FALSE, made |-> <<>>, files |-> <<>>]

Init ==
  /\ version = [s \in Sources |-> 1]
  /\ image = NoImage /\ prg = None /\ lbl = None
  /\ kept = [n \in Names |-> None]
  /\ begun = 0
  /\ at = [b \in Builders |-> "idle"] /\ job = [b \in Builders |-> <<>>]
  /\ k = [b \in Builders |-> 0]
  /\ work = [b \in Builders |-> Empty] /\ costs = [b \in Builders |-> <<>>]
  /\ staged = [b \in Builders |-> <<>>]
  /\ alone = [b \in Builders |-> FALSE] /\ settled = "no"

\* Someone edits a source.
Edit(src) ==
  /\ version[src] < MaxVersion
  /\ version' = [version EXCEPT ![src] = @ + 1]
  /\ UNCHANGED <<files, begun, own, alone, settled>>

\* b writes one of the files: nobody else has had them to himself.
Writes(b) ==
  /\ alone' = [c \in Builders |-> c = b /\ alone[c]]
  /\ settled' = "no"
WritesNothing == UNCHANGED <<files, alone, settled>>

Goes(b, step) == at' = [at EXCEPT ![b] = step]
Next1(b) == k' = [k EXCEPT ![b] = @ + 1]
Entry(b) == job[b][k[b] + 1]
More(b) == k[b] < Len(job[b])

\* A command is over: its temporary directories go with it.
Over(b) ==
  /\ Goes(b, "idle") /\ job' = [job EXCEPT ![b] = <<>>] /\ k' = [k EXCEPT ![b] = 0]
  /\ work' = [work EXCEPT ![b] = Empty] /\ costs' = [costs EXCEPT ![b] = <<>>]
  /\ staged' = [staged EXCEPT ![b] = <<>>]

\* A tool fails, or the command is killed, which leaves its temporary
\* directories behind for nobody to look at.
Fails(b) ==
  /\ at[b] # "idle" /\ Over(b)
  /\ WritesNothing /\ UNCHANGED <<version, begun>>

Begins(b, step, m) ==
  /\ at[b] = "idle" /\ begun < MaxCommands
  /\ begun' = begun + 1
  /\ Goes(b, step) /\ job' = [job EXCEPT ![b] = m]
  /\ alone' = [alone EXCEPT ![b] = TRUE]
  /\ UNCHANGED <<version, files, k, work, costs, staged, settled>>

-----------------------------------------------------------------------------
(* c64 disk build.                                                         *)

build_disk(b, m) == Legal(m) /\ Begins(b, "artifacts", m)

\* Mutant of Workdir: one working directory for all.
Workdir_Shared(b) == CHOOSE c \in Builders : TRUE

\* The temporary directory of a command is its own.
Workdir(b) == b

Artifact(b, e) == IF Built(e.src) THEN work[Workdir(b)][Stem(e.src)].prg ELSE Now(e.src)

\* An entry is built into the working directory, under the stem of its
\* source, or taken as it is; the blocks it needs are counted.
_manifest_artifact(b) ==
  /\ at[b] = "artifacts" /\ More(b)
  /\ LET e == Entry(b)
     IN  /\ work' = IF ~Built(e.src) THEN work
                    ELSE [work EXCEPT ![Workdir(b)][Stem(e.src)] =
                            [prg |-> Now(e.src),
                             lbl |-> IF Assembled(e.src) THEN Now(e.src) ELSE @.lbl]]
         /\ costs' = [costs EXCEPT ![b] = Append(@, blocks_for(Now(e.src)))]
  /\ Next1(b)
  /\ WritesNothing /\ UNCHANGED <<version, begun, at, job, staged>>

\* It fits: an empty image in the staging directory.
Formats(b) ==
  /\ at[b] = "artifacts" /\ ~More(b) /\ Total(costs[b]) <= TotalBlocks
  /\ Goes(b, "files") /\ k' = [k EXCEPT ![b] = 0]
  /\ staged' = [staged EXCEPT ![b] = <<>>]
  /\ WritesNothing /\ UNCHANGED <<version, begun, job, work, costs>>

\* It does not: nothing has been written.
Refused(b) ==
  /\ at[b] = "artifacts" /\ ~More(b) /\ Total(costs[b]) > TotalBlocks
  /\ Over(b) /\ WritesNothing /\ UNCHANGED <<version, begun>>

\* An entry is written to the image.  What has grown since and does not fit,
\* or cannot be read, is among Fails.
Puts(b) ==
  /\ at[b] = "files" /\ More(b) /\ Artifact(b, Entry(b)) # None
  /\ LET e == Entry(b)
         listing == Append(staged[b], [name |-> e.name, content |-> Artifact(b, e)])
     IN  Blocks(listing) <= TotalBlocks /\ staged' = [staged EXCEPT ![b] = listing]
  /\ Next1(b)
  /\ WritesNothing /\ UNCHANGED <<version, begun, at, job, work, costs>>

\* Mutant of Complete: the image is put in place with its first file.
Complete_First(b) == k[b] > 0

Complete(b) == ~More(b)

\* os.replace.
Swaps(b) ==
  /\ at[b] = "files" /\ Complete(b)
  /\ image' = [exists |-> TRUE, made |-> job[b], files |-> staged[b]]
  /\ Writes(b) /\ Goes(b, "labels") /\ k' = [k EXCEPT ![b] = 0]
  /\ UNCHANGED <<version, prg, lbl, kept, begun, job, work, costs, staged>>

\* Mutant of LabelsOf: the labels are those of the source as it is by now.
LabelsOf_Now(b, e) == Now(e.src)

LabelsOf(b, e) == work[Workdir(b)][Stem(e.src)].lbl

\* The labels of an assembled entry are copied beside the image.
Keeps(b) ==
  /\ at[b] = "labels" /\ More(b)
  /\ LET e == Entry(b)
     IN  IF Assembled(e.src) /\ LabelsOf(b, e) # None
         THEN kept' = [kept EXCEPT ![e.name] = LabelsOf(b, e)] /\ Writes(b)
         ELSE UNCHANGED <<kept, alone, settled>>
  /\ Next1(b)
  /\ UNCHANGED <<version, image, prg, lbl, begun, at, job, work, costs, staged>>

\* Success is reported.
Reports(b) ==
  /\ at[b] = "labels" /\ ~More(b)
  /\ settled' = IF alone[b] THEN "build" ELSE settled
  /\ Over(b) /\ UNCHANGED <<version, files, begun, alone>>

-----------------------------------------------------------------------------
(* c64 package, to a disk image.                                           *)

package_program(b, src) == Begins(b, "program", <<[src |-> src, name |-> "a"]>>)

\* IMAGE.prg is assembled or tokenized; an assembler writes IMAGE.lbl too.
Makes(b) ==
  /\ at[b] = "program"
  /\ LET src == Entry(b).src
     IN  prg' = Now(src) /\ lbl' = IF Assembled(src) THEN Now(src) ELSE lbl
  /\ Writes(b) /\ Goes(b, "format")
  /\ UNCHANGED <<version, image, kept, begun, job, k, work, costs, staged>>

create_image(b) ==
  /\ at[b] = "format"
  /\ image' = [exists |-> TRUE, made |-> <<>>, files |-> <<>>]
  /\ Writes(b) /\ Goes(b, "program file")
  /\ UNCHANGED <<version, prg, lbl, kept, begun, job, k, work, costs, staged>>

\* c1541 refuses a name that is on the image.
Places(b) ==
  /\ at[b] = "program file" /\ Entry(b).name \notin NamesOn(image.files)
  /\ image' = [exists |-> TRUE, made |-> <<>>,
               files |-> Append(image.files, [name |-> Entry(b).name, content |-> prg])]
  /\ Blocks(image'.files) <= TotalBlocks
  /\ alone' = [c \in Builders |-> c = b /\ alone[c]]
  /\ settled' = IF alone[b] THEN "package" ELSE "no"
  /\ Over(b) /\ UNCHANGED <<version, prg, lbl, kept, begun>>

-----------------------------------------------------------------------------
(* c64 disk put, rm and rename: one run of c1541 on the image itself.      *)

Changes(listing) ==
  /\ image' = [image EXCEPT !.files = listing, !.made = <<>>]
  /\ alone' = [c \in Builders |-> FALSE] /\ settled' = "no"
  /\ UNCHANGED <<version, prg, lbl, kept, begun, own>>

\* A file that does not fit is an error, and as much as fits is left behind.
put_file(src, name) ==
  /\ image.exists /\ name \notin NamesOn(image.files)
  /\ LET fits == Blocks(image.files) + blocks_for(Now(src)) <= TotalBlocks
     IN  Changes(Append(image.files,
           [name |-> name,
            content |-> IF fits THEN Now(src) ELSE [src |-> src, version |-> 0]]))

\* A wildcard scratches all that it matches; nothing scratched is an error.
delete_file(names) ==
  /\ image.exists /\ names \cap NamesOn(image.files) # {}
  /\ Changes(SelectSeq(image.files, LAMBDA f : f.name \notin names))

rename_file(old, new) ==
  /\ image.exists /\ old \in NamesOn(image.files) /\ new \notin NamesOn(image.files)
  /\ Changes([i \in DOMAIN image.files |->
                IF image.files[i].name = old THEN [image.files[i] EXCEPT !.name = new]
                ELSE image.files[i]])

-----------------------------------------------------------------------------
(* Booting: the labels that an image implies.                              *)

disk_labels_path ==
  IF lbl # None THEN lbl
  ELSE IF image.files = <<>> THEN None
  ELSE kept[image.files[1].name]

BuildSteps(b) ==
  \/ _manifest_artifact(b) \/ Formats(b) \/ Refused(b) \/ Puts(b) \/ Swaps(b)
  \/ Keeps(b) \/ Reports(b)
PackageSteps(b) == Makes(b) \/ create_image(b) \/ Places(b)

Next ==
  \/ \E src \in Sources : Edit(src)
  \/ \E b \in Builders :
       \/ \E m \in Manifests : build_disk(b, m)
       \/ \E src \in Packaged : package_program(b, src)
       \/ BuildSteps(b) \/ PackageSteps(b) \/ Fails(b)
  \/ put_file("data", "b")
  \/ \E names \in {{"a"}, Names} : delete_file(names)
  \/ rename_file("b", "a")

Spec == Init /\ [][Next]_vars

-----------------------------------------------------------------------------
(* What must hold.                                                         *)

\* An image that build_disk has put in place, and no command has changed in
\* place since, is whole: the files of one manifest, all of them, in its order,
\* however many builds fail, are killed, overlap, or meet sources that change.
WholeImages ==
  image.made # <<>> =>
    /\ Len(image.files) = Len(image.made)
    /\ \A i \in DOMAIN image.files : image.files[i].name = image.made[i].name

\* Each file of such an image is its own entry's program, and not another's;
\* entries that are built under one name are the subject of EntriesAreOwn.
SeparateEntriesAreOwn ==
  image.made # <<>> /\ Separate(image.made) =>
    \A i \in DOMAIN image.files : image.files[i].content.src = image.made[i].src

\* The labels beside the image are of the very program that is on it, and
\* booting it finds those of its first file, when a command that had the files
\* to itself has reported success.  Not told here: what it finds for a first
\* file without labels, and for a build beside the IMAGE.lbl of a package.
SymbolsAreOfImage ==
  /\ settled = "build" /\ Separate(image.made) =>
       /\ \A i \in DOMAIN image.files :
            Assembled(image.made[i].src) => kept[image.made[i].name] = image.files[i].content
       /\ lbl = None /\ Assembled(image.made[1].src) =>
            disk_labels_path = image.files[1].content
  /\ settled = "package" =>
       /\ Len(image.files) = 1
       /\ Assembled(image.files[1].content.src) => disk_labels_path = image.files[1].content

\* build_disk's docstring: "two assembled programs on one disk are separate
\* namespaces" - and each entry is the file that the manifest names.
EntriesAreOwn ==
  image.made # <<>> =>
    \A i \in DOMAIN image.files : image.files[i].content.src = image.made[i].src
=============================================================================
