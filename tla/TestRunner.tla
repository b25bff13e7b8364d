----------------------------- MODULE TestRunner -----------------------------
(***************************************************************************)
(* The test runner (testing.py): a suite of specs, one after the other.    *)
(* Each is validated, its artifact built and judged against its symbols,   *)
(* a machine of its own booted, the artifact started, the steps done       *)
(* fail-fast, the screen read and the machine stopped on every way out.    *)
(*                                                                         *)
(* A spec's steps are chosen one at a time, up to MaxSteps; its files are  *)
(* one artifact and one label file, whose dates differ by `age` (labels    *)
(* minus artifact).  Memory is one word of which a byte is the low digit.  *)
(***************************************************************************)
EXTENDS Integers

CONSTANTS
  MaxTests,  \* specs in the suite
  MaxSteps,  \* steps of a spec
  Grace,     \* _LABELS_GRACE
  Spread,    \* how far apart labels and artifact may be dated
  NoLabels   \* there is no label file

ASSUME RunnerAssumption ==
  /\ MaxTests \in Nat /\ MaxSteps \in Nat /\ Grace \in Nat /\ Spread \in Nat
  /\ NoLabels \notin Int

Ages == -Spread..Spread

VARIABLES
  pc,        \* where the runner stands
  test,      \* number of the spec being run
  spec,      \* what it names
  allow,     \* allow_stale
  age,       \* the artifact's label file: its date, or NoLabels
  touched,   \* another command has written one of the two since the judgement
  warned,    \* warnings of this test are not empty
  labels,    \* does the test resolve symbols against the label file?
  machine,   \* the test's machine: "none", "boot", "ready", "loading", "up"
  cpu,       \* "running" or "stopped"
  mem,       \* the word the program counts in
  parked,    \* the last until or call of the test has left the CPU stopped
  captures,  \* the sample the test has recorded: a value and its width
  done,      \* steps done
  passed,    \* no step has failed
  verdict    \* of the suite: "open", "passed", "failed", "raised"

machineVars == <<machine, cpu, mem, parked>>
fileVars == <<age, touched>>
suiteVars == <<test, spec, allow>>
runVars == <<warned, labels, captures, done, passed>>
vars == <<pc, machineVars, fileVars, suiteVars, runVars, verdict>>

Specs == [program : {"none", ".prg", ".bas", ".s", "other"},
          cart : {"none", ".crt", "source", "other"},
          disk : {"none", "image", "manifest", "other"},
          areas : {"none", "linkable", "unlinkable", "text"},
          autorun : BOOLEAN]

Words == 0..3
Read(width) == IF width = 1 THEN mem % 2 ELSE mem

Places == {"idle", "check", "disk", "prg", "cart", "launch", "gate", "start",
           "loading", "steps", "waiting", "until", "screen", "finally", "abort"}

TypeOK ==
  /\ pc \in Places /\ test \in 0..MaxTests /\ spec \in Specs /\ allow \in BOOLEAN
  /\ age \in Ages \cup {NoLabels} /\ touched \in BOOLEAN
  /\ warned \in BOOLEAN /\ labels \in BOOLEAN
  /\ machine \in {"none", "boot", "ready", "loading", "up"}
  /\ cpu \in {"running", "stopped"} /\ mem \in Words /\ parked \in BOOLEAN
  /\ captures \in ([value : Words, width : {1, 2}] \cup {[width |-> 0]})
  /\ captures.width = 1 => captures.value < 2
  /\ done \in 0..MaxSteps /\ passed \in BOOLEAN
  /\ verdict \in {"open", "passed", "failed", "raised"}

Blank == [program |-> "none", cart |-> "none", disk |-> "none", areas |-> "none",
          autorun |-> TRUE]

Init ==
  /\ pc = "idle" /\ test = 0 /\ spec = Blank /\ allow = FALSE
  /\ age = NoLabels /\ touched = FALSE /\ warned = FALSE /\ labels = FALSE
  /\ machine = "none" /\ cpu = "running" /\ mem = 0 /\ parked = FALSE
  /\ captures = [width |-> 0] /\ done = 0 /\ passed = TRUE /\ verdict = "open"

-----------------------------------------------------------------------------
(* What a spec may say.                                                    *)

Has(s, key) == s[key] /= "none"

\* areas: is only for a linked program.
AreasConflict(s) == Has(s, "areas") /\ (s.areas = "text" \/ s.program /= ".s")

\* _reject_spec_conflicts: one boot source.
Conflict(s) ==
  \/ Has(s, "cart") /\ Has(s, "program")
  \/ AreasConflict(s)
  \/ Has(s, "disk") /\ (Has(s, "program") \/ Has(s, "cart"))

\* is_cart_spec, is_disk_spec, program_test: a program beside an image is its
\* source and not a second thing to start.
Promoted(s, source) ==
  IF Has(s, "cart") \/ Has(s, "disk") THEN s ELSE [s EXCEPT !.program = source]

\* An image is expected to be dated after its labels, whenever that was.
StaleDisk(a) == a /= NoLabels /\ a > 0

\* A ready-made pair is expected to have been written together.
FarApart(a) == a /= NoLabels /\ (a > Grace \/ -a > Grace)

\* The ready-made artifact of s and its label file tell of different programs.
Stale(s, a) ==
  \/ s.disk = "image" /\ StaleDisk(a)
  \/ s.program = ".prg" /\ FarApart(a)
  \/ s.cart = ".crt" /\ FarApart(a)

-----------------------------------------------------------------------------
Goes(place) == pc' = place

\* An exception: the machine, if there is one, is stopped first.
Raise == Goes(IF machine = "none" THEN "abort" ELSE "finally") /\ verdict' = "raised"

Kept == UNCHANGED <<machineVars, fileVars, suiteVars, labels, captures, done, passed>>

\* load_test's specs are validated; program_test adds the directory's program.
Synthesized ==
  {Promoted(s, source) : s \in {k \in Specs : ~Conflict(k) /\ ~Has(k, "program")},
                         source \in {"none", ".bas", ".s"}}

\* The next spec of the suite: a validated one, or one that a caller has put
\* together by hand.
NextTest ==
  /\ pc = "idle" /\ test < MaxTests
  /\ test' = test + 1
  /\ \/ spec' \in Synthesized
     \/ spec' \in Specs
  /\ allow' \in BOOLEAN /\ age' \in Ages \cup {NoLabels}
  /\ Goes("check")
  /\ UNCHANGED <<machineVars, touched, runVars, verdict>>

\* load_test refuses it: a conflict, a file that is not there, a bad step.
Unloadable ==
  /\ pc = "idle" /\ test < MaxTests
  /\ Raise
  /\ UNCHANGED warned /\ Kept

\* run_test: the conflicts once more, and parse_areas.
Check ==
  /\ pc = "check"
  /\ IF Conflict(spec) \/ spec.areas = "unlinkable"
     THEN Raise
     ELSE Goes("disk") /\ UNCHANGED verdict
  /\ UNCHANGED warned /\ Kept

\* Mutant of Gate: waived without a word.
Gate_Quiet(stale, next) ==
  /\ IF stale /\ ~allow THEN Raise ELSE Goes(next) /\ UNCHANGED verdict
  /\ UNCHANGED warned

\* _gate_stale: refused, or warned of.
Gate(stale, next) ==
  /\ IF stale /\ ~allow THEN Raise ELSE Goes(next) /\ UNCHANGED verdict
  /\ warned' = (warned \/ stale)

\* prepare_disk, and the image's date against its labels'.  An image that is
\* built now is younger than any label file beside it.
PrepareDisk ==
  /\ pc = "disk"
  /\ IF spec.disk = "other"
     THEN Raise /\ UNCHANGED <<age, warned>>
     ELSE /\ Gate(spec.disk = "image" /\ StaleDisk(age), "prg")
          /\ IF spec.disk = "manifest" /\ age /= NoLabels
             THEN age' \in {a \in Ages : a <= 0}
             ELSE UNCHANGED age
  /\ UNCHANGED <<machineVars, touched, suiteVars, labels, captures, done, passed>>

\* The pair of a ready-made program.
JudgeProgram ==
  /\ pc = "prg"
  /\ Gate(spec.program = ".prg" /\ FarApart(age), "cart")
  /\ Kept

\* prepare_cart: a ready-made cartridge and its pair, or one that is built
\* with its labels.
PrepareCart ==
  /\ pc = "cart"
  /\ IF spec.cart = "other"
     THEN Raise /\ UNCHANGED <<age, warned>>
     ELSE /\ Gate(spec.cart = ".crt" /\ FarApart(age), "launch")
          /\ age' = IF spec.cart = "source" THEN 0 ELSE age
  /\ UNCHANGED <<machineVars, touched, suiteVars, labels, captures, done, passed>>

\* A file is missing, a build fails, an emulator cannot be launched.
Breaks ==
  /\ pc \in {"disk", "prg", "cart", "launch"}
  /\ Raise
  /\ UNCHANGED warned /\ Kept

\* Another command rewrites the artifact or its labels, or removes these.
Rewrite ==
  /\ pc \in {"launch", "gate", "start"} /\ ~touched
  /\ touched' = TRUE
  /\ age' \in Ages \cup {NoLabels}
  /\ UNCHANGED <<pc, machineVars, suiteVars, runVars, verdict>>

-----------------------------------------------------------------------------
(* The machine.                                                            *)

\* launch(): a session of the test's own, with the image on board.
Launch ==
  /\ pc = "launch"
  /\ machine' = "boot" /\ cpu' = "running" /\ mem' = 0 /\ parked' = FALSE
  /\ Goes(IF Has(spec, "cart") THEN "start" ELSE "gate")
  /\ UNCHANGED <<fileVars, suiteVars, runVars, verdict>>

\* The boot comes to its READY., a started file to its end.
MachineReady ==
  /\ machine \in {"boot", "loading"}
  /\ machine' = IF machine = "boot" THEN "ready" ELSE "up"
  /\ UNCHANGED <<pc, cpu, mem, parked, fileVars, suiteVars, runVars, verdict>>

\* The program counts, as long as the CPU runs.
Program ==
  /\ machine = "up" /\ cpu = "running"
  /\ mem' = (mem + 1) % 4
  /\ UNCHANGED <<pc, machine, cpu, parked, fileVars, suiteVars, runVars, verdict>>

\* _wait_screen: READY. within 45 s.  A cartridge waits for nothing.
ReadyGate ==
  /\ pc = "gate" /\ machine = "ready"
  /\ Goes("start")
  /\ UNCHANGED <<machineVars, fileVars, suiteVars, runVars, verdict>>

\* A ready-made or built artifact that has a label file now brings its
\* symbols; _prepare builds a .s with its labels and a .bas without.
Resolves ==
  CASE Has(spec, "cart") \/ Has(spec, "disk") \/ spec.program = ".prg" -> age /= NoLabels
    [] spec.program = ".s" -> TRUE
    [] OTHER -> FALSE

\* The labels are loaded and the disk's first file or the program started.
Start ==
  /\ pc = "start" /\ spec.program /= "other"
  /\ labels' = Resolves
  /\ machine' = CASE Has(spec, "cart") -> "up"
                  [] Has(spec, "disk") \/ Has(spec, "program") -> "loading"
                  [] OTHER -> machine
  /\ Goes(IF machine' = "loading" /\ ~spec.autorun THEN "loading" ELSE "steps")
  /\ age' = IF spec.program = ".s" THEN 0 ELSE age
  /\ UNCHANGED <<cpu, mem, parked, touched, suiteVars, warned, captures, done, passed, verdict>>

\* _prepare cannot run the program: known once the machine is up.
CannotRun ==
  /\ pc = "start" /\ spec.program = "other"
  /\ Raise
  /\ UNCHANGED warned /\ Kept

\* Only a load that nothing runs after is waited for.
LoadGate ==
  /\ pc = "loading" /\ machine = "up"
  /\ Goes("steps")
  /\ UNCHANGED <<machineVars, fileVars, suiteVars, runVars, verdict>>

\* A gate runs into its deadline.
GateExpires ==
  /\ pc \in {"gate", "loading"}
  /\ Raise
  /\ UNCHANGED warned /\ Kept

\* A step names what is not there, VICE or the daemon fails, the user
\* interrupts.
Exception ==
  /\ pc \in {"gate", "start", "loading", "steps", "waiting", "until", "screen"}
  /\ Raise
  /\ UNCHANGED warned /\ Kept

-----------------------------------------------------------------------------
(* The steps: _do_step, each ending in a release that restores the CPU's   *)
(* state but for until and call.                                           *)

Stepping == pc = "steps" /\ passed /\ done < MaxSteps

\* The step is over; the first that fails is the last.
StepEnds(ok) ==
  /\ done' = done + 1
  /\ passed' = ok
  /\ Goes(IF ok THEN "steps" ELSE "screen")
  /\ UNCHANGED <<fileVars, suiteVars, warned, labels, verdict>>

\* Mutant of Poke: the machine is resumed, not released.
Poke_Resumes ==
  /\ Stepping
  /\ mem' \in Words
  /\ cpu' = "running"
  /\ StepEnds(TRUE)
  /\ UNCHANGED <<machine, parked, captures>>

\* poke.
Poke ==
  /\ Stepping
  /\ mem' \in Words
  /\ StepEnds(TRUE)
  /\ UNCHANGED <<machine, cpu, parked, captures>>

\* sample: the value at its width.
Sample ==
  /\ Stepping
  /\ \E width \in {1, 2} : captures' = [value |-> Read(width), width |-> width]
  /\ StepEnds(TRUE)
  /\ UNCHANGED machineVars

\* differs, unchanged, greater_than, less_than: read at the sample's width.
Holds(op, a, b) ==
  CASE op = "differs" -> a /= b
    [] op = "unchanged" -> a = b
    [] op = "greater_than" -> a > b
    [] op = "less_than" -> a < b

\* assert against a sample, which may not have been recorded.
Compare ==
  /\ Stepping
  /\ \E op \in {"differs", "unchanged", "greater_than", "less_than"} :
       StepEnds(captures.width /= 0 /\ Holds(op, Read(captures.width), captures.value))
  /\ UNCHANGED <<machineVars, captures>>

\* key, and an assert of memory, a register or the screen.
Observe ==
  /\ Stepping
  /\ \E ok \in BOOLEAN : StepEnds(ok)
  /\ UNCHANGED <<machineVars, captures>>

\* wait: polled until it holds or its time is over.  Text, memory and idleness
\* are the running program's to produce.
Wait ==
  /\ Stepping
  /\ Goes("waiting")
  /\ UNCHANGED <<machineVars, fileVars, suiteVars, runVars, verdict>>

\* Mutant of WaitOver: the poll goes on until the program has got there.
WaitOver_Patient ==
  /\ pc = "waiting" /\ cpu = "running"
  /\ StepEnds(TRUE)
  /\ UNCHANGED <<machineVars, captures>>

\* The poll has seen it, or its deadline is over.
WaitOver ==
  /\ pc = "waiting"
  /\ \E ok \in BOOLEAN : StepEnds(ok)
  /\ UNCHANGED <<machineVars, captures>>

\* until and call resume the machine ...
Until ==
  /\ Stepping
  /\ cpu' = "running" /\ parked' = FALSE
  /\ Goes("until")
  /\ UNCHANGED <<machine, mem, fileVars, suiteVars, runVars, verdict>>

\* ... and leave it stopped at the place or the trap, or running.
UntilOver ==
  /\ pc = "until"
  /\ \E ok \in BOOLEAN :
       /\ cpu' = IF ok THEN "stopped" ELSE "running"
       /\ parked' = ok
       /\ StepEnds(ok)
  /\ UNCHANGED <<machine, mem, captures>>

\* All steps are done.
LastStep ==
  /\ pc = "steps"
  /\ Goes("screen")
  /\ UNCHANGED <<machineVars, fileVars, suiteVars, runVars, verdict>>

\* The screen is read for the result, ...
Screen ==
  /\ pc = "screen"
  /\ Goes("finally")
  /\ verdict' = IF passed THEN verdict ELSE "failed"
  /\ UNCHANGED <<machineVars, fileVars, suiteVars, runVars>>

\* What a test knows ends with it.
Forgotten ==
  /\ spec' = Blank /\ allow' = FALSE /\ age' = NoLabels /\ touched' = FALSE
  /\ warned' = FALSE /\ labels' = FALSE
  /\ captures' = [width |-> 0] /\ done' = 0 /\ passed' = TRUE
  /\ cpu' = "running" /\ mem' = 0 /\ parked' = FALSE

\* ... and session.stop() ends the machine whatever has happened.
Stop ==
  /\ pc = "finally"
  /\ machine' = "none"
  /\ Forgotten
  /\ Goes(IF verdict = "raised" THEN "abort" ELSE "idle")
  /\ UNCHANGED <<test, verdict>>

\* test programs: the exit status.
SuiteOver ==
  /\ pc = "idle" /\ test > 0
  /\ Goes("abort")
  /\ verdict' = IF verdict = "open" THEN "passed" ELSE verdict
  /\ UNCHANGED <<machineVars, fileVars, suiteVars, runVars>>

Prepare == NextTest \/ Check \/ PrepareDisk \/ JudgeProgram \/ PrepareCart
Boot == Launch \/ ReadyGate \/ Start \/ CannotRun \/ LoadGate \/ GateExpires
Step == Poke \/ Sample \/ Compare \/ Observe \/ Wait \/ WaitOver \/ Until \/ UntilOver \/ LastStep
Finish == Screen \/ Stop \/ SuiteOver
Fails == Unloadable \/ Breaks \/ Exception

Next == Prepare \/ Boot \/ Step \/ Finish \/ Fails \/ MachineReady \/ Program \/ Rewrite

Spec == Init /\ [][Next]_vars

\* The runner goes on: each of its gates and waits has a deadline.
FairSpec == Spec /\ WF_vars(Prepare \/ Boot \/ Step \/ Finish)

-----------------------------------------------------------------------------
(* What must hold.                                                         *)

\* A machine never outlives its test: the suite goes on, or ends, without one.
MachineEndsWithTest == pc \in {"idle", "abort", "check"} => machine = "none"

\* A spec that contradicts itself, or whose artifact and labels disagree, is
\* refused before a machine is booted for it; a disagreement that is waived is
\* warned of.
RefusedBeforeBoot ==
  machine /= "none" /\ ~touched =>
    /\ ~Conflict(spec)
    /\ Stale(spec, age) => allow /\ warned

\* After an until or a call the machine is where that step left it, whatever
\* steps have come between: the next assert reads the state of the stop.
StopIsKept == parked /\ passed => cpu = "stopped"

\* Whatever the machine does, each test comes to an end, and so does the suite:
\* a wait on a CPU that an until has stopped, too.
SuiteEnds == <>(pc = "abort")
=============================================================================
