--------------------------- MODULE TestRunnerProofs ---------------------------
(* Safety of the test runner: suites and specs of any length, any grace and  *)
(* any spread of the files' dates.                                           *)
EXTENDS TestRunner, TLAPS

\* Before a machine is booted for the spec, and with one.
Preparing == {"disk", "prg", "cart", "launch"}
Running == {"gate", "start", "loading", "steps", "waiting", "until", "screen", "finally"}

Waived == allow /\ warned

\* What has been judged on the way to the boot: the image first, then the
\* program, then the cartridge.
JudgedDisk == pc \in {"prg", "cart", "launch"} => (spec.disk = "image" /\ StaleDisk(age) => Waived)
JudgedProgram == pc \in {"cart", "launch"} => (spec.program = ".prg" /\ FarApart(age) => Waived)
JudgedAll == pc \in {"launch"} \cup Running => (Stale(spec, age) => Waived)

MachineIffRunning == machine = "none" <=> pc \notin Running

NoConflict == pc \in Preparing \cup Running => ~Conflict(spec)

ParkedIsStopped == parked => cpu = "stopped"

\* The inductive invariant: the machine is there exactly from its launch to its
\* stop, and what the spec names has been judged unless another command has
\* rewritten it since.
RunnerInv ==
  /\ MachineIffRunning
  /\ NoConflict
  /\ ~touched => JudgedDisk /\ JudgedProgram /\ JudgedAll
  /\ ParkedIsStopped

-----------------------------------------------------------------------------
(* Which of a spec's artifacts is judged.                                    *)

\* One boot source: what is built has no ready-made artifact beside it.
LEMMA OneSource ==
  ASSUME NEW s, ~Conflict(s), NEW a
  PROVE  /\ s.cart = "source" => ~Stale(s, a)
         /\ s.program = ".s" => ~Stale(s, a)
BY DEF Conflict, Has, Stale

\* An exception leaves the machine, if there is one, to the stop.
LEMMA RaiseKeeps ==
  ASSUME RunnerInv, Raise, UNCHANGED <<machine, cpu, parked, touched, spec>>,
         pc \in Running => UNCHANGED <<age, allow, warned>>
  PROVE  RunnerInv'
<1>1. pc' = IF machine = "none" THEN "abort" ELSE "finally"
  BY DEF Raise, Goes
<1>2. CASE machine = "none"
  <2>1. pc' = "abort" /\ machine' = "none"
    BY <1>1, <1>2
  <2>2. MachineIffRunning' /\ NoConflict' /\ JudgedDisk' /\ JudgedProgram' /\ JudgedAll'
    BY <2>1 DEF MachineIffRunning, NoConflict, JudgedDisk, JudgedProgram, JudgedAll, Preparing, Running
  <2>3. ParkedIsStopped'
    BY DEF RunnerInv, ParkedIsStopped
  <2>4. QED
    BY <2>2, <2>3 DEF RunnerInv
<1>3. CASE machine /= "none"
  <2>1. pc' = "finally" /\ pc \in Running /\ machine' = machine
    BY <1>1, <1>3 DEF RunnerInv, MachineIffRunning
  <2>2. MachineIffRunning' /\ JudgedDisk' /\ JudgedProgram'
    BY <1>3, <2>1 DEF MachineIffRunning, JudgedDisk, JudgedProgram, Running
  <2>3. NoConflict'
    BY <2>1 DEF RunnerInv, NoConflict
  <2>4. ~touched' => JudgedAll'
    BY <2>1 DEF RunnerInv, JudgedAll, Waived
  <2>5. ParkedIsStopped'
    BY DEF RunnerInv, ParkedIsStopped
  <2>6. QED
    BY <2>2, <2>3, <2>4, <2>5 DEF RunnerInv
<1>4. QED
  BY <1>2, <1>3

\* A step of the runner with its machine, from one of its places to another.
LEMMA RunningKeeps ==
  ASSUME RunnerInv, pc \in Running, pc' \in Running, machine' /= "none",
         UNCHANGED <<touched, spec, allow, warned, age>>, ParkedIsStopped'
  PROVE  RunnerInv'
<1>1. MachineIffRunning' /\ JudgedDisk' /\ JudgedProgram'
  BY DEF MachineIffRunning, JudgedDisk, JudgedProgram, Running
<1>2. NoConflict'
  BY DEF RunnerInv, NoConflict
<1>3. ~touched' => JudgedAll'
  BY DEF RunnerInv, JudgedAll, Waived
<1>4. QED
  BY <1>1, <1>2, <1>3 DEF RunnerInv

-----------------------------------------------------------------------------
LEMMA RunnerInvInit == Init => RunnerInv
BY DEF Init, RunnerInv, MachineIffRunning, NoConflict, JudgedDisk, JudgedProgram, JudgedAll,
       ParkedIsStopped, Preparing, Running

LEMMA PrepareKeeps ==
  ASSUME RunnerInv, Prepare
  PROVE  RunnerInv'
<1>1. ParkedIsStopped' /\ machine' = machine /\ touched' = touched
  BY DEF RunnerInv, ParkedIsStopped, Prepare, NextTest, Check, PrepareDisk, JudgeProgram,
         PrepareCart, Kept, machineVars, fileVars
<1>2. machine = "none"
  BY DEF RunnerInv, MachineIffRunning, Running, Prepare, NextTest, Check, PrepareDisk,
         JudgeProgram, PrepareCart
<1>3. CASE NextTest
  <2>1. pc' = "check"
    BY <1>3 DEF NextTest, Goes
  <2>2. QED
    BY <1>1, <1>2, <2>1 DEF RunnerInv, MachineIffRunning, NoConflict, JudgedDisk, JudgedProgram,
                            JudgedAll, Preparing, Running
<1>4. CASE Raise /\ ~NextTest
  <2>1. pc \notin Running
    BY <1>2 DEF RunnerInv, MachineIffRunning
  <2>2. UNCHANGED <<cpu, parked, spec>>
    BY <1>4 DEF Prepare, Check, PrepareDisk, JudgeProgram, PrepareCart, Kept, machineVars, suiteVars
  <2>3. QED
    BY <1>1, <1>4, <2>1, <2>2, RaiseKeeps
<1>5. CASE Check /\ ~Raise
  <2>1. pc' = "disk" /\ ~Conflict(spec) /\ spec' = spec
    BY <1>5 DEF Check, Goes, Kept, suiteVars
  <2>2. QED
    BY <1>1, <1>2, <2>1 DEF RunnerInv, MachineIffRunning, NoConflict, JudgedDisk, JudgedProgram,
                            JudgedAll, Preparing, Running
<1>6. CASE PrepareDisk /\ ~Raise
  <2>1. pc = "disk" /\ pc' = "prg" /\ spec' = spec /\ allow' = allow
    BY <1>6 DEF PrepareDisk, Gate, Goes, suiteVars
  <2>2. ASSUME spec.disk = "image", StaleDisk(age')
        PROVE  allow' /\ warned'
    <3>1. age' = age
      BY <1>6, <2>2 DEF PrepareDisk
    <3>2. Gate(TRUE, "prg")
      BY <1>6, <2>2, <3>1 DEF PrepareDisk
    <3>3. QED
      BY <1>6, <2>1, <3>2 DEF Gate
  <2>3. ~Conflict(spec)
    BY <2>1 DEF RunnerInv, NoConflict, Preparing
  <2>4. QED
    BY <1>1, <1>2, <2>1, <2>2, <2>3
       DEF RunnerInv, MachineIffRunning, NoConflict, JudgedDisk, JudgedProgram, JudgedAll, Preparing,
           Running, Waived, StaleDisk
<1>7. CASE JudgeProgram /\ ~Raise
  <2>1. pc = "prg" /\ pc' = "cart" /\ spec' = spec /\ allow' = allow /\ age' = age
    BY <1>7 DEF JudgeProgram, Gate, Goes, Kept, suiteVars, fileVars
  <2>2. warned => warned'
    BY <1>7 DEF JudgeProgram, Gate
  <2>3. ASSUME spec.program = ".prg", FarApart(age)
        PROVE  allow' /\ warned'
    <3>1. Gate(TRUE, "cart")
      BY <1>7, <2>3 DEF JudgeProgram
    <3>2. QED
      BY <1>7, <2>1, <3>1 DEF Gate
  <2>4. ~Conflict(spec)
    BY <2>1 DEF RunnerInv, NoConflict, Preparing
  <2>5. JudgedProgram' /\ JudgedAll' /\ NoConflict' /\ MachineIffRunning'
    BY <1>1, <1>2, <2>1, <2>3, <2>4
       DEF MachineIffRunning, NoConflict, JudgedProgram, JudgedAll, Running, Waived, FarApart
  <2>6. ~touched' => JudgedDisk'
    BY <1>1, <2>1, <2>2 DEF RunnerInv, JudgedDisk, Waived, StaleDisk
  <2>7. QED
    BY <1>1, <2>5, <2>6 DEF RunnerInv
<1>8. CASE PrepareCart /\ ~Raise
  <2>1. pc = "cart" /\ pc' = "launch" /\ spec' = spec /\ allow' = allow
    BY <1>8 DEF PrepareCart, Gate, Goes, suiteVars
  <2>2. warned => warned'
    BY <1>8 DEF PrepareCart, Gate
  <2>3. ~Conflict(spec)
    BY <2>1 DEF RunnerInv, NoConflict, Preparing
  <2>4. NoConflict' /\ MachineIffRunning'
    BY <1>1, <1>2, <2>1, <2>3 DEF MachineIffRunning, NoConflict, Running
  <2>5. CASE spec.cart = "source"
    <3>1. spec.disk = "none" /\ spec.program = "none" /\ spec.cart /= ".crt"
      BY <2>3, <2>5 DEF Conflict, Has
    <3>2. JudgedDisk' /\ JudgedProgram' /\ JudgedAll'
      BY <2>1, <3>1 DEF JudgedDisk, JudgedProgram, JudgedAll, Stale
    <3>3. QED
      BY <1>1, <2>4, <3>2 DEF RunnerInv
  <2>6. CASE spec.cart /= "source"
    <3>1. age' = age
      BY <1>8, <2>6 DEF PrepareCart
    <3>2. ASSUME spec.cart = ".crt", FarApart(age)
          PROVE  allow' /\ warned'
      <4>1. Gate(TRUE, "launch")
        BY <1>8, <3>2 DEF PrepareCart
      <4>2. QED
        BY <1>8, <2>1, <4>1 DEF Gate
    <3>3. ~touched => JudgedDisk' /\ JudgedProgram'
      BY <2>1, <2>2, <3>1 DEF RunnerInv, JudgedDisk, JudgedProgram, Waived, StaleDisk, FarApart
    <3>4. ~touched => JudgedAll'
      BY <2>1, <2>2, <3>1, <3>2 DEF RunnerInv, JudgedDisk, JudgedProgram, JudgedAll, Waived, Stale
    <3>5. QED
      BY <1>1, <2>4, <3>3, <3>4 DEF RunnerInv
  <2>7. QED
    BY <2>5, <2>6
<1>9. QED
  BY <1>3, <1>4, <1>5, <1>6, <1>7, <1>8 DEF Prepare

LEMMA BootKeeps ==
  ASSUME RunnerInv, Boot
  PROVE  RunnerInv'
<1>1. CASE Launch
  <2>1. /\ pc = "launch" /\ pc' \in {"start", "gate"} /\ machine' /= "none" /\ parked' = FALSE
        /\ UNCHANGED <<touched, age, spec, allow, warned>>
    BY <1>1 DEF Launch, Goes, fileVars, suiteVars, runVars
  <2>2. MachineIffRunning' /\ JudgedDisk' /\ JudgedProgram' /\ ParkedIsStopped'
    BY <2>1 DEF MachineIffRunning, JudgedDisk, JudgedProgram, ParkedIsStopped, Running
  <2>3. NoConflict'
    BY <2>1 DEF RunnerInv, NoConflict, Preparing
  <2>4. ~touched' => JudgedAll'
    BY <2>1 DEF RunnerInv, JudgedAll, Waived
  <2>5. QED
    BY <2>2, <2>3, <2>4 DEF RunnerInv
<1>2. CASE ReadyGate \/ LoadGate
  <2>1. /\ pc \in Running /\ pc' \in Running /\ machine' = machine
        /\ UNCHANGED <<touched, spec, allow, warned, age, parked, cpu>>
    BY <1>2 DEF ReadyGate, LoadGate, Goes, Running, machineVars, fileVars, suiteVars, runVars
  <2>2. machine' /= "none"
    BY <2>1 DEF RunnerInv, MachineIffRunning
  <2>3. ParkedIsStopped'
    BY <2>1 DEF RunnerInv, ParkedIsStopped
  <2>4. QED
    BY <2>1, <2>2, <2>3, RunningKeeps
<1>3. CASE Start
  <2>1. /\ pc \in Running /\ pc' \in {"loading", "steps"}
        /\ UNCHANGED <<touched, spec, allow, warned, parked, cpu>>
    BY <1>3 DEF Start, Goes, Running, suiteVars
  <2>2. machine /= "none"
    BY <2>1 DEF RunnerInv, MachineIffRunning
  <2>3. machine' /= "none"
    BY <1>3, <2>2 DEF Start
  <2>4. MachineIffRunning' /\ JudgedDisk' /\ JudgedProgram'
    BY <2>1, <2>3 DEF MachineIffRunning, JudgedDisk, JudgedProgram, Running
  <2>5. NoConflict' /\ ParkedIsStopped'
    BY <2>1 DEF RunnerInv, NoConflict, ParkedIsStopped
  <2>6. ~touched' => JudgedAll'
    <3>1. ~Conflict(spec)
      BY <2>1 DEF RunnerInv, NoConflict
    <3>2. CASE spec.program = ".s"
      <4>1. ~Stale(spec, age')
        BY <3>1, <3>2, OneSource
      <4>2. ~Stale(spec', age')
        BY <2>1, <4>1
      <4>3. QED
        BY <4>2 DEF JudgedAll
    <3>3. CASE spec.program /= ".s"
      <4>1. age' = age
        BY <1>3, <3>3 DEF Start
      <4>2. QED
        BY <2>1, <4>1 DEF RunnerInv, JudgedAll, Waived
    <3>4. QED
      BY <3>2, <3>3
  <2>7. QED
    BY <2>4, <2>5, <2>6 DEF RunnerInv
<1>4. CASE CannotRun \/ GateExpires
  BY <1>4, RaiseKeeps DEF CannotRun, GateExpires, Kept, machineVars, fileVars, suiteVars
<1>5. QED
  BY <1>1, <1>2, <1>3, <1>4 DEF Boot

\* No step lets the CPU run on after an until or a call, but the next of them.
LEMMA StepKeeps ==
  ASSUME RunnerInv, Step
  PROVE  RunnerInv'
<1>1. UNCHANGED <<machine, touched, spec, allow, warned, age>>
  BY DEF Step, Poke, Sample, Compare, Observe, Wait, WaitOver, Until, UntilOver, LastStep, StepEnds,
         machineVars, fileVars, suiteVars, runVars
<1>2. pc \in Running /\ pc' \in Running
  BY DEF Step, Poke, Sample, Compare, Observe, Wait, WaitOver, Until, UntilOver, LastStep, StepEnds,
         Stepping, Goes, Running
<1>3. machine' /= "none"
  BY <1>1, <1>2 DEF RunnerInv, MachineIffRunning
<1>4. ParkedIsStopped'
  <2>1. CASE Until \/ UntilOver
    BY <2>1 DEF Until, UntilOver, ParkedIsStopped
  <2>2. CASE ~(Until \/ UntilOver)
    <3>1. UNCHANGED <<cpu, parked>>
      BY <2>2 DEF Step, Poke, Sample, Compare, Observe, Wait, WaitOver, LastStep, machineVars
    <3>2. QED
      BY <3>1 DEF RunnerInv, ParkedIsStopped
  <2>3. QED
    BY <2>1, <2>2
<1>5. QED
  BY <1>1, <1>2, <1>3, <1>4, RunningKeeps

LEMMA FinishKeeps ==
  ASSUME RunnerInv, Finish
  PROVE  RunnerInv'
<1>1. CASE Screen
  <2>1. /\ pc \in Running /\ pc' \in Running
        /\ UNCHANGED <<machine, touched, spec, allow, warned, age, parked, cpu>>
    BY <1>1 DEF Screen, Goes, Running, machineVars, fileVars, suiteVars, runVars
  <2>2. machine' /= "none" /\ ParkedIsStopped'
    BY <2>1 DEF RunnerInv, MachineIffRunning, ParkedIsStopped
  <2>3. QED
    BY <2>1, <2>2, RunningKeeps
<1>2. CASE Stop
  <2>1. pc' \in {"abort", "idle"} /\ machine' = "none" /\ parked' = FALSE
    BY <1>2 DEF Stop, Forgotten, Goes
  <2>2. QED
    BY <2>1 DEF RunnerInv, MachineIffRunning, NoConflict, JudgedDisk, JudgedProgram, JudgedAll,
                ParkedIsStopped, Preparing, Running
<1>3. CASE SuiteOver
  <2>1. pc = "idle" /\ pc' = "abort" /\ UNCHANGED <<machine, parked, cpu>>
    BY <1>3 DEF SuiteOver, Goes, machineVars
  <2>2. QED
    BY <2>1 DEF RunnerInv, MachineIffRunning, NoConflict, JudgedDisk, JudgedProgram, JudgedAll,
                ParkedIsStopped, Preparing, Running
<1>4. QED
  BY <1>1, <1>2, <1>3 DEF Finish

LEMMA AroundKeeps ==
  ASSUME RunnerInv, Fails \/ MachineReady \/ Program \/ Rewrite
  PROVE  RunnerInv'
<1>1. CASE Fails
  BY <1>1, RaiseKeeps DEF Fails, Unloadable, Breaks, Exception, Kept, machineVars, fileVars, suiteVars
<1>2. CASE MachineReady \/ Program
  <2>1. /\ machine /= "none" /\ machine' /= "none"
        /\ UNCHANGED <<pc, touched, spec, allow, warned, age, parked, cpu>>
    BY <1>2 DEF MachineReady, Program, fileVars, suiteVars, runVars
  <2>2. pc \in Running /\ pc' \in Running
    BY <2>1 DEF RunnerInv, MachineIffRunning
  <2>3. ParkedIsStopped'
    BY <2>1 DEF RunnerInv, ParkedIsStopped
  <2>4. QED
    BY <2>1, <2>2, <2>3, RunningKeeps
<1>3. CASE Rewrite
  BY <1>3 DEF Rewrite, RunnerInv, MachineIffRunning, NoConflict, ParkedIsStopped, machineVars,
              suiteVars, runVars
<1>4. QED
  BY <1>1, <1>2, <1>3

LEMMA RunnerInvStep ==
  ASSUME RunnerInv, [Next]_vars
  PROVE  RunnerInv'
<1>1. CASE UNCHANGED vars
  BY <1>1 DEF vars, machineVars, fileVars, suiteVars, runVars, RunnerInv, MachineIffRunning, NoConflict,
              JudgedDisk, JudgedProgram, JudgedAll, ParkedIsStopped, Waived
<1>2. CASE Next
  BY <1>2, PrepareKeeps, BootKeeps, StepKeeps, FinishKeeps, AroundKeeps DEF Next
<1>3. QED
  BY <1>1, <1>2

-----------------------------------------------------------------------------
(* The theorems.                                                             *)

\* run_test: the machine is there exactly from launch() to session.stop(), and
\* what stands before it has been judged.
THEOREM RunnerInvariance == Spec => []RunnerInv
<1>1. QED
  BY RunnerInvInit, RunnerInvStep, PTL DEF Spec

\* No suite goes on, or ends, with a machine of a test that is over.
THEOREM NoMachineOutlives == Spec => []MachineEndsWithTest
<1>1. RunnerInv => MachineEndsWithTest
  BY DEF RunnerInv, MachineIffRunning, MachineEndsWithTest, Running
<1>2. QED
  BY <1>1, RunnerInvariance, PTL

\* _reject_spec_conflicts and _gate_stale come before launch(), for any grace.
THEOREM JudgedBeforeBoot == Spec => []RefusedBeforeBoot
<1>1. RunnerInv => RefusedBeforeBoot
  BY DEF RunnerInv, MachineIffRunning, NoConflict, JudgedAll, Waived, RefusedBeforeBoot
<1>2. QED
  BY <1>1, RunnerInvariance, PTL

\* The CPU stays where an until or a call has left it, whatever steps follow.
THEOREM StopEndures == Spec => []StopIsKept
<1>1. RunnerInv => StopIsKept
  BY DEF RunnerInv, ParkedIsStopped, StopIsKept
<1>2. QED
  BY <1>1, RunnerInvariance, PTL

-----------------------------------------------------------------------------
(* The types, by the groups of variables.                                    *)

\* A step that is waited for is one that the spec still has.
Pending == Stepping \/ pc \in {"waiting", "until"} => done < MaxSteps

SuiteType ==
  /\ pc \in Places /\ verdict \in {"open", "passed", "failed", "raised"}
  /\ test \in 0..MaxTests /\ spec \in Specs /\ allow \in BOOLEAN

FileType ==
  /\ age \in Ages \cup {NoLabels} /\ touched \in BOOLEAN
  /\ warned \in BOOLEAN /\ labels \in BOOLEAN

MachineType ==
  /\ machine \in {"none", "boot", "ready", "loading", "up"}
  /\ cpu \in {"running", "stopped"} /\ mem \in Words /\ parked \in BOOLEAN

StepType ==
  /\ captures \in ([value : Words, width : {1, 2}] \cup {[width |-> 0]})
  /\ captures.width = 1 => captures.value < 2
  /\ done \in 0..MaxSteps /\ passed \in BOOLEAN
  /\ Pending

RunnerTyped == SuiteType /\ FileType /\ MachineType /\ StepType

LEMMA SuiteTypeStep ==
  ASSUME SuiteType, Next
  PROVE  SuiteType'
<1>1. pc' \in Places /\ verdict' \in {"open", "passed", "failed", "raised"}
  BY DEF SuiteType, Places, Next, Prepare, Boot, Step, Finish, Fails, NextTest, Check, PrepareDisk,
         JudgeProgram, PrepareCart, Launch, ReadyGate, Start, CannotRun, LoadGate, GateExpires,
         Poke, Sample, Compare, Observe, Wait, WaitOver, Until, UntilOver, LastStep, Screen, Stop,
         SuiteOver, Unloadable, Breaks, Exception, MachineReady, Program, Rewrite, Goes, Raise, Gate,
         Kept, StepEnds, Stepping, suiteVars, fileVars, machineVars, runVars
<1>2. test' \in 0..MaxTests
  BY RunnerAssumption DEF SuiteType, Next, Prepare, Boot, Step, Finish, Fails, NextTest, Check, PrepareDisk,
         JudgeProgram, PrepareCart, Launch, ReadyGate, Start, CannotRun, LoadGate, GateExpires,
         Poke, Sample, Compare, Observe, Wait, WaitOver, Until, UntilOver, LastStep, Screen, Stop,
         SuiteOver, Unloadable, Breaks, Exception, MachineReady, Program, Rewrite, Raise, Gate,
         Kept, StepEnds, Forgotten, suiteVars, fileVars, machineVars, runVars
<1>3. allow' \in BOOLEAN
  BY DEF SuiteType, Next, Prepare, Boot, Step, Finish, Fails, NextTest, Check, PrepareDisk,
         JudgeProgram, PrepareCart, Launch, ReadyGate, Start, CannotRun, LoadGate, GateExpires,
         Poke, Sample, Compare, Observe, Wait, WaitOver, Until, UntilOver, LastStep, Screen, Stop,
         SuiteOver, Unloadable, Breaks, Exception, MachineReady, Program, Rewrite, Raise, Gate,
         Kept, StepEnds, Forgotten, suiteVars, fileVars, machineVars, runVars
<1>4. spec' \in Specs
  <2>1. Synthesized \subseteq Specs
    BY DEF Synthesized, Promoted, Specs
  <2>2. Blank \in Specs
    BY DEF Blank, Specs
  <2>3. spec' = spec \/ spec' = Blank \/ spec' \in Synthesized \/ spec' \in Specs
    BY DEF Next, Prepare, Boot, Step, Finish, Fails, NextTest, Check, PrepareDisk,
         JudgeProgram, PrepareCart, Launch, ReadyGate, Start, CannotRun, LoadGate, GateExpires,
         Poke, Sample, Compare, Observe, Wait, WaitOver, Until, UntilOver, LastStep, Screen, Stop,
         SuiteOver, Unloadable, Breaks, Exception, MachineReady, Program, Rewrite, Raise, Gate,
         Kept, StepEnds, Forgotten, suiteVars, fileVars, machineVars, runVars
  <2>4. QED
    BY <2>1, <2>2, <2>3 DEF SuiteType
<1>5. QED
  BY <1>1, <1>2, <1>3, <1>4 DEF SuiteType

LEMMA FileTypeStep ==
  ASSUME FileType, Next
  PROVE  FileType'
<1>1. 0 \in Ages
  BY RunnerAssumption DEF Ages
<1>2. age' \in Ages \cup {NoLabels}
  BY <1>1 DEF FileType, Next, Prepare, Boot, Step, Finish, Fails, NextTest, Check, PrepareDisk,
         JudgeProgram, PrepareCart, Launch, ReadyGate, Start, CannotRun, LoadGate, GateExpires,
         Poke, Sample, Compare, Observe, Wait, WaitOver, Until, UntilOver, LastStep, Screen, Stop,
         SuiteOver, Unloadable, Breaks, Exception, MachineReady, Program, Rewrite, Raise, Gate,
         Kept, StepEnds, Forgotten, suiteVars, fileVars, machineVars, runVars
<1>3. touched' \in BOOLEAN /\ labels' \in BOOLEAN
  BY DEF FileType, Resolves, Next, Prepare, Boot, Step, Finish, Fails, NextTest, Check, PrepareDisk,
         JudgeProgram, PrepareCart, Launch, ReadyGate, Start, CannotRun, LoadGate, GateExpires,
         Poke, Sample, Compare, Observe, Wait, WaitOver, Until, UntilOver, LastStep, Screen, Stop,
         SuiteOver, Unloadable, Breaks, Exception, MachineReady, Program, Rewrite, Raise, Gate,
         Kept, StepEnds, Forgotten, suiteVars, fileVars, machineVars, runVars
<1>4. warned' \in BOOLEAN
  BY DEF FileType, Next, Prepare, Boot, Step, Finish, Fails, NextTest, Check, PrepareDisk,
         JudgeProgram, PrepareCart, Launch, ReadyGate, Start, CannotRun, LoadGate, GateExpires,
         Poke, Sample, Compare, Observe, Wait, WaitOver, Until, UntilOver, LastStep, Screen, Stop,
         SuiteOver, Unloadable, Breaks, Exception, MachineReady, Program, Rewrite, Raise, Gate,
         Kept, StepEnds, Forgotten, suiteVars, fileVars, machineVars, runVars
<1>5. QED
  BY <1>2, <1>3, <1>4 DEF FileType

LEMMA MachineTypeStep ==
  ASSUME MachineType, Next
  PROVE  MachineType'
<1>1. machine' \in {"none", "boot", "ready", "loading", "up"} /\ cpu' \in {"running", "stopped"}
      /\ parked' \in BOOLEAN
  BY DEF MachineType, Next, Prepare, Boot, Step, Finish, Fails, NextTest, Check, PrepareDisk,
         JudgeProgram, PrepareCart, Launch, ReadyGate, Start, CannotRun, LoadGate, GateExpires,
         Poke, Sample, Compare, Observe, Wait, WaitOver, Until, UntilOver, LastStep, Screen, Stop,
         SuiteOver, Unloadable, Breaks, Exception, MachineReady, Program, Rewrite, Raise, Gate,
         Kept, StepEnds, Forgotten, suiteVars, fileVars, machineVars, runVars
<1>2. mem' \in Words
  BY DEF MachineType, Words, Next, Prepare, Boot, Step, Finish, Fails, NextTest, Check, PrepareDisk,
         JudgeProgram, PrepareCart, Launch, ReadyGate, Start, CannotRun, LoadGate, GateExpires,
         Poke, Sample, Compare, Observe, Wait, WaitOver, Until, UntilOver, LastStep, Screen, Stop,
         SuiteOver, Unloadable, Breaks, Exception, MachineReady, Program, Rewrite, Raise, Gate,
         Kept, StepEnds, Forgotten, suiteVars, fileVars, machineVars, runVars
<1>3. QED
  BY <1>1, <1>2 DEF MachineType

LEMMA StepTypeStep ==
  ASSUME StepType, MachineType, Next
  PROVE  StepType'
<1>1. MaxSteps \in Nat /\ done \in Nat /\ done <= MaxSteps
  BY RunnerAssumption DEF StepType
<1>2. /\ captures' \in ([value : Words, width : {1, 2}] \cup {[width |-> 0]})
      /\ captures'.width = 1 => captures'.value < 2
  <2>1. CASE Sample
    BY <2>1 DEF Sample, Read, MachineType, Words
  <2>2. CASE ~Sample
    <3>1. captures' = captures \/ captures' = [width |-> 0]
      BY <2>2 DEF Next, Prepare, Boot, Step, Finish, Fails, NextTest, Check, PrepareDisk,
         JudgeProgram, PrepareCart, Launch, ReadyGate, Start, CannotRun, LoadGate, GateExpires,
         Poke, Sample, Compare, Observe, Wait, WaitOver, Until, UntilOver, LastStep, Screen, Stop,
         SuiteOver, Unloadable, Breaks, Exception, MachineReady, Program, Rewrite, Raise, Gate,
         Kept, StepEnds, Forgotten, suiteVars, fileVars, machineVars, runVars
    <3>2. QED
      BY <3>1 DEF StepType
  <2>3. QED
    BY <2>1, <2>2
<1>3. CASE \E ok \in BOOLEAN : StepEnds(ok) /\ done < MaxSteps
  <2>1. /\ done' = done + 1 /\ done < MaxSteps /\ passed' \in BOOLEAN
        /\ pc' \in {"steps", "screen"}
    BY <1>3 DEF StepEnds, Goes
  <2>2. done' \in 0..MaxSteps
    BY <1>1, <2>1
  <2>3. Pending'
    BY <1>1, <2>1 DEF Pending, Stepping
  <2>4. QED
    BY <1>2, <2>1, <2>2, <2>3 DEF StepType
<1>4. CASE Wait \/ Until
  <2>1. done' = done /\ passed' = passed /\ done < MaxSteps
    BY <1>4 DEF Wait, Until, Stepping, runVars
  <2>2. QED
    BY <1>1, <1>2, <2>1 DEF StepType, Pending
<1>5. CASE Forgotten /\ pc' \in {"abort", "idle"}
  BY <1>1, <1>2, <1>5 DEF Forgotten, StepType, Pending, Stepping
<1>6. CASE done' = done /\ passed' = passed /\ (pc' \in {"waiting", "until"} => pc' = pc)
  BY <1>1, <1>2, <1>6 DEF StepType, Pending, Stepping
<1>7. QED
  <2>1. CASE Poke \/ Sample \/ Observe
    <3>1. \E ok \in BOOLEAN : StepEnds(ok) /\ done < MaxSteps
      BY <2>1 DEF Poke, Sample, Observe, Stepping
    <3>2. QED
      BY <1>3, <3>1
  <2>2. CASE Compare
    <3>1. PICK op \in {"differs", "unchanged", "greater_than", "less_than"} :
            StepEnds(captures.width /= 0 /\ Holds(op, Read(captures.width), captures.value))
      BY <2>2 DEF Compare
    <3>2. (captures.width /= 0 /\ Holds(op, Read(captures.width), captures.value)) \in BOOLEAN
      OBVIOUS
    <3>3. done < MaxSteps
      BY <2>2 DEF Compare, Stepping
    <3>4. QED
      BY <1>3, <3>1, <3>2, <3>3
  <2>3. CASE WaitOver \/ UntilOver
    <3>1. \E ok \in BOOLEAN : StepEnds(ok) /\ done < MaxSteps
      BY <2>3 DEF WaitOver, UntilOver, StepType, Pending
    <3>2. QED
      BY <1>3, <3>1
  <2>4. CASE Wait \/ Until
    BY <1>4, <2>4
  <2>5. CASE Stop
    BY <1>5, <2>5 DEF Stop, Goes
  <2>6. CASE /\ ~Poke /\ ~Sample /\ ~Observe /\ ~Compare /\ ~WaitOver /\ ~UntilOver
             /\ ~Wait /\ ~Until /\ ~Stop
    <3>1. done' = done /\ passed' = passed /\ (pc' \in {"waiting", "until"} => pc' = pc)
      BY <2>6 DEF Next, Prepare, Boot, Step, Finish, Fails, NextTest, Check, PrepareDisk,
         JudgeProgram, PrepareCart, Launch, ReadyGate, Start, CannotRun, LoadGate, GateExpires,
         LastStep, Screen, SuiteOver, Unloadable, Breaks, Exception, MachineReady, Program,
         Rewrite, Goes, Raise, Gate, Kept, suiteVars, fileVars, machineVars, runVars
    <3>2. QED
      BY <1>6, <3>1
  <2>7. QED
    BY <2>1, <2>2, <2>3, <2>4, <2>5, <2>6

LEMMA RunnerTypedInit == Init => RunnerTyped
<1> SUFFICES ASSUME Init PROVE RunnerTyped
  OBVIOUS
<1>1. SuiteType
  <2>1. Blank \in Specs
    BY DEF Blank, Specs
  <2>2. pc \in Places /\ verdict = "open" /\ allow \in BOOLEAN /\ test = 0 /\ spec = Blank
    BY DEF Init, Places
  <2>3. QED
    BY <2>1, <2>2, RunnerAssumption DEF SuiteType
<1>2. FileType
  BY Zenon DEF Init, FileType
<1>3. MachineType
  <2>1. mem \in Words
    BY DEF Init, Words
  <2>2. QED
    BY <2>1, Zenon DEF Init, MachineType
<1>4. StepType
  BY RunnerAssumption DEF Init, StepType, Pending, Stepping
<1>5. QED
  BY <1>1, <1>2, <1>3, <1>4 DEF RunnerTyped

\* No suite runs more specs than it has, no spec more steps; a sample of one
\* byte is one byte.
THEOREM RunnerTypeCorrect == Spec => []TypeOK
<1>1. RunnerTyped /\ [Next]_vars => RunnerTyped'
  <2> SUFFICES ASSUME RunnerTyped, [Next]_vars PROVE RunnerTyped'
    OBVIOUS
  <2>1. CASE Next
    BY <2>1, SuiteTypeStep, FileTypeStep, MachineTypeStep, StepTypeStep DEF RunnerTyped
  <2>2. CASE UNCHANGED vars
    BY <2>2 DEF RunnerTyped, SuiteType, FileType, MachineType, StepType, Pending, Stepping, vars,
               machineVars, fileVars, suiteVars, runVars
  <2>3. QED
    BY <2>1, <2>2
<1>2. RunnerTyped => TypeOK
  BY DEF RunnerTyped, SuiteType, FileType, MachineType, StepType, TypeOK
<1>3. QED
  BY RunnerTypedInit, <1>1, <1>2, PTL DEF Spec
=============================================================================
