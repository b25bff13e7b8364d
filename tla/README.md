# A formal model of c64lib

c64lib (`src/src/c64lib`, "Project64") drives the VICE Commodore 64 emulator from a
command line, an MCP server and a test runner. The interesting part of it is not any one
command but what many of them, each a process of its own, do to one emulator that never
stops running: who halts it, who resumes it, which checkpoint hit is seen by whom, and
what is left behind when a command fails, times out or is killed. That is what these
modules are about.

## The system

| Component | State it keeps | Operations | Interacts with |
|---|---|---|---|
| Monitor client (`monitor.py`, `protocol.py`) | the socket, a deque of at most 256 events, unanswered responses | requests (`_transact`), `resume`, `step`, `finish`, `poll_events`, `wait_for_stop` | VICE's binary monitor |
| Session daemon (`daemon.py`) | `state` (running or stopped), `_quitting`, the one VICE connection | idle pump, accept, dispatch, `_restore`, `run_until`, `profile_samples`, `sid_log` | monitor client below, one command at a time above |
| Daemon client and RPC (`daemon_client.py`, `rpc.py`) | one connection | a proxy of every monitor method, errors by name and code | the daemon |
| Waiting front ends (`ops.py`) | none | `wait_for_break`, `wait_for_idle`, `call_routine`, `run_until`, profilers, `key_hold` | `Session.monitor()` |
| Session registry (`session.py`) | one JSON record per session, a respawn log, audio pins | `launch`, `attach`, `ensure`, `monitor`, `stop`, `stop_all` | processes, the daemon |
| Recording (`audio.py`) | VICE's warp, `Speed` and recorder; the pin sidecar | `pinned_record_start`, `pinned_record_stop`, `capture` | text monitor and daemon |
| Audio analysis (`sid_analysis.py`, part of `audio.py`) | none | register logs, spectra, areas | files |
| Test runner (`testing.py`) | captures, one session per suite | the steps of YAML tests | everything above |
| Builders (`build.py`, `cart_build.py`, `cartridge.py`, `disk.py`, `symbols.py`, `disasm.py`, `packaging.py`) | files | build, staleness, images, symbols | external assemblers |
| Text and tables (`basic*.py`, `screen.py`, `text.py`, `sprites.py`, `charset.py`, `machines.py`, `romdoc.py`) | none | conversions and lint rules | none |
| Front ends (`cli.py`, `mcp_server.py`) | none | parsing, formatting, calls | everything above |

How they interact: a command opens a connection to the session's daemon over a Unix
socket, makes any number of requests, and closes it; the daemon holds the only
connection to VICE, serves one command at a time, and puts the machine back into its
remembered state when the command goes. If the daemon is down, the command starts
another. Recording uses the daemon and, for warp, VICE's text monitor, and leaves a
sidecar file for the command that will end it.

What is hard about it:

* *Every monitor command halts the machine*, with the same STOPPED event as a checkpoint
  hit, and events arrive whenever VICE sends them. The daemon has to tell noise from a
  park, by events that are read in three different places, kept in a deque that may
  overflow, and cleared by every resume.
* *Clients vanish*, in the middle of a request that may be a loop of minutes.
* *The same arrival is reported twice* (by its event and by `hit_count`) or, when the
  events were lost, once.
* *Undoing needs memory across processes*: a recording's start and stop are two
  commands, either of which may fail half way, be repeated or be killed, and the session
  itself may die and its name be used again.
* *The registry is a directory of files without a lock*, read and written by any number
  of commands at once; a daemon may be respawned by two of them.

What makes each component correct:

* monitor client and daemon: no park is lost, no machine is left halted by a mere
  inspection, `state` tells the truth, the daemon goes when its emulator goes;
* loops of waits: each arrival counted once, the machine parked where the result says,
  the checkpoint removed, an end in any case;
* recording: the session's own settings are always on the machine or on disk, nobody
  else's are ever applied, a WAV is closed before warp returns;
* registry: one emulator per name, no record of a stopped session reappears, no emulator
  or daemon without a record, at most one daemon on a socket;
* protocol and RPC: a stream is decoded the same however it was cut; work is repeated
  only when it certainly was not done;
* builders and tables: the reader recovers what the builder wrote.

## Modules

| Module | What it is | Code |
|---|---|---|
| `ViceLink` | the connection: machine, wire, event deque, checkpoints in VICE; the requests and readings of events | `monitor.py`; VICE as the code relies on it |
| `MonitorProtocol` | below it: bytes, frames, request ids, time limits, late answers | `protocol.py`, `monitor.py` |
| `MonitorDaemon` | the daemon on top of the connection, all its kinds of request, a client that may be anywhere in its program | `daemon.py`, `ops.wait_for_break` |
| `NthArrival` | abstract: "run until the Count-th arrival" | the promise of `c64 until --count` |
| `UntilLoop` | `_run_until` amid the daemon's other requests; implements `NthArrival` | `daemon.py` |
| `ClientLoops` | call, profile, until, key hold and SID log, run by a daemon of any age or by the command itself | `ops.py`, `audio.py`, `daemon.py`, `daemon_client.py`, `rpc.py` |
| `DaemonRespawn` | the daemon processes of a session, the socket file, VICE's one monitor slot, the breaker | `session.py`, `daemon.py`, `daemon_client.py` |
| `SessionRegistry` | the records of the sessions and every command that reads or writes them, any number at once | `session.py`, `ops.reboot_with_cart` |
| `AudioPin` | recording in real time, its pin and its failures | `audio.py` |
| `TestRunner` | a suite of tests: gates, boot, steps, clean-up | `testing.py` |
| `FrontEnds` | every command and every MCP tool as the list of its steps, and one interpreter | `cli.py`, `mcp_server.py`, `ops.py`, `rpc.py` |
| `DiskBuilds` | commands that build, package and change one disk image at once | `disk.py`, `packaging.py`, `ops.py` |
| `AreaLayout`, `EasyFlashImage` | pure: memory areas of a program, the windows of an EasyFlash image | `build.py`, `ops.py`; `cart_build.py`, `cartridge.py` |
| `ProgramImages` | loads, copies and reads back what these two and the wrapper make | `cart_build.py`, `cartridge.py` |
| `*Proofs` | the theorems: `MonitorDaemonProofs` about `MonitorDaemon` and `UntilLoop`, `BuilderProofs` about `DiskBuilds` and `ProgramImages`, `FrontEndsProofs` about `FrontEnds` and the loops behind its commands, `ClientLoops`, the others each about the module they are named for | |
| `MC*` | TLC's instances: names for the checkpoints, what may overlap, manifests and jobs | |

`MonitorDaemon` extends `ViceLink`, `UntilLoop` extends `MonitorDaemon` and instantiates
`NthArrival`; `ProgramImages` extends `AreaLayout` and `EasyFlashImage`. The others meet
in what they assume of one another: `MonitorProtocol` establishes that a request gets
its own answer, which `ViceLink` takes for one step; `ClientLoops` and `FrontEnds` take
for granted the daemon that `MonitorDaemon` describes, and say in their headers what of
it they leave out.

### ViceLink and MonitorDaemon

State: `machine` is the emulated CPU (running; halted by a command, by a hit or by a
step; dead), `wire` what VICE has written and nobody read, `events` the deque
`MonitorClient.events`, `armed` VICE's checkpoints; `state` is `PetDaemon.state`, `at`
and `caller` stand for where the daemon's single thread is, `client` for where the
connected command is.

| Action | Code |
|---|---|
| `Pump`, `IdleExit`, `Accept` | `_pump_vice_events`, `_idle_wait`, `serve_forever` |
| `Inspect`, `CheckpointSet`, `CheckpointDelete` | any request that only halts |
| `Resume`, `Step`, `Finish`, `Release`, `Quit` | the cases of `_dispatch` |
| `BreakList`, `BreakResume`, `BreakWait`, `WaitStopped`, `WaitQuiet`, `WaitTimeout` | `ops.wait_for_break` over `_wait_for_stop` |
| `FinishStopped`, `FinishQuiet`, `FinishTimeout`, `FinishRegisters` | the rest of `finish()` |
| `Hangup` | the client closes its socket, or is killed |
| `RestorePoll`, `RestoreExit`, `RestoreFails` | `_restore`, in the two exchanges between which VICE may act |
| `RequestFails`, `WaitFails` | `ConnectionError`, `_quitting` |
| `CheckpointFires`, `SubroutineReturns`, `EmulatorDies` | VICE |

A request and its answer are one step: `_transact` reads until the answer is there, and
what VICE wrote before it goes into the deque. What VICE writes later stays on `wire`.
The RESUMED that follows an EXIT is read with its answer or stays on the wire. Requests
the daemon refuses, and `status`, change nothing and are left out; reads, writes and the
like are one action, `Inspect`.

Assumed of VICE and the loopback socket: a hit and its STOPPED come in one write; a poll
of 50 ms reads all that has been written; a request is answered or the connection closes
(late answers are in `MonitorProtocol`). Assumed of the front ends: `wait_for_stop` is
asked by the loop of `wait_for_break` or one of its shape, after a list and a resume.
All other requests come in any order.

### NthArrival and UntilLoop

`UntilLoop` adds `_run_until` to the daemon: `reached` is the loop variable, `hitCount`
VICE's count of the loop's checkpoint, `outcome` what the loop reported. Each exchange
of the loop is an action, so that a hit, the death of VICE or of the client may fall
between any two of them; `Otherwise` keeps every request of `MonitorDaemon`. VICE hands
out `Target` for the loop's checkpoint, and no other request is given that number.
`NthArrival` is implemented with `arrivals <- hitCount`: what counts are arrivals of the
machine, not those the loop noticed. `call_routine`, `_run_until_client` and
`profile_samples_loop` in `ops.py` have the same loop and may run it in the client; they
are in `ClientLoops`.

`_run_until` has no `finally`. A request of its own that VICE answers with an error, or
does not answer in time, ends it on a machine that is alive: the error goes to the
client, the daemon serves on, and the checkpoint stays armed unless it was the delete
whose answer was late. `NoAnswer` is this way out of every exchange of the loop, whether
VICE has served the request or not, `RunUntilFails` that of the arming; both leave
`outcome = "failed"`. The next `run_until` arms another number: `ArmTarget` then calls
that one `Target` and gives the one left behind a number of the user's. `LoopFails` is
the other error, a connection that is dead. A request given up is served by the time the
client is told, or never. Requests from outside of the loop are answered.

### AudioPin

State: `pid` and `original`, the session's process and the settings it was launched
with; `warp`, `speed`, `recorder` and `wav` in VICE; `pin`, the sidecar; `at`, `doing`,
`saved`, `sink`, `restoreFailed`, `disarmFailed` of the running command; `failures` and
`outcome` of the last. Each exchange with VICE is an action with two outcomes: done, or
failed, and a failed one may have taken effect all the same (a time-out of the
readback). `Start` to `RollbackWarp` are `pin_realtime`, `_unpin_best_effort` and
`pinned_record_start` in the order of the code, `Stop` to `Confirm` are
`pinned_record_stop`, `Logged` is the bracket of `capture`. `Finalize` is VICE fixing
the WAV's header, `Killed` the death of a command, `Relaunch` the session's death and
the reuse of its name, with the pin pruned or not.

Assumed: one recording command at a time, and no relaunch during one; the sidecar can be
read, written and removed; a command is not killed in the places `Unprotected` names,
between the first change and the write of the pin and during the rollback of a failed
start. The code has no defence there.

### SessionRegistry

State: `holder`, who runs under each pid; `doomed`, emulators asked to quit or sent
SIGTERM; `record`, the file of each name: absent, torn, or the pid it holds. Each
command is a process: `at`, `op`, `name`, `pid` say where it is and with which session,
`todo`, `live`, `bad`, `dead` are its walk over the files (`_scan_records`), `tries`
counts the emulators its launch has started.

| Action | Code |
|---|---|
| `Begin`, `Read`, `Prune` | the glob of `_scan_records`, one record read and its process looked up, a dead one unlinked |
| `Attached`, `NotAttached`, `Launch`, `Checked` | `attach`, the reactions of `ensure` and `reboot_with_cart`, the duplicate check of `launch` |
| `Spawn`, `Answers`, `LaunchFails`, `DaemonUp`, `DaemonFails` | the loop of `launch`, `_kill_proc` |
| `Truncate`, `Fill` | `_save`: `write_text` truncates, then writes |
| `SaveSession`, `Return` | `set_labels_path`, `record_loaded`, a respawn in `monitor()` |
| `StopAlive`, `Monitor`, `AskQuit`, `Terminate`, `Unlink` | `stop` |
| `Reap`, `Discard`, `Reaped` | `stop_all` |
| `Exit`, `Recycle`, `StrangerExits`, `Killed` | emulators die, pids are reused, commands are killed |

The unit of interleaving is one file operation or one look at a process; between any two
of them every other command may do anything. The registry has no lock, so two
overlapping commands on one name can really lose an emulator. The properties say what is
left, with history variables that name the exceptions: `fresh`, per command the records
nobody else has touched since it read them; `raced`, the names whose record somebody
wrote without that; `discarded`, the names whose record `stop_all` threw away unread;
`abandoned`, emulators whose launch was killed. No guard reads them; `Fill` alone uses
`fresh`, for whether the file is certainly still the one it opened. After a race that is
coarser than the code: a save may then leave a torn record where the code leaves a whole
one.

Assumed: a pid is not reused between the look at it and the signal sent to it, nor while
the launch that started it has not ended; unlinking does not fail; the walk takes the
files in any order. `session start` lists the sessions once more before it launches: in
the model that is a `list` before the `start`.

### DaemonRespawn

State: `daemon`, where each daemon process stands in `main`, and `client`, whom it
serves; `path`, whose socket the session's socket file is; `slot`, who holds VICE's one
monitor connection; `vice`, `record`; per command `pc`, `task`, `peer` (the daemon it
has dialled) and `child` (the one it has spawned); `stamps` on disk and `seen` in a
command's hand.

| Action | Code |
|---|---|
| `Connect`, `GiveUp`, `RemoveStale`, `Bind`, `Accept`, `Finishes`, `LeaveUnlink`, `Close` | `main` and `serve_forever`: the connection to VICE, the stale socket removed, a new one bound, clients, the clean-up |
| `Crash` | a daemon killed, or ended by an error nobody takes |
| `Dial`, `HelloTimeout` | `DaemonClient`: connection refused, or accepted by the backlog of a busy daemon and given up after ten seconds |
| `ReadStamps`, `Respawn`, `Trips` | `_record_respawn_and_check`, `_spawn_daemon` |
| `PingAnswered`, `SpawnFails` | the ping loop of `_spawn_daemon` |
| `Quit`, `Signal`, `Clear` | `stop` |
| `ViceEnds`, `NoticeClosed` | VICE goes; it sees that its client has gone |

A deadline may pass at any moment of its wait. The thirty seconds of the breaker are
`WindowPasses`, which does not happen in the midst of an update; the stamps are their
number. `raced` tells that two updates overlapped: the file is read and rewritten
without a lock, and the breaker may then count too few. A pid is used again
once nothing is left of its process. Of the record only its presence is kept: which pid
it names matters to `stop` alone.

### ClientLoops

State: `side`, who runs the loop; `begun`, where its work has begun; `pc`, `taken`,
`blocks`, `entryI`, `opts` of the loop; `cpu`, `place`, `armed`, `hits`, `event`,
`iflag`, `timers`, `chip`, `key` of the machine. `daemon` is the age of the session's
daemon: whether it knows the method, and whether its errors carry a code. `Ask`,
`FallsBack` and `Answered` are the call and what the command makes of an error; `Arm` to
`LetGo` are the loop, the same actions on either side, since the two are the same code
or written after one another. A key hold is a sequence of untils of one frame. `Breaks`
is a failing request, `Interrupt` Ctrl-C or the end of the client, `Expires` the
deadline. A slice that ends without an event (`WaitSlice`) leaves the machine running; it
is `List`, the `checkpoint_list` that follows, which halts it. The arrival that falls in
between is told by `hit_count` alone (`Arrived`), and its event stays in the deque until
an EXIT drops it. `Clear` stands for a user who deletes the checkpoint that an interrupted
command has left.

Assumed: each arrival is announced by an event in the deque; what drops and delays do to
events is the subject of `UntilLoop`.

### TestRunner

The specs are chosen freely (a YAML file may say anything that `_check_spec` accepts),
one step at a time. `Check` is the validation; `PrepareDisk`, `JudgeProgram`,
`PrepareCart`, `Breaks` the artifact of a test and its staleness gates, all by
`_gate_stale`; `Launch`, `MachineReady`, `ReadyGate`, `LoadGate`, `GateExpires`, `Start`
the boot; `Poke`, `Sample`, `Compare`, `Observe`, `Wait`, `Until` the kinds of step;
`LastStep`, `Screen`, `Stop`, `SuiteOver` the end. `age` is the date of the label file
minus that of the artifact; `touched` says that another command has rewritten one of
them since the judgement, which no gate can know. The machine is the test's own, so
nobody else halts or resumes it. `captures` is one sample, and `Compare` an
assertion against it, recorded or not.

### FrontEnds

A command is a record: who it is for, what the documentation says it leaves (`leaves`:
as found, running or stopped; from the docstrings and `docs/cli.md:46-57`), and the list
of its steps: opening and releasing a monitor, requests, waits, documents, each with the
exceptions it may raise and those that the body's own handlers take. One interpreter runs
any of them: `Invoke` begins a command, a step succeeds (`Pass`, `Sample`, `Poll`,
`TimedOut`, `GivesUp`, `Emits`) or raises any of its kinds (`Raise`); the exception goes
through the finally and the close of an open bracket, and to the body's handlers, the
group (`JsonAwareGroup.invoke`) or the server's wrapper (`Fails`). `link` is the daemon
or a direct connection, fixed for a behaviour; `processor` is the CPU and `held` the
state the daemon has of it. The program in the machine runs into checkpoints between
connections and during waits (`Hit`).

Left out: two commands at once (see `MonitorDaemon` and `SessionRegistry`); what
`session` and the library commands do to anything but the machine; over a direct
connection, what VICE leaves the CPU in after a disconnect (the properties speak of the
daemon).

### MonitorProtocol

A frame is a start byte, the rest of its header and a body of at most one byte, which
may be a start byte; `wire` is a sequence of bytes and `Recv` takes any part of it.
`feed` is `FrameDecoder.feed`, `Take` and `Ends` are what `_transact` does with one
frame: an event, an answer to another request, an intermediate, its own answer, an
error. `TimesOut` gives a request up and leaves it to VICE; its answer then comes in the
midst of a later one. `Listen`, `Hear`, `HearsEnd` are `poll_events` and the wait for a
first event. `Hit` and `Die` are VICE. Serial numbers in requests, answers and events
are history: the code never sees them. Two deviations of the code show here and are what
the properties leave out: a poll that loses its connection loses the events it had in
hand (`dropped`), and an intermediate of a request that was given up stays in `_pending`
for good.

### DiskBuilds

State: `image` (the files of the image, and the manifest if a build made it), `prg` and
`lbl` of a package, `kept` (`IMAGE.<name>.lbl` of a build); per command `job`, `k`,
`work` (the working directory), `costs`, `staged`. `version` and `Edit` are the sources.
The commands are `build_disk` (`Artifact`, `Formats`, `Puts`, `Swaps`, `Keeps`,
`Reports`), a package (`Makes`, `Places`) and `put`, `rm`, `rename` of the image in
place (`Changes`). One run of ca65, ld65, petcat or c1541 is a step; `Fails` is an error
or a kill before any of them. `alone` and `settled` are history: no other command has
written since this one began; it was the last to write, and succeeded.

Not told: staging directories left behind by a kill, label files of earlier builds that
nothing sweeps, a source that is edited between ca65's reading and the stamp of
`record_loaded`. A file that does not fit leaves a truncated one when it is put in
place, as the image then is nobody's build. An `IMAGE.lbl` of an earlier package wins
over the labels of a later build in `disk_labels_path`: known, and excluded in
`SymbolsAreOfImage`.

### AreaLayout, EasyFlashImage and ProgramImages

`AreaLayout` has `parse_areas` (what is accepted), `linker_config` and what ld65 and the
KERNAL make of it; `Sorted` is the stable `sort` of the code, stated as the order it
leaves behind. A name is a word in capitals or in other letters, since `parse_areas`
compares `name.upper()` with the names that are reserved and ld65 tells letters apart.
`EasyFlashImage` has a manifest's entries, `build_easyflash` (the loop
that lays each file over the image is the last file to write a byte), the container,
`parse_crt`, `cart_verify` (a vector that is missing, or lies below $E000) and the used
bytes of a window. In `ProgramImages` a
behaviour is one build, `build`, and `phase` where it is: a list of areas; a program
that `wrap_prg` turns into a cartridge, whose launcher then copies it, one byte a step,
as the 6502 code does; a manifest of banks. Addresses, pages and windows are scaled; the
assumptions keep their order. `JobsAssumption` says what can be asked: a load address is
of sixteen bits, and a bank has each of its windows once, as keys of a YAML mapping.

Not told, since the code accepts it: a wrapped program that loads over the launcher's
own stack and pointers (`_WRAP_NO_COPY` omits $0000-$01FF). An EasyFlash manifest of
binary files only writes no labels and leaves those of an earlier build beside the
image; cartconv drops windows that are blank.

## Runs

| Run | Module and bounds | Shows |
|---|---|---|
| `monitor_daemon` | `MCMonitorDaemon`: 2 checkpoints, deque of 4; 5,950 states | seven properties of the daemon |
| `until_loop` | `MCUntilLoop`: the loop's checkpoint and one of the user's, 2 arrivals, deque of 3; 32,764 states | the loop counts, ends, cleans up unless a request of its own fails, implements `NthArrival` |
| `client_loops` | `ClientLoops`: 2 arrivals, 2 frames; 75,540 states | no work is done twice, each arrival is the loop's own, the machine is left as promised |
| `daemon_respawn` | `DaemonRespawn`: 2 commands, 2 daemon processes at once, a limit of 2 | the server keeps its socket, the breaker trips, daemons end |
| `session_registry` | `MCSessionRegistry`: 2 names, 2 commands, 2 pids, 2 attempts; 1.8 million states up to symmetry | no emulator is lost or doubled |
| `audio_pin` | `AudioPin`: 2 speeds, 2 sessions of one name, 1 failed exchange per command; 13,788 states | recording can be undone |
| `test_runner` | `TestRunner`: 2 tests of 2 steps, grace 1, dates up to 2 apart | gates, the stop of an until, the end of the suite |
| `front_ends` | `FrontEnds`: every command and tool, both links | the machine is left as documented, reports are true and single |
| `monitor_protocol` | `MonitorProtocol`: 3 requests, 2 events, lists of up to 1; 746,000 states | answers and events survive every cut and delay |
| `disk_builds` | `MCDiskBuilds`: 2 commands at a time and in all, 3 manifests, 2 versions, 2 blocks; 443,178 states up to symmetry | images are whole, their files and labels their own |
| `program_images` | `MCProgramImages`: lists of up to 3 areas, every place and size of a program, 2 banks; 83,211 states | what is accepted lands and starts |
| `entries_are_own` | as `disk_builds` | a disagreement, see below |

Why the bounds suffice. The events of one tenure without a resume are at most a hit, its
STOPPED, the STOPPED and RESUMED of commands; with a deque of four (of three for the
loop) entries are dropped in every order in which 256 could be, and two checkpoints are
what is needed to confuse one hit with another. Two arrivals make an "arrival before
this one", which is what double counting needs. One session that dies and one that takes
its name is what a stale pin needs; a session launched at real time without warp and one
launched warped are both initial states. Two daemons are one and its successor, or its
rival; two commands are what it takes for a breaker update to be overtaken. Two tests
are a test and the one that must not meet its machine; two steps are a stop and what
comes between it and the next look. A late answer takes a request given up and one that
follows; the third follows an answer that is late twice. Two disk commands are a build
and what overlaps it or came before it. For the safety properties of all modules that
have a proof module the proofs remove the bounds.

`session_registry` has a constraint, `Overlap`: two commands overlap only while
everything there is belongs to the default name; otherwise they run one after the other.
Commands meet only in one record, so the second name adds what a *neighbour* does (a
torn record beside the one asked for, several sessions and no name given), which one
command at a time sees. Nothing is explored after a race: `NoOrphan` and `OnePerName`
except the name that raced, and the other properties speak only of records nobody else
has touched. Two pids are one emulator and its successor, or its rival; commands and
pids are interchangeable (`SYMMETRY`; no liveness property is checked). The proofs know
no constraint.

Deadlock is checked for `audio_pin`, `session_registry` and `front_ends`. It is off
where the system really may stop: a daemon that has exited, a session whose emulator is
gone and whose commands are done, a suite that is over, a connection that is closed, a
number of builds that is used up, a program that has started.

Properties, by module:

* `StopIsTrue`: `state` is stopped only if the machine is parked (or VICE gone), during
  anything but a `finish`. If it were wrong, the machine would be treated as parked and
  nothing would resume or correct it.
* `ParkIsRemembered`: a machine parked by a hit is known to be stopped, or the hit is
  still in the events `_restore` and the pump read. Overflow included.
* `RestoreKeepsPark`: `_restore` takes every park that is there when it looks.
* `NoWedge` and, under fairness, `HaltIsUndone`: a command's own halt is undone once the
  client has gone, wherever it went.
* `HaltHolds`: a known halt ends only by resume, `wait --break` or finish.
* `DaemonExits`: the daemon whose emulator is gone exits, though `_restore` swallows the
  error.
* `ArrivalsAreCountedOnce`, `StopsAtNthArrival`: the loop's count is that of the machine
  or one behind it, and it stops at the arrival asked for.
* `ReachedIsParked`: success is reported of a machine parked on a hit.
* `NoLeakedCheckpoint`: a loop that has ended reached, out of time or without its client
  has deleted its checkpoint, whatever came between; only one that ended with an
  unanswered request of its own may leave it armed on a live machine.
* `LoopEnds`: there always is a way out.
* `Undoable`: the session has its own settings, or the pin says what they were.
* `OnlyOwnSettings`: no setting ever comes from another session.
* `StopRestores`: a stop that reports success has restored all three.
* `StopClosesFirst`: warp does not come back over a WAV still being written when the
  stop believes its sink has taken over.
* `NoOrphan`: an emulator whose launch has ended is on record, but for the three
  exceptions; in particular no prune, failed launch, save or stop loses one.
* `OnePerName`: two emulators of a name never meet, launches under way included; an
  unreadable record is never taken for an absent session.
* `StopAllClears`: a record that `stop` or `stop --all` has been through is gone.
* `OneBadRecordCostsItself`: `attach` finds a readable record among torn ones.
* `ServerKeepsItsSocket`: neither the clean-up of an earlier daemon nor the start of a
  later one takes the socket file of the one that serves.
* `BreakerTrips`: updates that did not overlap respawn fewer than `RESPAWN_LIMIT`
  daemons within the window.
* `DaemonsEnd`: no daemon outlives its emulator, on record or not.
* `WorkOnce`: a call is repeated in the client only where the daemon has not begun it.
* `TakesItsOwn`: an arrival taken is at the loop's trap and counted once, whether its
  event told of it or only `hit_count` after the slice; a SID block has the scheduled write exactly from its frame on.
* `EndsAsPromised`: trap, key, timers, I flag and CPU after a success and after a
  time-out.
* `RefusedBeforeBoot`: contradicting or stale specs never reach a machine, or with a
  warning.
* `StopIsKept`: no step between lets the CPU go after an until.
* `SuiteEnds`: whatever hangs, breaks or is stopped.
* `LeavesAsDocumented`, `ReportIsTrue`, `OneDocument`: after any step has failed in any
  way, the machine's state is the documented one, what was said of it holds, and there
  is one document, agreeing with the exit code.
* `AnswersAreOwn`, `EventsKeepOrder`: no request takes another's answer or a partial
  list; events are handed over in order, once.
* `WholeImages`, `SeparateEntriesAreOwn`, `SymbolsAreOfImage`: a built image is one
  whole manifest, each file its own entry's, and the labels found for it its own.
* `AreasLand`: areas that link are where they were asked for; a list that is accepted
  links unless the program is larger than an area; one that is refused would not have
  linked and landed, but for names that are reserved in other letters.
* `WrapBoots`, `BanksLand`: a wrapped program is whole and readable when it is started;
  an EasyFlash image reads back as its manifest, and `cart_verify` passes it
  exactly if the boot window is there with a reset vector into ROMH.

`LaunchOnAbsence`, `ServersHoldTheSlot`, `MachineEndsWithTest` and the type and
inductive invariants are not properties of a run: they are proved.

### Where code and documentation disagree

One is a run that TLC ends with a counterexample, and a finding in `PROJECT.json`:

* `EntriesAreOwn`: two entries of a disk whose sources have one stem are built over each
  other, and both files get the second program (`disk.py:803`; the docstring at
  `disk.py:834`).

The others are definitions of the modules, each with the sentence it comes from, which
the code does not keep. They have no run of their own; naming one in the module's
configuration, in place of the other properties, shows its counterexample.

* `InspectionKeepsPark` (`MonitorDaemon`): a hit between `_restore`'s poll and its EXIT
  is lost (`daemon.py:403-418`; `docs/cli.md:52-53`).
* `WaitStopsAtNextHit` (`MonitorDaemon`): a hit between two slices of `wait --break` is
  lost (`ops.py:769-779`; `docs/cli.md:856`).
* `FinishStopsAtReturn` (`MonitorDaemon`): an old STOPPED ends `finish` early
  (`monitor.py:357-361`; `docs/cli.md:548`).
* `GoneLeavesRunning` (`UntilLoop`): the machine may be left parked for a client that
  has gone (`daemon.py:295-300`; the docstring at `daemon.py:263-265`).
* `ArmFailureUnpins` (`AudioPin`, with `MaxFailures = 2`): a failed arming forgets the
  pin before it restores (`audio.py:1130-1131`; the docstring at `audio.py:1073-1075`).
* `SpawnedDaemonAnswers` (`DaemonRespawn`): the daemon that answers the ping may be
  another than the one spawned, whose pid goes on record (`session.py:309-317`; the
  docstring of `_spawn_daemon`).
* `FailuresAreReported` (`FrontEnds`): a `RuntimeError` that the daemon passes on
  (`rpc.py:129`) is not among the errors the command group takes, and ends in a
  traceback over an empty stdout.

* `RefusalsAreNeeded` (`ProgramImages`): `main=$C000:$100` is refused, since `main` is
  reserved in capitals, though ld65 would link it and it would land (`ops.py:165`; the
  docstring of `parse_areas`, `ops.py:125`: "Every rejection here is one ld65 would
  either accept and mis-link, or reject").

Met while modelling `FrontEnds`, and named there where a property leaves it out:
`screen` writes a second document when the release fails (`cli.py:568-598`); `profile`
calls any `RuntimeError` "machine: stopped" (`cli.py:1410-1418`); `machine_state` may
raise, which its docstring denies (`ops.py:1418`); the verdict of a wait that ran out of
time guesses "running"; a recording resumes a machine that was halted; a breakpoint
whose condition is refused stays, without the condition.

### Fairness

`MonitorDaemon`: weak fairness of `Daemon`, the daemon's own steps, since its loop
blocks only in `select` and in reads with a time limit, and every such step is enabled
until taken; strong fairness of `Hangup`, since a front end closes its connection in the
end, whatever it asks before. Nothing is assumed of VICE or of when clients come.
`UntilLoop`: the same, weak fairness of the loop's steps, and strong fairness of
`Expire`: the clock passes the deadline, which is looked at before each slice, though
other checkpoints may keep ending slices early. `DaemonRespawn`: weak fairness of what a
daemon does by itself, of each command's steps (all its waits have time limits), and of
VICE, which notices a closed connection and leaves once told to; nobody is bound to
begin or to crash. `TestRunner`: weak fairness of the runner, whose gates and waits have
deadlines. `AudioPin`, `SessionRegistry`, `ClientLoops` and the rest have no liveness
property.

## Proofs

All proofs hold for every value of the constants under the assumptions that the modules
name: among them `MaxEvents >= 2` (the code: 256), checkpoint numbers distinct from
event names, `Realtime \in Speeds`, at least one session, a breaker's limit above one,
manifests that are not empty, a memory map in its order (`MapAssumption`), load
addresses of sixteen bits and each window of a bank once (`JobsAssumption`).

`MonitorDaemonProofs`: `Invariance` (`IInv`), and from it `TypeCorrect`, `StopTruth`,
`ParkMemory`, `WedgeFreedom`, `HaltEndurance`, `RestorePreservesPark`. None of these
properties is inductive: each says what `state` or the events mean for the machine, and
what one action makes of the events decides it for the next. `IInv` adds `EventsAreTrue`
(the last run/stop event, read or not, tells whether the machine runs; on a parked
machine that is not known to be stopped the newest two events are the hit and its
STOPPED; nothing ends between these two), `BeliefIsTrue` (what `state` and `at` may be
for each kind of halt) and `WaitIsClean` (a wait begins without a STOPPED of the past).
The newest-two form is what survives a deque that drops its oldest entries. The lemmas
say what each reading (`LastIs`, `HoldsPark`, `HasStop`) becomes after an append, a
concatenation or a drop; one lemma per request carries them to `Unread'`; the step of
the invariant then has one case per action.

The same module goes on to the loop, on that invariant. `LoopInv` relates, at each place of the
loop, `reached`, VICE's `hitCount`, the wire, the deque and the machine: VICE has
counted as many arrivals as the loop, or one more with the machine still parked on it,
and no event of an earlier arrival is left where the loop will look; and outside of the
loop its checkpoint is not armed, unless its last outcome is "failed" or the machine
is dead. The ways out that fail are lemmas of their own (`LostLeaves`, `NoAnswerStep`):
whatever part of the unanswered request VICE has served keeps the daemon's invariant,
and what it leaves armed is taken over by the next arming (`ArmTargetLeaves`). From it follow
`LoopTypeCorrect`, `CountedOnce`, `NothingLeaks`, `ReachedAndParked` and
`NthArrivalKept`: every step of the loop and of the daemon around it is one of
`NthArrival` with `arrivals <- hitCount`, or leaves what it speaks of alone.

`AudioPinProofs`: `TypeCorrect`; `SettingsAreOwn` from `SettingsInv` (every copy of
settings, in VICE, in the pin of this pid or in the command's local, is the session's
own or real time; a pin's pid is not of the future), for any number of failures;
`SinkFirst` from `RecorderInv`; `Undoability` and `StopRestoration` from `PlaceInv`,
which says place by place whether the machine, the local or the pin has the session's
settings, under the assumption `MaxFailures <= 1`. With two failures they are false.

`SessionRegistryProofs`: `TypeCorrect`, from `Typed`, which adds to the types what a
command has in hand at each place. `NothingLost`, `Uniqueness` and `CheckedAbsence`
(`NoOrphan`, `OnePerName`, `LaunchOnAbsence`) need each other, and `IInv` ties them to
what each command knows: `Walk` (a record read and not touched since is in `live` as it
is on disk, dead and torn ones apart), `Known` (the session in hand is the one on
record, or torn by this command's own save), `Absent`, and `Pruning`, `Unlinking`,
`Filling` (no finished emulator but the command's own runs under the name whose record
is about to go or to be rewritten). The two ideas of the proof are lemmas: `Settles`,
only the end of a launch adds a finished emulator, and `Recording`, whoever writes a
record takes it from every other command's `fresh`, so that what the others conclude
from it stays true because they conclude nothing (`OthersKeep`). `BadRecordsAside`
follows from `Walk`; `NothingLeft` has an invariant of its own, `Clearing`. Assumed of
the constants: the default name is a name, at least one attempt, the marks differ from
names and pids. TLC agreed with the parts of `IInv`, without any constraint, for one
name, two commands and two pids (8.3 million states) before they were proved.

`DaemonRespawnProofs`: `TypeCorrect`; `OneServer` (`ServersHoldTheSlot`) and
`SocketKept` from `SocketInv`: a daemon touches the socket file only between its
connection and its `close`, when it holds VICE's one slot, and a `stop` removes the file
only when it has told the emulator to go (`LateClearing`), so no one is left to take a
server's file away; `BreakerHolds` from `BreakerInv`, which says, as long as no updates
overlapped, that the
stamps are no fewer than the respawns and that a command in the midst of its update has
read them all (`StampsCount`); a launch is alone on its session (`LaunchAlone`).

`TestRunnerProofs`: `RunnerInv` says that a machine exists exactly from the launch to
the stop, that the parts of a test have been judged in order, that a spec past the check
does not contradict itself, and that a CPU an until stopped is stopped. From
`RunnerInvariance` follow `NoMachineOutlives`, `JudgedBeforeBoot` and `StopEndures`.
`RunnerTypeCorrect` needs `Pending`: a step that is waited for is one the spec still has.

`FrontEndsProofs`, the front ends: a command of the roster goes through seven modes, four
with its monitor closed (nothing done yet; the machine brought to where the command
leaves it; its state sampled; the document out) and three inside a bracket. `Turn` says
which step may lead from which mode to which, given what the command is said to leave,
and `Careful` what a step may raise and say; a command is `Disciplined` if some course
of modes along its steps leads from the first to the last. `RosterDisciplined` shows it
of all the commands and tools, each as a way through parts that are shown once: what is
quiet (`QuietThen`: steps that touch no machine keep the mode, however many there are)
and the brackets, loops, waits and documents after it. For a variant of any length what
counts is the join (`Then`), not the length. The invariant speaks of the mode only, by
`Plan`, one such course of the command's. `FrontInv` says when a monitor is open
(`Placed`), that outside of brackets the CPU is where the daemon holds it to be
(`Coupled`), that an inspection changes what it holds nowhere (`Kept`), what is brought
about in which mode (`Brought`), what a sample ahead of a wait still tells (`Sampled`),
that a claim is made at the end or by the loop that has halted the machine (`Claimed`),
and that documents and reportable errors keep pace (`Documented`). `LeavesAsDocumented`
and the others are not inductive without these: they speak of the end, and what a
failure half way leaves depends on the bracket it is in. The one step that jumps is
`Raise`: `Unwinding` finds the `finally` or `close` it runs into by the smallest step
after it that leaves the bracket's modes, which can only be a close. From
`FrontInvariance` follow `MachineLeftAsDocumented`, `ReportsAreTrue` and
`OneDocumentEach`. The module has no constants, and its run explores every command over
both links; what the proof adds is the reason, which is the discipline and nothing else
of the roster, so that a new command asks for one lemma, its own way through the modes.

`FrontEndsProofs`, the loops: `LoopsInv` in six parts: which side may run which loop
(`SideInv`), what each place of each operation has done to the machine (`OpInv`), a log's
blocks (`LogInv`), hits against arrivals (`CountInv`: between a slice and its list the machine either runs
and has hit nothing new, or stands at the trap, one hit ahead, with the event still
unread), an arrival in hand (`TakenInv`: the daemon knows of the stop, or an event will
tell it, `StopKnown`, though `hit_count` may have told the loop first), and what holds
at the end (`EndInv`). From it `NothingTwice`, `OwnArrivals`,
`PromisesKept`, for any number of arrivals and frames. `LoopsTypeCorrect` needs `Room`:
where a loop may still take an arrival it has not yet taken all, which a hold's next
frame and a fall back to the other side must keep.

`MonitorProtocolProofs`: about buffers, bodies and lists of any length. `CutAnywhere` is
the decoder's own theorem: `feed` of a buffer and of what follows it makes the frames
that it makes of both at once, and leaves the same rest, unless it has met a broken
frame. `AnswersAreOwnHolds` and `EventsKeepOrderHolds` need `IInv`, since neither
property speaks of what is still under way: the bytes in the buffer and on the wire are
whole frames (`WholeFrames`, which `CutAnywhere` carries through every cut); ids grow,
so an answer to a request given up is never that of a later one, and of the list that is
waited for, what is collected and what is still to come are the infos ahead of its
answer (`Owned`, with the answers still to come in the order VICE sends them); one
reader at a time (`OneReader`); and the events handed over, in hand, in the deque and
under way are in one order, with what was dropped all that VICE has told (`InOrder`).
What recursive functions over a buffer compute is proved without an induction theorem:
of the numbers for which it fails, if there are any, there is a smallest (`WFMin` of
the library), and that one is refuted.

`BuilderProofs`, the disk: `BuildsInv` says what a command has in its own directories,
which nobody can touch (`Own`), and, as long as it is alone, what lies beside the image
(`BesideBuild`, `BesidePackage`). The lemma `OthersStay` is the idea: a step of another
command that writes ends `alone`, and one that does not leaves the files. `WholeOrOld`
needs no more than `Own` and the atomic rename, so it holds of commands that overlap;
`OwnEntries` and `MatchingSymbols` are for manifests of any length.

`BuilderProofs`, the images: `ImagesInv` says what the builder has decided (`Decided`)
and where the launcher is (`Copying`: the pages and odd bytes left, and the memory up to
its pointers). `WrapBootsHolds` follows from it with the arithmetic of pages: the copy
ends where the program does, and what `Misplaced` refuses is all that is mapped.
`BanksLandHolds` is for manifests of any length: windows have no byte in common
(`Apart`), so each byte has one writer (`ImageByte`), each window reads back
(`WindowData`, `ChipForm`), and cutting trailing fill off a window, or off both halves
of a boot window, leaves as many bytes as are used (`UsedBytes`, `CountedIn`). The reset
vector is read from the boot window's last bytes, so the tag of the byte there tells
whether it was filled and where it points.
`AreasLandHolds` is for lists of any length, both ways. Accepted: a stable order exists
and is the one chosen (`SortedIs`), the flat file is one area after the other
(`FileForm`), areas that meet have their offsets at their addresses (`MetLand`), and
ld65 has no reason to refuse them but a segment that is too large (`AcceptedLinks`).
Refused: were every area to link and land, a byte of each area would tell where the file
has it, which leaves neither a gap nor an overlap nor an unusable area (`LinkedMeets`,
`LinkedIsUsable`), except an area whose name is reserved in other letters only.

Model-checked only: the liveness properties (`HaltIsUndone`, `DaemonExits`, `LoopEnds`,
`DaemonsEnd`, `SuiteEnds`), which the prover does not reach. Every other property of a
passing run is a theorem.

## Not modelled

* Audio analysis (`sid_analysis.py`, half of `audio.py`): floating-point spectra and
  statistics of recorded data; the pacing of its captures is `AudioPin` and
  `ClientLoops`.
* BASIC tokens and lint, text, sprites, character sets, machines and ROM documentation:
  tables and conversions of one value at a time, without state between calls.
* The connect retries of the monitor client and VICE's text monitor beyond what
  `AudioPin` does with it; the encoding of values in the RPC.
* Cartridge types other than the wrapped one and EasyFlash; the container's chip
  headers; the reader of a disk's blocks; nearest symbol and disassembler; the archive
  of a package; option parsing, help and wording. `help --json` answers in plain text,
  which only wording would tell.
* What a loop of a front end leaves after a failing request or Ctrl-C: `ClientLoops` has
  these ways out, but `EndsAsPromised` speaks of a success and a time-out. An `OSError`
  of `_save` or of the spawn once the emulator is up; breaker updates that overlap.
* A recording command killed in the windows that `Unprotected` names, and two recording
  commands at once: the code has no defence there.
* `type_text`'s pacing and the screen waits: polls without state of their own.

## What is left

What could be added next: the bound of the event deque and late answers together (now in
`ViceLink` and `MonitorProtocol` apart); two commands at once in `FrontEnds`, over
`MonitorDaemon` in place of its one-step requests; the reader of disk images against the
blocks that c1541 writes.
