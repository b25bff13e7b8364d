---------------------------- MODULE MonitorDaemon ----------------------------
(***************************************************************************)
(* PetDaemon (daemon.py): the process that owns a session's only VICE      *)
(* connection, serves one client at a time, and remembers in "state"       *)
(* whether the machine should be running or stopped between clients.       *)
(*                                                                         *)
(* A client is any sequence of requests, and may vanish after any of them. *)
(* One discipline of the front ends matters and is kept: wait_for_stop is  *)
(* only ever asked by the loop of ops.wait_for_break (and loops of its     *)
(* shape), after a checkpoint_list that halted the machine and a resume.   *)
(* Requests the daemon refuses, and "status", change nothing here.         *)
(***************************************************************************)
EXTENDS ViceLink

VARIABLES
  state,   \* PetDaemon.state
  at,      \* where the daemon is in serve_forever
  caller,  \* where _restore returns to
  client   \* where the connected client is in its program

daemonVars == <<state, at, caller, client>>
vars == <<machine, wire, events, armed, state, at, caller, client>>

Finishing == {"finish", "registers", "late registers"}
Places == {"idle", "serve", "wait", "poll", "exit", "exited"} \cup Finishing
Clients == {"none", "free", "listed", "resumed", "relist", "relisted"}

TypeOK ==
  /\ LinkTypeOK
  /\ state \in {"running", "stopped"}
  /\ at \in Places
  /\ caller \in {"idle", "serve"}
  /\ client \in Clients

Init ==
  /\ LinkInit
  /\ state = "running"
  /\ at = "idle"
  /\ caller = "idle"
  /\ client = "none"

-----------------------------------------------------------------------------
(* VICE.                                                                   *)

CheckpointFires == \E c \in Checkpoints : Hit(c) /\ UNCHANGED daemonVars
SubroutineReturns == at \in Finishing /\ Return /\ UNCHANGED daemonVars
EmulatorDies == Die /\ UNCHANGED daemonVars

-----------------------------------------------------------------------------
(* Idle: pump what VICE says, accept the next client.                      *)

Pump ==
  /\ at = "idle"
  /\ machine /= "dead"
  /\ wire /= <<>>
  /\ state' = IF LastIs(Unread, "STOPPED") THEN "stopped"
              ELSE IF LastIs(Unread, "RESUMED") THEN "running" ELSE state
  /\ PollAndKeep
  /\ UNCHANGED <<machine, armed, at, caller, client>>

\* Mutant of IdleExit: the pump's False is ignored.
IdleExit_Ignored ==
  /\ at = "idle"
  /\ machine = "dead"
  /\ UNCHANGED vars

IdleExit ==
  /\ at = "idle"
  /\ machine = "dead"
  /\ at' = "exited"
  /\ UNCHANGED <<linkVars, state, caller, client>>

\* The select pumps (or exits) first, but an event it did not see yet may come
\* in before the accept.
Accept ==
  /\ at = "idle"
  /\ machine /= "dead"
  /\ at' = "serve"
  /\ client' = "free"
  /\ UNCHANGED <<linkVars, state, caller>>

-----------------------------------------------------------------------------
(* Requests of a connected client.                                         *)

Serving(where) == at = "serve" /\ client = where
StaysServing == UNCHANGED <<at, caller, client>>

\* Reads, writes, registers, checkpoint_list, reset, ...
Inspect ==
  /\ Serving("free")
  /\ Command
  /\ StaysServing
  /\ UNCHANGED <<armed, state>>

CheckpointSet(c) ==
  /\ Serving("free")
  /\ Command
  /\ armed' = armed \cup {c}
  /\ StaysServing
  /\ UNCHANGED state

CheckpointDelete(c) ==
  /\ Serving("free")
  /\ c \in armed
  /\ Command
  /\ armed' = armed \ {c}
  /\ StaysServing
  /\ UNCHANGED state

Release ==
  /\ Serving("free")
  /\ at' = "poll"
  /\ caller' = "serve"
  /\ UNCHANGED <<linkVars, state, client>>

\* Mutant of Resume: the daemon forgets to note that the machine runs.
Resume_StateForgotten ==
  /\ Serving("free")
  /\ Exit
  /\ StaysServing
  /\ UNCHANGED state

Resume ==
  /\ Serving("free")
  /\ Exit
  /\ state' = "running"
  /\ StaysServing

Step ==
  /\ Serving("free")
  /\ Advance
  /\ state' = "stopped"
  /\ StaysServing

Finish ==
  /\ Serving("free")
  /\ ExecuteUntilReturn
  /\ at' = "finish"
  /\ UNCHANGED <<state, caller, client>>

Quit ==
  /\ Serving("free")
  /\ Die
  /\ at' = "exited"
  /\ client' = "none"
  /\ UNCHANGED <<state, caller>>

\* A request, new or under way, that finds the connection closed:
\* ConnectionError, so the daemon quits.
QuitsOnError ==
  /\ machine = "dead"
  /\ at' = "exited"
  /\ client' = "none"
  /\ UNCHANGED <<linkVars, state, caller>>

RequestFails == at = "serve" /\ QuitsOnError
WaitFails == at \in {"wait"} \cup Finishing /\ QuitsOnError

\* Mutant of Hangup: the restore after a client is forgotten.
Hangup_NoRestore ==
  /\ at = "serve"
  /\ at' = "idle"
  /\ caller' = "idle"
  /\ client' = "none"
  /\ UNCHANGED <<linkVars, state>>

\* The client closes its socket: at the end of its program or anywhere in it.
Hangup ==
  /\ at = "serve"
  /\ at' = "poll"
  /\ caller' = "idle"
  /\ client' = "none"
  /\ UNCHANGED <<linkVars, state>>

-----------------------------------------------------------------------------
(* ops.wait_for_break over the daemon: list, resume, wait, and again.      *)

BreakList ==
  /\ at = "serve" /\ client \in {"free", "relist"}
  /\ Command
  /\ client' = IF client = "free" THEN "listed" ELSE "relisted"
  /\ UNCHANGED <<armed, state, at, caller>>

\* The list never reports a hit, so the loop resumes; once its own deadline
\* has passed it resumes just the same and returns.
BreakResume ==
  /\ at = "serve" /\ client \in {"listed", "relisted"}
  /\ Exit
  /\ state' = "running"
  /\ client' \in {"resumed", "free"}
  /\ UNCHANGED <<at, caller>>

BreakWait ==
  /\ Serving("resumed")
  /\ at' = "wait"
  /\ UNCHANGED <<linkVars, state, caller, client>>

\* _wait_for_stop.  The loop goes round again unless the wait names the
\* checkpoint it asked for, or any if it asked for none.
WaitStopped ==
  /\ at = "wait"
  /\ HasStop(Batch)
  /\ TakeBatch
  /\ state' = "stopped"
  /\ at' = "serve"
  /\ client' \in IF StopInfo(Batch) = "bare" THEN {"relist"} ELSE {"free", "relist"}
  /\ UNCHANGED <<machine, armed, caller>>

WaitQuiet ==
  /\ at = "wait"
  /\ Batch /= <<>>
  /\ ~HasStop(Batch)
  /\ TakeBatch
  /\ UNCHANGED <<machine, armed, daemonVars>>

\* The slice is over, or the client has gone and its socket will read empty.
WaitTimeout ==
  /\ at = "wait"
  /\ machine /= "dead"
  /\ Batch = <<>>
  /\ at' = "serve"
  /\ client' = "relist"
  /\ UNCHANGED <<linkVars, state, caller>>

-----------------------------------------------------------------------------
(* finish(): wait for a stop, whichever it is, then read the registers.    *)

FinishStopped ==
  /\ at = "finish"
  /\ HasStop(Batch)
  /\ TakeBatch
  /\ at' = "registers"
  /\ UNCHANGED <<machine, armed, state, caller, client>>

FinishQuiet ==
  /\ at = "finish"
  /\ Batch /= <<>>
  /\ ~HasStop(Batch)
  /\ TakeBatch
  /\ UNCHANGED <<machine, armed, daemonVars>>

FinishTimeout ==
  /\ at = "finish"
  /\ machine /= "dead"
  /\ Batch = <<>>
  /\ at' = "late registers"
  /\ UNCHANGED <<linkVars, state, caller, client>>

\* The registers request halts whatever still runs: the verb's own halt.
FinishRegisters ==
  /\ at \in {"registers", "late registers"}
  /\ machine /= "dead"
  /\ machine' = IF machine = "running" THEN "step" ELSE machine
  /\ events' = Newest(Halted(Unread))
  /\ wire' = <<>>
  /\ state' = "stopped"
  /\ at' = "serve"
  /\ UNCHANGED <<armed, caller, client>>

-----------------------------------------------------------------------------
(* _restore: notice a park, then resume if the machine should be running.  *)

\* Mutant of RestorePoll: it resumes whatever the state is.
RestorePoll_Blind ==
  /\ at = "poll"
  /\ machine /= "dead"
  /\ state' = IF HoldsPark(Unread) THEN "stopped" ELSE state
  /\ at' = "exit"
  /\ PollAndKeep
  /\ UNCHANGED <<machine, armed, caller, client>>

RestorePoll ==
  /\ at = "poll"
  /\ machine /= "dead"
  /\ state' = IF HoldsPark(Unread) THEN "stopped" ELSE state
  /\ at' = IF state' = "running" THEN "exit" ELSE caller
  /\ PollAndKeep
  /\ UNCHANGED <<machine, armed, caller, client>>

RestoreExit ==
  /\ at = "exit"
  /\ Exit
  /\ at' = caller
  /\ UNCHANGED <<state, caller, client>>

\* VICE is gone: _restore swallows the error, the loops notice later.
RestoreFails ==
  /\ at \in {"poll", "exit"}
  /\ machine = "dead"
  /\ at' = caller
  /\ UNCHANGED <<linkVars, state, caller, client>>

-----------------------------------------------------------------------------

Vice == CheckpointFires \/ SubroutineReturns \/ EmulatorDies

Request ==
  \/ Inspect \/ Release \/ Resume \/ Step \/ Finish \/ Quit
  \/ \E c \in Checkpoints : CheckpointSet(c) \/ CheckpointDelete(c)
  \/ BreakList \/ BreakResume \/ BreakWait \/ RequestFails

Daemon ==
  \/ Pump \/ IdleExit
  \/ WaitStopped \/ WaitQuiet \/ WaitTimeout \/ WaitFails
  \/ FinishStopped \/ FinishQuiet \/ FinishTimeout \/ FinishRegisters
  \/ RestorePoll \/ RestoreExit \/ RestoreFails

Next == Vice \/ Accept \/ Request \/ Hangup \/ Daemon

Spec == Init /\ [][Next]_vars

\* The daemon's loop never blocks except on its sockets, and every front end
\* closes its connection sooner or later, however many requests it makes.
FairSpec == Spec /\ WF_vars(Daemon) /\ SF_vars(Hangup)

-----------------------------------------------------------------------------
(* Properties.                                                             *)

\* The newest events are those of the hit the machine is parked on.
EndsInHit(s) ==
  /\ Len(s) >= 2
  /\ s[Len(s) - 1] \in Checkpoints
  /\ s[Len(s)] = "STOPPED"

\* A hit and its STOPPED come in one write, so nothing ends between the two.
Whole(s) == s /= <<>> => s[Len(s)] \in {"STOPPED", "RESUMED"}

\* What unread events say of a machine that is still there.
EventsAreTrue ==
  machine /= "dead" =>
    /\ Whole(events) /\ Whole(wire)
    /\ LastIs(Unread, "STOPPED") => machine /= "running"
    /\ LastIs(Unread, "RESUMED") => machine = "running"
    /\ HoldsPark(Unread) => machine \in Parks
    /\ machine = "hit" /\ state = "running" /\ at \notin Finishing
         => EndsInHit(Unread)

\* What the daemon believes, and where it may stand, for each kind of halt.
BeliefIsTrue ==
  /\ state = "stopped" /\ at \notin Finishing => machine \in Parks \cup {"dead"}
  /\ machine = "command" => state = "running" /\ at \in {"serve", "poll", "exit"}
  /\ machine = "step" => state = "stopped" \/ at \in Finishing
  /\ at = "exit" => state = "running"

\* The list and resume before a wait leave nothing that could end it early.
WaitIsClean ==
  /\ at = "wait" => client = "resumed"
  /\ client = "resumed" => at \in {"serve", "wait"}
  /\ client \in {"listed", "relisted"} => at = "serve"
  /\ client \in {"listed", "relisted"} /\ machine /= "dead"
       => machine /= "running" /\ wire = <<>>
  /\ client = "resumed" /\ machine /= "dead"
       => /\ machine \in {"running", "hit"}
          /\ HasStop(Unread) => machine = "hit"

\* The inductive invariant the safety theorems rest on: every event kept or in
\* flight, every belief of the daemon and every wait agrees with the machine.
IInv == TypeOK /\ EventsAreTrue /\ BeliefIsTrue /\ WaitIsClean

\* The daemon never believes "stopped" of a machine that runs, or that only an
\* inspection has halted: finish is the one verb during which the belief and
\* the machine may disagree.  (state is what decides whether _restore resumes.)
StopIsTrue ==
  state = "stopped" /\ at \notin Finishing
    => machine \in Parks \cup {"dead"}

\* A machine parked on a checkpoint is either known to be stopped, or the
\* evidence is still where _restore and the idle pump look for it.
ParkIsRemembered ==
  machine = "hit" /\ at \notin Finishing
    => state = "stopped" \/ HoldsPark(Unread)

\* Nobody connected: no machine is left halted by the mere side effect of a
\* command (treating that STOPPED noise as a park wedges the machine).
NoWedge == at = "idle" => machine /= "command"

\* _restore never resumes a park that was there when it looked.
RestoreKeepsPark == [][RestorePoll /\ machine = "hit" => state' = "stopped"]_vars

\* A halt the daemon knows of ends only when a client asks for it: "it STAYS
\* halted, across as many commands as you like, until c64 continue".
HaltHolds ==
  [][state = "stopped" /\ machine \in Parks /\ machine' = "running"
       => Resume \/ BreakResume \/ Finish]_vars

\* The side effect of a command on a running machine is always undone.
HaltIsUndone == machine = "command" ~> machine /= "command"

\* A daemon whose emulator is gone exits.
DaemonExits == machine = "dead" ~> at = "exited"

\* docs/cli.md: "Inspection commands never disturb the state".  As the code of
\* _restore is commented, that includes a park during the client's tenure.
InspectionKeepsPark == [][at = "exit" /\ machine = "hit" => machine' /= "running"]_vars

\* docs/cli.md on wait --break: "blocks until the NEXT checkpoint hit, and
\* leaves it stopped there".  Once the wait has resumed the machine, the next
\* hit is never resumed away.  (state is "stopped" when the wait has reported
\* the hit and goes on because it asked for another checkpoint.)
WaitStopsAtNextHit ==
  [][client = "relisted" /\ machine = "hit" /\ state = "running"
       => machine' /= "running"]_vars

\* docs/cli.md on finish: "Run until the current subroutine returns".  When
\* finish has not timed out, the machine has stopped by itself before the
\* registers are read.
FinishStopsAtReturn == at = "registers" => machine \in Parks \cup {"dead"}
=============================================================================
