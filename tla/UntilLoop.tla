------------------------------ MODULE UntilLoop ------------------------------
(***************************************************************************)
(* PetDaemon._run_until on top of the daemon: arm a checkpoint, then Count *)
(* times resume and wait for it, with VICE's hit_count as the fallback for *)
(* a hit whose events were not seen.  ops._run_until_client, call_routine  *)
(* and profile_samples_loop run the same loop.                             *)
(*                                                                         *)
(* All of the daemon's other requests remain possible before and after.    *)
(* They are answered, as MonitorDaemon has it; a request of the loop may go *)
(* without an answer or be answered with an error: _run_until has no        *)
(* finally, so whatever it had armed stays armed.  VICE has served such a   *)
(* request or it has not by the time the client is told.                    *)
(***************************************************************************)
EXTENDS MonitorDaemon

CONSTANTS
  Target,  \* the checkpoint number VICE hands out for the loop
  Count    \* arrivals asked for

ASSUME TargetAssumption == Target \in Checkpoints
ASSUME CountAssumption == Count \in Nat \ {0}

VARIABLES
  reached,   \* the loop variable i: arrivals counted so far
  hitCount,  \* VICE's hit_count of Target
  outcome    \* how the last run_until of this client ended

loopVars == <<reached, hitCount, outcome>>
allVars == <<machine, wire, events, armed, state, at, caller, client,
             reached, hitCount, outcome>>

Looping == {"resume", "deadline", "slice", "list", "again", "look",
            "expired", "final registers", "final delete"}

LoopTypeOK ==
  /\ LinkTypeOK
  /\ state \in {"running", "stopped"}
  /\ at \in Places \cup Looping
  /\ caller \in {"idle", "serve"}
  /\ client \in Clients
  /\ reached \in 0..Count
  /\ hitCount \in 0..Count
  /\ outcome \in {"none", "reached", "timeout", "gone", "failed"}

LoopInit ==
  /\ Init
  /\ reached = 0
  /\ hitCount = 0
  /\ outcome = "none"

-----------------------------------------------------------------------------
(* VICE, and the client that may be killed in the middle of its call.      *)

Fires ==
  /\ \E c \in Checkpoints :
       /\ Hit(c)
       /\ hitCount' = IF c = Target /\ at \in Looping THEN hitCount + 1 ELSE hitCount
  /\ UNCHANGED <<daemonVars, reached, outcome>>

Vanish ==
  /\ at \in Looping
  /\ client = "free"
  /\ client' = "none"
  /\ UNCHANGED <<linkVars, state, at, caller, loopVars>>

-----------------------------------------------------------------------------
(* The loop.                                                               *)

\* VICE numbers the checkpoint.  One that an earlier run_until has left is not
\* this one's: it goes by another number from now on.
ArmTarget ==
  /\ Command
  /\ \E c \in IF Target \in armed THEN Checkpoints \ {Target} ELSE {Target} :
       armed' = armed \cup {Target, c}

RunUntil ==
  /\ Serving("free")
  /\ ArmTarget
  /\ reached' = 0
  /\ hitCount' = 0
  /\ outcome' = "none"
  /\ at' = "resume"
  /\ UNCHANGED <<state, caller, client>>

LoopResume ==
  /\ at = "resume"
  /\ Exit
  /\ state' = "running"
  /\ at' = "deadline"
  /\ UNCHANGED <<caller, client, loopVars>>

SliceBegins ==
  /\ at = "deadline"
  /\ at' = "slice"
  /\ UNCHANGED <<linkVars, state, caller, client, loopVars>>

\* The wait ended on an arrival: go round again or finish.
Arrived ==
  /\ reached' = reached + 1
  /\ at' = IF reached + 1 = Count THEN "final registers" ELSE "resume"

\* Mutant of SliceStopped: any checkpoint counts as an arrival.
SliceStopped_AnyCheckpoint ==
  /\ at = "slice"
  /\ HasStop(Batch)
  /\ TakeBatch
  /\ \/ StopInfo(Batch) /= "bare" /\ Arrived
     \/ StopInfo(Batch) = "bare" /\ at' = "list" /\ UNCHANGED reached
  /\ UNCHANGED <<machine, armed, state, caller, client, hitCount, outcome>>

SliceStopped ==
  /\ at = "slice"
  /\ HasStop(Batch)
  /\ TakeBatch
  /\ \/ StopInfo(Batch) = Target /\ Arrived
     \/ StopInfo(Batch) /= Target /\ at' = "list" /\ UNCHANGED reached
  /\ UNCHANGED <<machine, armed, state, caller, client, hitCount, outcome>>

SliceQuiet ==
  /\ at = "slice"
  /\ Batch /= <<>>
  /\ ~HasStop(Batch)
  /\ TakeBatch
  /\ UNCHANGED <<machine, armed, daemonVars, loopVars>>

SliceOver ==
  /\ at = "slice"
  /\ machine /= "dead"
  /\ Batch = <<>>
  /\ at' = "list"
  /\ UNCHANGED <<linkVars, state, caller, client, loopVars>>

\* Mutant of LoopList: an arrival already counted counts again.
LoopList_AtLeast ==
  /\ at = "list"
  /\ Command
  /\ \/ hitCount >= reached /\ Arrived
     \/ ~(hitCount >= reached) /\ at' = "again" /\ UNCHANGED reached
  /\ UNCHANGED <<armed, state, caller, client, hitCount, outcome>>

\* checkpoint_list: the flag is never set, hit_count tells.
LoopList ==
  /\ at = "list"
  /\ Command
  /\ \/ hitCount > reached /\ Arrived
     \/ ~(hitCount > reached) /\ at' = "again" /\ UNCHANGED reached
  /\ UNCHANGED <<armed, state, caller, client, hitCount, outcome>>

LoopAgain ==
  /\ at = "again"
  /\ Exit
  /\ at' = "look"
  /\ UNCHANGED <<state, caller, client, loopVars>>

ClientStays ==
  /\ at = "look"
  /\ client /= "none"
  /\ at' = "deadline"
  /\ UNCHANGED <<linkVars, state, caller, client, loopVars>>

DeleteTarget == Command /\ armed' = armed \ {Target}

\* Client gone: delete the checkpoint and leave the resume to _restore.
ClientGone ==
  /\ at = "look"
  /\ client = "none"
  /\ DeleteTarget
  /\ outcome' = "gone"
  /\ at' = "serve"
  /\ UNCHANGED <<state, caller, client, reached, hitCount>>

\* Mutant of Expire: the checkpoint stays behind.
Expire_NoDelete ==
  /\ at = "deadline"
  /\ Command
  /\ at' = "expired"
  /\ UNCHANGED <<armed, state, caller, client, loopVars>>

\* Mutant of Expire: the deadline is looked at before the first arrival only.
Expire_FirstOnly ==
  /\ at = "deadline"
  /\ reached = 0
  /\ DeleteTarget
  /\ at' = "expired"
  /\ UNCHANGED <<state, caller, client, loopVars>>

\* The deadline has passed; it is looked at before every slice.
Expire ==
  /\ at = "deadline"
  /\ DeleteTarget
  /\ at' = "expired"
  /\ UNCHANGED <<state, caller, client, loopVars>>

ExpiredResume ==
  /\ at = "expired"
  /\ Exit
  /\ state' = "running"
  /\ outcome' = "timeout"
  /\ at' = "serve"
  /\ UNCHANGED <<caller, client, reached, hitCount>>

FinalRegisters ==
  /\ at = "final registers"
  /\ Command
  /\ at' = "final delete"
  /\ UNCHANGED <<armed, state, caller, client, loopVars>>

FinalDelete ==
  /\ at = "final delete"
  /\ DeleteTarget
  /\ state' = "stopped"
  /\ outcome' = "reached"
  /\ at' = "serve"
  /\ UNCHANGED <<caller, client, reached, hitCount>>

\* The connection is closed: the daemon quits.
LoopFails ==
  /\ at \in Looping
  /\ at = "look" => client = "none"
  /\ QuitsOnError
  /\ UNCHANGED loopVars

\* A request VICE has not served when its time is up; what was written has
\* been read meanwhile.
NotServed ==
  /\ machine /= "dead"
  /\ PollAndKeep
  /\ UNCHANGED <<machine, armed>>

\* A request that has halted the machine and no more than that.
HaltOnly == Command /\ UNCHANGED armed

\* An EXIT not served: the deque has been cleared before it was sent.
ExitNotServed ==
  /\ machine /= "dead"
  /\ events' = Newest(wire)
  /\ wire' = <<>>
  /\ UNCHANGED <<machine, armed>>

\* A request of the loop gets no answer in time, or an error: what it raises
\* leaves _run_until and is sent to the client, and the daemon serves on.
NoAnswer ==
  /\ \/ /\ at \in {"list", "final registers"}
        /\ NotServed \/ HaltOnly
     \/ /\ at \in {"deadline", "look", "final delete"}
        /\ at = "look" => client = "none"
        /\ NotServed \/ HaltOnly \/ DeleteTarget
     \/ at \in {"resume", "again", "expired"} /\ (ExitNotServed \/ Exit)
  /\ at' = "serve"
  /\ outcome' = "failed"
  /\ UNCHANGED <<state, caller, client, reached, hitCount>>

\* The same of its first request, which may have armed the checkpoint.
RunUntilFails ==
  /\ Serving("free")
  /\ NotServed \/ HaltOnly \/ ArmTarget
  /\ reached' = 0
  /\ hitCount' = 0
  /\ outcome' = "failed"
  /\ StaysServing
  /\ UNCHANGED state

-----------------------------------------------------------------------------

Loop ==
  \/ LoopResume \/ SliceBegins \/ SliceStopped \/ SliceQuiet \/ SliceOver
  \/ LoopList \/ LoopAgain \/ ClientStays \/ ClientGone
  \/ Expire \/ ExpiredResume \/ FinalRegisters \/ FinalDelete \/ LoopFails \/ NoAnswer

\* The rest of the daemon.  No other request is handed the number Target, and
\* what a run_until ended with is forgotten with its client, unless it failed.
Otherwise ==
  \/ /\ SubroutineReturns \/ EmulatorDies \/ Request \/ Hangup \/ Daemon
     /\ Target \in armed' => Target \in armed
     /\ UNCHANGED loopVars
  \/ /\ Accept
     /\ reached' = 0 /\ hitCount' = 0
     /\ outcome' = IF outcome = "failed" THEN "failed" ELSE "none"

LoopNext == Fires \/ Vanish \/ RunUntil \/ RunUntilFails \/ Loop \/ Otherwise

LoopSpec == LoopInit /\ [][LoopNext]_allVars

\* The loop never blocks for longer than a slice, and its deadline passes.
LoopFairSpec ==
  /\ LoopSpec
  /\ WF_allVars(Daemon /\ UNCHANGED loopVars)
  /\ WF_allVars(Loop)
  /\ SF_allVars(Expire)
  /\ SF_allVars(Hangup /\ UNCHANGED loopVars)

-----------------------------------------------------------------------------
(* Properties.                                                             *)

\* Where no checkpoint can fire: the machine has been halted, and read empty.
Halting == {"resume", "again"}

\* What the wire holds of Target, what has been counted of it, and where the
\* machine stands for it, at each place of the loop: the inductive invariant.
LoopInv ==
  /\ LoopTypeOK
  /\ at \in Looping => client \in {"free", "none"} /\ outcome = "none"
  /\ machine /= "dead" /\ at \notin Looping \ {"expired"}
       => Target \notin armed \/ outcome = "failed"
  /\ machine /= "dead" /\ at \in Halting => machine /= "running" /\ wire = <<>>
  /\ at \in Looping \ {"expired", "final registers", "final delete"} => reached < Count
  /\ at \in Halting => hitCount = reached
  /\ at \in {"deadline", "slice", "list", "look"} =>
       \/ hitCount = reached
       \/ hitCount = reached + 1 /\ machine \in {"hit", "dead"}
  /\ at \in {"deadline", "slice", "look"} =>
       /\ \A i \in 1..Len(events) : events[i] /= Target
       /\ (\E i \in 1..Len(wire) : wire[i] = Target) => hitCount = reached + 1
  /\ at \in {"final registers", "final delete"} =>
       reached = Count /\ hitCount = Count /\ (machine /= "dead" => machine = "hit")

\* Every arrival is counted once: by its event or, failing that, by hit_count,
\* never by both and never by what an earlier arrival left behind.
ArrivalsAreCountedOnce ==
  at \in Looping \ {"expired"} /\ machine /= "dead"
    => /\ hitCount \in {reached, reached + 1}
       /\ at = "resume" \/ at \in {"final registers", "final delete"}
            => hitCount = reached

\* "Stop at the Nth arrival at REF" (docs/cli.md), as NthArrival states it.
Promise ==
  INSTANCE NthArrival WITH
    arrivals <- hitCount,
    phase <- IF at \in Looping THEN "running"
             ELSE IF outcome = "reached" THEN "stopped" ELSE "idle"
StopsAtNthArrival == Promise!Spec

\* A run_until that tells how it ended - at its arrival, at its deadline, or
\* because the client had gone - has taken its checkpoint out of VICE, and so it
\* stays over all later requests and clients.  Only one whose own request went
\* without an answer (there is no finally) can leave it armed.
NoLeakedCheckpoint ==
  Target \in armed /\ machine /= "dead" => at \in Looping \/ outcome = "failed"

\* The registers run_until reports are those of a machine that has been parked
\* on the arrival all along, not of one its own inspection caught elsewhere.
ReachedIsParked ==
  [][outcome' = "reached" /\ outcome /= "reached" => machine' = "hit"]_allVars

\* A run_until always comes to an end.
LoopEnds == at \in Looping ~> at \notin Looping

\* docstring of _run_until: "on timeout (or the client vanishing) the checkpoint
\* is deleted and the machine is left RUNNING".
GoneLeavesRunning == outcome = "gone" /\ at = "idle" => state = "running"
=============================================================================
