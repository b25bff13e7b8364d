------------------------------- MODULE AudioPin -------------------------------
(***************************************************************************)
(* Recording in real time (audio.py): "audio record --start" takes a       *)
(* session off warp, pins its Speed and arms VICE's WAV recorder; "audio   *)
(* record --stop" undoes all of it; "audio capture" does both around a     *)
(* register log.  Start and stop are separate processes, so what to put    *)
(* back is remembered in a sidecar file, the pin, stamped with the pid of  *)
(* the session it belongs to.                                              *)
(*                                                                         *)
(* One command runs at a time.  Any exchange with VICE may fail, and one   *)
(* that times out may have taken effect all the same; the sidecar file     *)
(* itself can always be read, written and removed.  The process of a       *)
(* command may be killed where the code has left something to recover      *)
(* from, and the session may die and its name be used again.               *)
(***************************************************************************)
EXTENDS Naturals

CONSTANTS
  Speeds,       \* values of VICE's Speed resource
  Realtime,     \* REALTIME_SPEED, 100
  MaxSessions,  \* bound: sessions launched under this name
  MaxFailures   \* bound: failed exchanges per command

ASSUME RealtimeAssumption == Realtime \in Speeds
ASSUME MaxSessionsAssumption == MaxSessions \in Nat \ {0}
ASSUME MaxFailuresAssumption == MaxFailures \in Nat

VARIABLES
  pid,       \* the session's process
  original,  \* its settings as they were launched
  warp, speed,
  recorder,  \* what VICE's recorder writes: nothing, the WAV, or the sink
  wav,       \* the capture's WAV file; "closing" until VICE has fixed its header
  pin,       \* the sidecar file
  at,        \* where the running command is
  doing,     \* which command that is
  saved,     \* its local "saved"
  sink,      \* its local "sink": the throwaway recording took the WAV's place
  restoreFailed, disarmFailed,
  failures,  \* exchanges that failed during it
  outcome    \* how the last command ended

session == <<pid, original>>
settings == <<warp, speed>>
locals == <<doing, saved, sink, restoreFailed, disarmFailed>>
vars == <<pid, original, warp, speed, recorder, wav, pin, at, doing, saved,
          sink, restoreFailed, disarmFailed, failures, outcome>>

Settings == [warp : BOOLEAN, speed : Speeds]
None == [warp |-> FALSE, speed |-> Realtime, pid |-> 0]
Pins == [warp : BOOLEAN, speed : Speeds, pid : 1..MaxSessions]

Commands == {"start", "stop", "capture"}
Places ==
  {"idle", "read", "pin speed", "pin warp", "undo speed", "undo warp",
   "write pin", "arm", "forget", "rollback speed", "rollback warp", "logging",
   "sink", "restore speed", "restore warp", "clear pin", "disarm", "confirm"}

TypeOK ==
  /\ pid \in 1..MaxSessions
  /\ original \in Settings
  /\ warp \in BOOLEAN
  /\ speed \in Speeds
  /\ recorder \in {"off", "wav", "sink"}
  /\ wav \in {"absent", "open", "closing", "final"}
  /\ pin \in Pins \cup {None}
  /\ at \in Places
  /\ doing \in Commands
  /\ saved \in Settings \cup Pins \cup {None}
  /\ sink \in BOOLEAN
  /\ restoreFailed \in BOOLEAN
  /\ disarmFailed \in BOOLEAN
  /\ failures \in 0..MaxFailures
  /\ outcome \in {"none", "ok", "complete", "failed"}

Init ==
  /\ pid = 1
  /\ original \in Settings
  /\ warp = original.warp
  /\ speed = original.speed
  /\ recorder = "off"
  /\ wav = "absent"
  /\ pin = None
  /\ at = "idle"
  /\ doing = "start"
  /\ saved = None
  /\ sink = FALSE
  /\ restoreFailed = FALSE
  /\ disarmFailed = FALSE
  /\ failures = 0
  /\ outcome = "none"

-----------------------------------------------------------------------------
(* One exchange with VICE: it succeeds, or fails with or without effect.   *)

Fails == failures < MaxFailures /\ failures' = failures + 1
Succeeds == UNCHANGED failures

SetSpeed(percent) == speed' = percent /\ UNCHANGED warp
SetWarp(on) == warp' = on /\ UNCHANGED speed

\* VICE closes the WAV it was writing and opens the new target.
Record(target) ==
  /\ recorder' = target
  /\ wav' = IF target = "wav" THEN "open"
            ELSE IF recorder = "wav" THEN "closing" ELSE wav

Goes(place) == at' = place /\ UNCHANGED outcome
Ends(how) == at' = "idle" /\ outcome' = how

-----------------------------------------------------------------------------
(* The world.                                                              *)

\* VICE fixes the header of a WAV it has closed, if sound is serviced.
Finalize ==
  /\ wav = "closing"
  /\ wav' = "final"
  /\ UNCHANGED <<session, settings, recorder, pin, at, locals, failures, outcome>>

\* The session dies and its name is launched again.  The dead record is pruned
\* with its pin, unless it was unreadable and stop --all discarded it alone.
Relaunch ==
  /\ at = "idle"
  /\ pid < MaxSessions
  /\ pid' = pid + 1
  /\ original' \in Settings
  /\ warp' = original'.warp
  /\ speed' = original'.speed
  /\ recorder' = "off"
  /\ wav' = IF wav = "open" THEN "closing" ELSE wav
  /\ pin' \in {pin, None}
  /\ UNCHANGED <<at, locals, failures, outcome>>

\* Where a pin is being made or a failed start undone, nothing on disk says
\* what to put back.
Unprotected == {"pin warp", "undo speed", "undo warp", "write pin",
                "rollback speed", "rollback warp"}

Killed ==
  /\ at \notin {"idle"} \cup Unprotected
  /\ Ends("failed")
  /\ UNCHANGED <<session, settings, recorder, wav, pin, locals, failures>>

-----------------------------------------------------------------------------
(* pin_realtime.                                                           *)

Start ==
  /\ at = "idle"
  /\ doing' \in {"start", "capture"}
  /\ saved' = None
  /\ sink' = FALSE
  /\ restoreFailed' = FALSE
  /\ disarmFailed' = FALSE
  /\ failures' = 0
  /\ Goes("read")
  /\ UNCHANGED <<session, settings, recorder, wav, pin>>

\* The text monitor is opened, warp and Speed are read.
ReadSettings ==
  /\ at = "read"
  /\ \/ /\ Succeeds
        /\ saved' = [warp |-> warp, speed |-> speed]
        /\ Goes("pin speed")
     \/ /\ Fails
        /\ Ends("failed")
        /\ UNCHANGED saved
  /\ UNCHANGED <<session, settings, recorder, wav, pin, doing, sink,
                 restoreFailed, disarmFailed>>

PinSpeed ==
  /\ at = "pin speed"
  /\ \/ Succeeds /\ SetSpeed(Realtime) /\ Goes("pin warp")
     \/ Fails /\ (SetSpeed(Realtime) \/ UNCHANGED settings) /\ Goes("undo speed")
  /\ UNCHANGED <<session, recorder, wav, pin, locals>>

PinWarp ==
  /\ at = "pin warp"
  /\ \/ Succeeds /\ SetWarp(FALSE) /\ Goes("write pin")
     \/ /\ saved.warp
        /\ Fails /\ (SetWarp(FALSE) \/ UNCHANGED settings) /\ Goes("undo speed")
  /\ UNCHANGED <<session, recorder, wav, pin, locals>>

\* _unpin_best_effort: each half is tried, its failure swallowed.
UndoSpeed ==
  /\ at = "undo speed"
  /\ \/ Succeeds /\ SetSpeed(saved.speed)
     \/ Fails /\ (SetSpeed(saved.speed) \/ UNCHANGED settings)
  /\ Goes("undo warp")
  /\ UNCHANGED <<session, recorder, wav, pin, locals>>

UndoWarp ==
  /\ at = "undo warp"
  /\ \/ Succeeds /\ SetWarp(warp \/ saved.warp)
     \/ saved.warp /\ Fails /\ (SetWarp(TRUE) \/ UNCHANGED settings)
  /\ Ends("failed")
  /\ UNCHANGED <<session, recorder, wav, pin, locals>>

-----------------------------------------------------------------------------
(* pinned_record_start.                                                    *)

\* Mutant of HeldPin: a pin is honoured whoever it belongs to.
HeldPin_AnyPid == pin

\* _read_pin: a pin of another process is stale.
HeldPin == IF pin /= None /\ pin.pid = pid THEN pin ELSE None

\* Mutant of WritePin: an earlier start's pin is overwritten.
WritePin_Overwrites ==
  /\ at = "write pin"
  /\ pin' = [warp |-> saved.warp, speed |-> saved.speed, pid |-> pid]
  /\ saved' = pin'
  /\ Goes("arm")
  /\ UNCHANGED <<session, settings, recorder, wav, doing, sink, restoreFailed,
                 disarmFailed, failures>>

\* A start with no stop in between keeps what the first one saved.
WritePin ==
  /\ at = "write pin"
  /\ LET first == IF HeldPin /= None THEN HeldPin ELSE saved
     IN  pin' = [warp |-> first.warp, speed |-> first.speed, pid |-> pid]
  /\ saved' = pin'
  /\ Goes("arm")
  /\ UNCHANGED <<session, settings, recorder, wav, doing, sink, restoreFailed,
                 disarmFailed, failures>>

\* record_start.
Arm ==
  /\ at = "arm"
  /\ \/ /\ Succeeds
        /\ Record("wav")
        /\ IF doing = "start" THEN Ends("ok") ELSE Goes("logging")
     \/ /\ Fails
        /\ Record("wav") \/ UNCHANGED <<recorder, wav>>
        /\ Goes("forget")
  /\ UNCHANGED <<session, settings, pin, locals>>

\* The pin is forgotten first, the settings are restored second.
Forget ==
  /\ at = "forget"
  /\ pin' = None
  /\ Goes("rollback speed")
  /\ UNCHANGED <<session, settings, recorder, wav, locals, failures>>

RollbackSpeed ==
  /\ at = "rollback speed"
  /\ \/ Succeeds /\ SetSpeed(saved.speed) /\ Goes("rollback warp")
     \/ Fails /\ (SetSpeed(saved.speed) \/ UNCHANGED settings) /\ Ends("failed")
  /\ UNCHANGED <<session, recorder, wav, pin, locals>>

RollbackWarp ==
  /\ at = "rollback warp"
  /\ \/ Succeeds /\ SetWarp(warp \/ saved.warp)
     \/ saved.warp /\ Fails /\ (SetWarp(TRUE) \/ UNCHANGED settings)
  /\ Ends("failed")
  /\ UNCHANGED <<session, recorder, wav, pin, locals>>

\* A capture's register log ends, complete or not; the stop follows in a
\* "finally".
Logged ==
  /\ at = "logging"
  /\ Succeeds \/ Fails
  /\ saved' = HeldPin
  /\ pin' = HeldPin
  /\ Goes(IF HeldPin = None THEN "disarm" ELSE "sink")
  /\ UNCHANGED <<session, settings, recorder, wav, doing, sink, restoreFailed,
                 disarmFailed>>

-----------------------------------------------------------------------------
(* pinned_record_stop.                                                     *)

Stop ==
  /\ at = "idle"
  /\ doing' = "stop"
  /\ saved' = HeldPin
  /\ pin' = HeldPin
  /\ sink' = FALSE
  /\ restoreFailed' = FALSE
  /\ disarmFailed' = FALSE
  /\ failures' = 0
  /\ Goes(IF HeldPin = None THEN "disarm" ELSE "sink")
  /\ UNCHANGED <<session, settings, recorder, wav>>

\* Mutant of Sink: the sink is believed to be armed before it is.
Sink_Assumed ==
  /\ at = "sink"
  /\ sink' = TRUE
  /\ \/ Succeeds /\ Record("sink")
     \/ Fails /\ (Record("sink") \/ UNCHANGED <<recorder, wav>>)
  /\ Goes("restore speed")
  /\ UNCHANGED <<session, settings, pin, doing, saved, restoreFailed, disarmFailed>>

\* The WAV is closed in real time by recording to a throwaway sink instead.
Sink ==
  /\ at = "sink"
  /\ \/ Succeeds /\ Record("sink") /\ sink' = TRUE
     \/ Fails /\ (Record("sink") \/ UNCHANGED <<recorder, wav>>) /\ UNCHANGED sink
  /\ Goes("restore speed")
  /\ UNCHANGED <<session, settings, pin, doing, saved, restoreFailed, disarmFailed>>

RestoreSpeed ==
  /\ at = "restore speed"
  /\ \/ Succeeds /\ SetSpeed(saved.speed) /\ Goes("restore warp") /\ UNCHANGED restoreFailed
     \/ /\ Fails
        /\ SetSpeed(saved.speed) \/ UNCHANGED settings
        /\ restoreFailed' = TRUE
        /\ Goes("disarm")
  /\ UNCHANGED <<session, recorder, wav, pin, doing, saved, sink, disarmFailed>>

\* Mutant of RestoreWarp: the failure is swallowed, the pin cleared.
RestoreWarp_Swallows ==
  /\ at = "restore warp"
  /\ \/ Succeeds /\ SetWarp(warp \/ saved.warp)
     \/ saved.warp /\ Fails /\ (SetWarp(TRUE) \/ UNCHANGED settings)
  /\ Goes("clear pin")
  /\ UNCHANGED <<session, recorder, wav, pin, locals>>

RestoreWarp ==
  /\ at = "restore warp"
  /\ \/ Succeeds /\ SetWarp(warp \/ saved.warp) /\ Goes("clear pin") /\ UNCHANGED restoreFailed
     \/ /\ saved.warp
        /\ Fails
        /\ SetWarp(TRUE) \/ UNCHANGED settings
        /\ restoreFailed' = TRUE
        /\ Goes("disarm")
  /\ UNCHANGED <<session, recorder, wav, pin, doing, saved, sink, disarmFailed>>

ClearPin ==
  /\ at = "clear pin"
  /\ pin' = None
  /\ Goes("disarm")
  /\ UNCHANGED <<session, settings, recorder, wav, locals, failures>>

\* record_stop.
Disarm ==
  /\ at = "disarm"
  /\ \/ Succeeds /\ Record("off") /\ UNCHANGED disarmFailed
     \/ /\ Fails
        /\ Record("off") \/ UNCHANGED <<recorder, wav>>
        /\ disarmFailed' = TRUE
  /\ Goes("confirm")
  /\ UNCHANGED <<session, settings, pin, doing, saved, sink, restoreFailed>>

\* _await_finalized: a missing file is not waited for, an unfinished one not
\* trusted.  Without a pin no WAV is known.
Confirm ==
  /\ at = "confirm"
  /\ Ends(IF ~restoreFailed /\ ~disarmFailed
            THEN IF saved = None \/ wav \in {"absent", "final"} THEN "ok" ELSE "failed"
          ELSE IF saved /= None /\ wav = "final" /\ (sink \/ ~disarmFailed)
            THEN "complete" ELSE "failed")
  /\ UNCHANGED <<session, settings, recorder, wav, pin, locals, failures>>

-----------------------------------------------------------------------------

Next ==
  \/ Finalize \/ Relaunch \/ Killed
  \/ Start \/ ReadSettings \/ PinSpeed \/ PinWarp \/ UndoSpeed \/ UndoWarp
  \/ WritePin \/ Arm \/ Forget \/ RollbackSpeed \/ RollbackWarp \/ Logged
  \/ Stop \/ Sink \/ RestoreSpeed \/ RestoreWarp \/ ClearPin \/ Disarm \/ Confirm

Spec == Init /\ [][Next]_vars

-----------------------------------------------------------------------------
(* Properties.                                                             *)

Untouched == warp = original.warp /\ speed = original.speed
PinHolds ==
  pin = [warp |-> original.warp, speed |-> original.speed, pid |-> pid]

Restorable == Untouched \/ PinHolds

\* Settings that may be put on the session.
Own(s) == (s.warp => original.warp) /\ s.speed \in {original.speed, Realtime}

\* Every copy of the session's settings is of its own.
SettingsInv ==
  /\ warp => original.warp
  /\ speed \in {original.speed, Realtime}
  /\ pin.pid <= pid
  /\ pin.pid = pid => Own(pin)
  /\ at \notin {"idle", "read"} => Own(saved)

\* What VICE records, as the command knows it.
RecorderInv ==
  /\ wav = "open" => recorder = "wav"
  /\ at \notin {"idle", "restore speed", "restore warp", "clear pin", "disarm",
                "confirm"} => ~sink
  /\ at \in {"restore speed", "restore warp"} /\ sink => recorder = "sink"

SavedIsOriginal == saved.warp = original.warp /\ saved.speed = original.speed

\* Where the session's own settings are, place by place, if no command suffers
\* more than one failure.
PlaceInv ==
  /\ pin.pid = pid => PinHolds
  /\ at \in {"read", "pin speed", "pin warp", "write pin"} => failures = 0
  /\ at \in {"undo speed", "undo warp", "rollback speed", "rollback warp"}
       => failures = 1
  /\ at \in {"idle", "read", "pin speed", "logging", "disarm", "confirm"}
       => Restorable
  /\ at = "pin speed" => saved.warp = warp /\ saved.speed = speed
  /\ at \in {"pin warp", "undo speed", "write pin"} => PinHolds \/ SavedIsOriginal
  /\ at = "undo warp"
       => PinHolds \/ (SavedIsOriginal /\ speed = original.speed)
  /\ at \in {"arm", "sink", "restore speed", "restore warp"}
       => PinHolds /\ saved = pin
  /\ at = "forget" => PinHolds /\ saved = pin /\ failures = 1
  /\ at \in {"rollback speed", "rollback warp"} => SavedIsOriginal
  /\ at \in {"rollback warp", "restore warp"} => speed = original.speed
  /\ at = "clear pin" => Untouched
  /\ at \in {"disarm", "confirm"} /\ ~restoreFailed => Untouched /\ pin = None
  /\ at = "confirm" /\ ~disarmFailed => recorder = "off"

\* If no command suffers more than one failed exchange, then wherever one may be
\* killed, and whatever order starts and stops come in, the session has its
\* own settings or the pin on disk says what they were.
Undoable == Restorable \/ at \in Unprotected

\* No command puts settings on a session that are neither real time nor the
\* session's own: the pin of a dead session of the same name is never applied.
OnlyOwnSettings ==
  /\ warp => original.warp
  /\ speed \in {original.speed, Realtime}

\* A stop that reports success has put everything back, whatever happened to
\* the commands before it.
StopRestores ==
  [][Confirm /\ outcome' = "ok"
       => Untouched /\ recorder = "off" /\ pin = None]_vars

\* A WAV written or closed under warp is worthless, so a stop that believes its
\* sink has taken over never brings warp back while the WAV is still written.
StopClosesFirst == [][RestoreWarp /\ sink /\ warp' => wav' /= "open"]_vars

\* docstring of pinned_record_start: "A failure to arm unpins before it
\* propagates, so a broken capture never leaves the session stuck at 1x".
ArmFailureUnpins ==
  [][(RollbackSpeed \/ RollbackWarp) /\ at' = "idle" => Restorable']_vars
=============================================================================
