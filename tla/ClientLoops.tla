----------------------------- MODULE ClientLoops -----------------------------
(***************************************************************************)
(* The operations that run the machine over and over from one command:     *)
(* call_routine, profile_samples_loop, run_until and key_hold (ops.py) and *)
(* the SID log (audio.py).  Where the session's daemon knows the operation *)
(* the whole loop is one call to it (daemon.py); from an older daemon the  *)
(* answer is an error that sends the command to its own loop, over the     *)
(* daemon's single requests (rpc.py, daemon_client.py).                    *)
(*                                                                         *)
(* Here an arrival is always announced by an event, in its slice or after  *)
(* it, when only hit_count tells the loop; what else the link may do to    *)
(* events is in ViceLink and UntilLoop.  The anchor of until and the trap  *)
(* of call and profile are one checkpoint, `armed`.                        *)
(***************************************************************************)
EXTENDS Naturals, Sequences

CONSTANTS
  Count,   \* arrivals asked of profile and until, frames of hold
  Frames   \* frames asked of a SID log

ASSUME LoopAssumption == Count \in Nat \ {0} /\ Frames \in Nat \ {0}

VARIABLES
  daemon,   \* what the session's daemon knows: the method, the error code
  op,       \* the operation the command is for
  opts,     \* masked: no interrupts; aim: frame of the scheduled write;
            \* sane: the schedule is in range; release: let go of the key
  side,     \* who runs its loop: "client", "daemon", or nobody yet
  pc,       \* where it stands
  reply,    \* the error the daemon has answered with
  taken,    \* arrivals noticed
  blocks,   \* SID blocks logged: does each carry the scheduled write?
  entryI,   \* the I flag at the start of the profile
  gone,     \* the command has been interrupted while the daemon runs its loop
  outcome,  \* how it ended: "fired", "expired", "refused", "broken", "gone"
  begun,    \* where the operation's work has begun
  cpu,      \* "running" or "halted"
  place,    \* where the CPU is: "program", "routine", "trap", "lost"
  armed,    \* the checkpoint is set in VICE
  hits,     \* its hit_count
  event,    \* its hit is in the daemon's deque
  state,    \* the run/stop state the daemon holds for the session
  iflag,    \* the I flag
  timers,   \* CIA#2's timers: "free", "counting", "stopped"
  chip,     \* the scheduled write has reached the SID
  key       \* $CB holds the key

loopVars == <<op, opts, side, reply, taken, blocks, entryI, gone, begun>>
cpuVars == <<cpu, place, armed, hits, event, state>>
chipVars == <<iflag, timers, chip, key>>
vars == <<daemon, pc, outcome, loopVars, cpuVars, chipVars>>

Operations == {"call", "profile", "until", "hold", "sidlog"}
Bracketed == op \in {"call", "profile"}

Replies == [err : {"none", "ValueError", "TimeoutError"},
            code : {"none", "unknown_method"}, unknown : BOOLEAN]

NoReply == [err |-> "none", code |-> "none", unknown |-> FALSE]

TypeOK ==
  /\ daemon \in [knows : BOOLEAN, codes : BOOLEAN]
  /\ op \in Operations \cup {"none"}
  /\ opts \in [masked : BOOLEAN, aim : 0..Frames - 1, sane : BOOLEAN, release : BOOLEAN]
  /\ side \in {"none", "client", "daemon"}
  /\ pc \in {"idle", "ask", "reply", "press", "arm", "start", "wait", "list", "again",
             "abort", "taken", "finish", "frame", "lastframe", "letgo", "over"}
  /\ reply \in Replies
  /\ taken \in 0..Count
  /\ blocks \in Seq(BOOLEAN) /\ Len(blocks) <= Frames
  /\ entryI \in BOOLEAN /\ gone \in BOOLEAN
  /\ outcome \in {"none", "fired", "expired", "refused", "broken", "gone"}
  /\ begun \subseteq {"client", "daemon"}
  /\ cpu \in {"running", "halted"} /\ place \in {"program", "routine", "trap", "lost"}
  /\ armed \in BOOLEAN /\ hits \in 0..Count + 1 /\ event \in BOOLEAN
  /\ state \in {"running", "stopped"}
  /\ iflag \in BOOLEAN /\ timers \in {"free", "counting", "stopped"}
  /\ chip \in BOOLEAN /\ key \in BOOLEAN

Init ==
  /\ daemon \in [knows : BOOLEAN, codes : BOOLEAN]
  /\ op = "none" /\ opts = [masked |-> FALSE, aim |-> 0, sane |-> TRUE, release |-> TRUE]
  /\ side = "none" /\ pc = "idle" /\ reply = NoReply /\ taken = 0 /\ blocks = <<>>
  /\ entryI = FALSE /\ gone = FALSE /\ outcome = "none" /\ begun = {}
  /\ cpu = "running" /\ place = "program" /\ armed = FALSE /\ hits = 0
  /\ event = FALSE /\ state = "running"
  /\ iflag = FALSE /\ timers = "free" /\ chip = FALSE /\ key = FALSE

-----------------------------------------------------------------------------
(* The machine.                                                            *)

\* EXIT drops the events; the CPU goes on from where it is, and past a trap
\* that only the checkpoint kept it from.
Resumes(from) ==
  /\ cpu' = "running" /\ event' = FALSE /\ state' = "running"
  /\ place' = IF from /= "trap" THEN from ELSE IF Bracketed THEN "lost" ELSE "program"

\* The routine returns to its trap, or the program comes by the anchor.
Arrives ==
  /\ cpu = "running" /\ armed /\ hits <= Count
  /\ place = IF Bracketed THEN "routine" ELSE "program"
  /\ cpu' = "halted" /\ place' = "trap" /\ hits' = hits + 1 /\ event' = TRUE
  /\ UNCHANGED <<daemon, pc, outcome, loopVars, armed, state, chipVars>>

\* SCNKEY clears the key, where the program has left it its interrupt.
Scan ==
  /\ cpu = "running" /\ key /\ key' = FALSE
  /\ UNCHANGED <<daemon, pc, outcome, loopVars, cpuVars, iflag, timers, chip>>

-----------------------------------------------------------------------------
(* The command and its call to the daemon.                                 *)

\* A checkpoint that a broken or interrupted loop has left is deleted by hand;
\* a loop beside it would have two, which this model leaves out.
Clear ==
  /\ pc = "idle" /\ armed
  /\ armed' = FALSE
  /\ UNCHANGED <<daemon, pc, outcome, loopVars, cpu, place, hits, event, state, chipVars>>

\* A command begins; what it finds in the machine is the last one's doing.
Begin(o) ==
  /\ pc = "idle" /\ ~armed
  /\ op' = o
  /\ opts' \in [masked : {FALSE, o = "profile"}, aim : IF o = "sidlog" THEN 0..Frames - 1 ELSE {0},
               sane : {TRUE, o /= "sidlog"}, release : {TRUE, o /= "hold"}]
  /\ side' = IF o = "call" THEN "client" ELSE "none"
  /\ begun' = IF o = "call" THEN {"client"} ELSE {}
  /\ pc' = CASE o = "call" -> "arm" [] o = "hold" -> "press" [] OTHER -> "ask"
  /\ reply' = NoReply /\ taken' = 0 /\ blocks' = <<>> /\ gone' = FALSE
  /\ hits' = 0 /\ chip' = FALSE /\ outcome' = "none"
  /\ UNCHANGED <<daemon, entryI, cpu, place, armed, event, state, iflag, timers, key>>

\* key_hold writes the key code before each frame; the machine stays as it is.
Press ==
  /\ pc = "press"
  /\ key' = TRUE /\ pc' = "ask" /\ side' = "none"
  /\ UNCHANGED <<daemon, outcome, op, opts, reply, taken, blocks, entryI, gone, begun,
                 cpuVars, iflag, timers, chip>>

FirstStep == IF op = "sidlog" THEN "frame" ELSE "arm"

\* error_payload of an unknown method.
UnknownMethod ==
  [err |-> "ValueError", code |-> IF daemon.codes THEN "unknown_method" ELSE "none",
   unknown |-> TRUE]

\* _dispatch: a method it does not have, a schedule out of range, or the loop.
Ask ==
  /\ pc = "ask"
  /\ IF daemon.knows /\ (op = "sidlog" => opts.sane)
     THEN /\ side' = "daemon" /\ begun' = begun \cup {"daemon"}
          /\ pc' = FirstStep
          /\ UNCHANGED reply
     ELSE /\ reply' = IF ~daemon.knows THEN UnknownMethod
                      ELSE [NoReply EXCEPT !.err = "ValueError"]
          /\ pc' = "reply"
          /\ UNCHANGED <<side, begun>>
  /\ UNCHANGED <<daemon, outcome, op, opts, taken, blocks, entryI, gone, cpuVars, chipVars>>

\* Mutant of FallsBack: any ValueError is taken for an old daemon's.
FallsBack_ValueError == reply.err = "ValueError"

\* raise_remote: the code, or the message of a daemon older than the code.
FallsBack == reply.code = "unknown_method" \/ (reply.err = "ValueError" /\ reply.unknown)

\* The command runs the loop itself, or the error is its end.
Answered ==
  /\ pc = "reply"
  /\ IF FallsBack
     THEN /\ side' = "client" /\ begun' = begun \cup {"client"}
          /\ pc' = FirstStep
          /\ UNCHANGED outcome
     ELSE /\ outcome' = IF reply.err = "ValueError" THEN "refused" ELSE "broken"
          /\ pc' = "over"
          /\ UNCHANGED <<side, begun>>
  /\ UNCHANGED <<daemon, op, opts, reply, taken, blocks, entryI, gone, cpuVars, chipVars>>

-----------------------------------------------------------------------------
(* The loop, on either side.                                               *)

\* The checkpoint is set, which halts the machine; a profile keeps the flags.
Arm ==
  /\ pc = "arm"
  /\ cpu' = "halted" /\ armed' = TRUE
  /\ entryI' = iflag
  /\ state' = IF op = "profile" /\ side = "daemon" THEN "stopped" ELSE state
  /\ pc' = "start"
  /\ UNCHANGED <<daemon, outcome, op, opts, side, reply, taken, blocks, gone, begun,
                 place, hits, event, chipVars>>

\* The return address, the flags, PC and the timers are set, and off it goes.
Start ==
  /\ pc = "start"
  /\ Resumes(IF Bracketed THEN "routine" ELSE place)
  /\ iflag' = IF op = "profile" /\ opts.masked THEN TRUE ELSE iflag
  /\ timers' = IF op = "profile" THEN "counting" ELSE timers
  /\ pc' = "wait"
  /\ UNCHANGED <<daemon, outcome, loopVars, armed, hits, chip, key>>

\* wait_for_stop names the checkpoint; asked for by a client it is the daemon
\* that notes the stop.
WaitSees ==
  /\ pc = "wait" /\ event
  /\ event' = FALSE
  /\ state' = IF side = "client" THEN "stopped" ELSE state
  /\ pc' = "taken"
  /\ UNCHANGED <<daemon, outcome, loopVars, cpu, place, armed, hits, chipVars>>

\* The slice is over, and the machine runs on.
WaitSlice ==
  /\ pc = "wait"
  /\ ~event
  /\ pc' = "list"
  /\ UNCHANGED <<daemon, outcome, loopVars, cpuVars, chipVars>>

\* Mutant of Arrived: the last arrival's hit is counted again.
Arrived_Again == hits >= taken /\ hits > 0

\* The hit_count is past the arrivals noticed before.
Arrived == hits > taken

\* checkpoint_list halts the machine, unless an arrival has since the slice:
\* then its event waits in the deque, behind the loop's back.
List ==
  /\ pc = "list"
  /\ cpu' = "halted"
  /\ pc' = IF Arrived THEN "taken" ELSE "again"
  /\ UNCHANGED <<daemon, outcome, loopVars, place, armed, hits, event, state, chipVars>>

\* Not yet: resume, and see whether the command is still there.
Again ==
  /\ pc = "again"
  /\ Resumes(place)
  /\ pc' = IF gone THEN "abort" ELSE "wait"
  /\ UNCHANGED <<daemon, outcome, loopVars, armed, hits, chipVars>>

\* The command has gone: the daemon's loop removes its checkpoint.
Abort ==
  /\ pc = "abort"
  /\ armed' = FALSE /\ cpu' = "halted"
  /\ outcome' = "gone" /\ pc' = "over"
  /\ UNCHANGED <<daemon, loopVars, place, hits, event, state, chipVars>>

\* The deadline: the checkpoint goes, the machine runs on, flags and timers
\* stay as the loop has set them.  key_hold lets go of the key.
Expires ==
  /\ pc = "wait"
  /\ armed' = FALSE
  /\ Resumes(place)
  /\ outcome' = IF gone THEN "gone" ELSE "expired"
  /\ pc' = IF op = "hold" /\ opts.release /\ ~gone THEN "letgo" ELSE "over"
  /\ UNCHANGED <<daemon, loopVars, hits, chipVars>>

\* An arrival: a profile reads and stops its timers.  A count of nothing ends
\* it, for the timers then lie; call has but one arrival, hold one per frame.
Takes ==
  /\ pc = "taken"
  /\ taken' = taken + 1
  /\ timers' = IF op = "profile" THEN "stopped" ELSE timers
  /\ \E zero \in {FALSE, op = "profile"} :
       pc' = IF op \in {"call", "hold"} \/ zero \/ taken + 1 = Count THEN "finish" ELSE "start"
  /\ UNCHANGED <<daemon, outcome, op, opts, side, reply, blocks, entryI, gone, begun,
                 cpuVars, iflag, chip, key>>

\* Mutant of Finish: the daemon does not note that the machine is stopped.
Finish_Unnoted ==
  /\ pc = "finish"
  /\ armed' = FALSE
  /\ iflag' = IF op = "profile" /\ opts.masked THEN entryI ELSE iflag
  /\ outcome' = (IF gone THEN "gone" ELSE "fired") /\ pc' = "over"
  /\ UNCHANGED <<daemon, loopVars, cpu, place, hits, event, state, timers, chip, key>>

\* The checkpoint goes, the I flag is as it was, the machine stays stopped.
Finish ==
  /\ pc = "finish"
  /\ armed' = FALSE
  /\ iflag' = IF op = "profile" /\ opts.masked THEN entryI ELSE iflag
  /\ state' = IF side = "daemon" THEN "stopped" ELSE state
  /\ outcome' = (IF gone THEN "gone" ELSE "fired") /\ pc' = "over"
  /\ UNCHANGED <<daemon, loopVars, cpu, place, hits, event, timers, chip, key>>

\* One frame of a SID log: what is scheduled for it, a resume that runs it,
\* and a read that halts the machine at its end.  The daemon then looks for
\* the client.
Frame ==
  /\ pc = "frame" /\ Len(blocks) < Frames
  /\ pc' = IF gone THEN "lastframe" ELSE "frame"
  /\ chip' = (chip \/ opts.aim = Len(blocks))
  /\ blocks' = Append(blocks, chip')
  /\ cpu' = "halted" /\ event' = FALSE /\ state' = "running"
  /\ place' = "program"
  /\ UNCHANGED <<daemon, outcome, op, opts, side, reply, taken, entryI, gone, begun,
                 armed, hits, iflag, timers, key>>

\* Every frame is logged, the deadline is over or the command gone: the log
\* leaves the machine running.
FramesOver ==
  /\ pc \in {"frame", "lastframe"}
  /\ Resumes("program")
  /\ outcome' = CASE gone -> "gone" [] Len(blocks) = Frames -> "fired" [] OTHER -> "expired"
  /\ pc' = "over"
  /\ UNCHANGED <<daemon, loopVars, armed, hits, chipVars>>

\* A request fails half way through the loop, which undoes nothing; a SID log
\* that the command itself runs resumes in its finally, if it still can.
Breaks ==
  /\ pc \in {"arm", "start", "wait", "list", "again", "taken", "finish", "frame", "lastframe",
            "abort"}
  /\ IF side = "daemon" THEN reply' = [NoReply EXCEPT !.err = "TimeoutError"] /\ pc' = "reply"
                        ELSE UNCHANGED reply /\ pc' = "over"
  /\ outcome' = "broken"
  /\ \/ UNCHANGED cpuVars
     \/ op = "sidlog" /\ side = "client" /\ Resumes("program") /\ UNCHANGED <<armed, hits>>
  /\ UNCHANGED <<daemon, op, opts, side, taken, blocks, entryI, gone, begun, chipVars>>

\* The user interrupts: a loop of the command's own ends where it is, a SID
\* log through its finally; one of the daemon's at its next look.
Interrupt ==
  /\ pc \notin {"idle", "over"} /\ ~gone
  /\ gone' = TRUE
  /\ CASE side = "daemon" -> UNCHANGED <<pc, outcome>>
       [] pc = "frame" /\ side = "client" -> pc' = "lastframe" /\ UNCHANGED outcome
       [] OTHER -> pc' = "over" /\ outcome' = "gone"
  /\ UNCHANGED <<daemon, op, opts, side, reply, taken, blocks, entryI, begun, cpuVars, chipVars>>

\* A hold's next frame, or its end: the key is let go, on a machine that is
\* left running where no frame came.
LetGo ==
  /\ pc = "letgo"
  /\ key' = FALSE
  /\ pc' = "over"
  /\ UNCHANGED <<daemon, outcome, loopVars, cpuVars, iflag, timers, chip>>

\* The connection closes: _restore keeps a stop it knows of or finds an event
\* of, and resumes anything else.
Over ==
  /\ pc = "over"
  /\ IF state = "stopped" \/ event
     THEN cpu' = "halted" /\ state' = "stopped" /\ UNCHANGED <<place, event>>
     ELSE Resumes(place)
  /\ IF op = "hold" /\ outcome = "fired"
     THEN pc' = IF taken < Count THEN "press" ELSE "idle"
     ELSE pc' = "idle"
  /\ key' = (key /\ ~(op = "hold" /\ pc' = "idle" /\ outcome = "fired" /\ opts.release))
  /\ hits' = IF pc' = "press" THEN taken ELSE hits
  /\ UNCHANGED <<daemon, outcome, loopVars, armed, iflag, timers, chip>>

Next ==
  \/ Arrives \/ Scan
  \/ Clear \/ \E o \in Operations : Begin(o)
  \/ Press \/ Ask \/ Answered
  \/ Arm \/ Start \/ WaitSees \/ WaitSlice \/ List \/ Again \/ Abort \/ Expires \/ Takes \/ Finish
  \/ Frame \/ FramesOver \/ Breaks \/ Interrupt \/ LetGo \/ Over

Spec == Init /\ [][Next]_vars

-----------------------------------------------------------------------------
(* What must hold.                                                         *)

\* Falling back runs the work again: it happens only where the daemon has not
\* begun it, and never for what the daemon has refused.
WorkOnce ==
  /\ op /= "hold" => begun /= {"client", "daemon"}
  /\ daemon.knows /\ side = "client" => op = "call"

\* Each arrival is taken once, whether its event or only hit_count has told of
\* it: the machine stands at the trap for it, none is passed over on the way,
\* and an event left from one that hit_count told of is not taken for the next.
\* Each block of a log carries a scheduled write from its frame on.
TakesItsOwn ==
  /\ pc = "taken" => cpu = "halted" /\ place = "trap" /\ hits = taken + 1
  /\ pc \in {"wait", "list"} =>
       hits = taken + (IF cpu = "halted" /\ place = "trap" THEN 1 ELSE 0)
  /\ pc \in {"start", "again", "finish"} => hits = taken
  /\ op = "sidlog" => \A k \in DOMAIN blocks : blocks[k] <=> k > opts.aim

\* What an operation promises when its command is over: one that fired has
\* left the machine stopped at the trap, with flags and timers undone; one
\* that ran out of time has left it running; neither leaves its checkpoint
\* armed, or the key down.  A SID log leaves the machine running.
EndsAsPromised ==
  pc = "idle" /\ outcome \in {"fired", "expired"} =>
    /\ ~armed
    /\ op = "hold" /\ opts.release => ~key
    /\ cpu = IF outcome = "fired" /\ op /= "sidlog" THEN "halted" ELSE "running"
    /\ outcome = "fired" /\ op /= "sidlog" => place = "trap"
    /\ outcome = "fired" /\ op = "profile" => timers = "stopped" /\ (opts.masked => iflag = entryI)
=============================================================================
