---------------------------- MODULE DaemonRespawn ----------------------------
(***************************************************************************)
(* The monitor daemons of one session, from launch to stop: the processes  *)
(* (daemon.main), the socket file they bind, VICE's one monitor slot, and  *)
(* the commands that dial the socket, find it down, count a respawn and    *)
(* spawn another daemon (session.py: monitor, _spawn_daemon,               *)
(* _record_respawn_and_check, stop).                                       *)
(*                                                                         *)
(* Every wait of the code is bounded by a clock.  A deadline may pass at   *)
(* any moment of its wait here; the 30 s window of the breaker is the      *)
(* action WindowPasses.  Daemons are pids: one is used again once nothing  *)
(* of its process is left, even while it is still on record, so that       *)
(* Daemons bounds only how many processes overlap.                         *)
(***************************************************************************)
EXTENDS Naturals

CONSTANTS
  Commands,  \* processes that run c64 commands on this session
  Daemons,   \* daemon processes
  Limit,     \* RESPAWN_LIMIT
  None       \* no process

ASSUME LimitAssumption == Limit \in Nat \ {0, 1}
ASSUME NoneAssumption == None \notin Commands \cup Daemons

VARIABLES
  vice,      \* the emulator: "up", "ending" (told to go), "gone"
  slot,      \* who VICE's monitor slot belongs to until VICE sees it closed
  daemon,    \* where each daemon process stands in main()
  client,    \* whom each daemon is serving
  path,      \* the daemon whose socket the session's socket file is
  record,    \* is the session on record?
  pc,        \* where each command stands
  task,      \* what each command is for: "launch", "use" or "stop"
  peer,      \* the daemon a command has dialled
  child,     \* the daemon process a command has spawned
  stamps,    \* how many recent respawn stamps there are on disk
  seen,      \* ... that a command has read, its own included
  respawned, \* respawns since the window last passed, capped at Limit
  raced      \* two breaker updates have overlapped since then

processVars == <<vice, slot, daemon, client, path, record>>
commandVars == <<pc, task, peer, child>>
breakerVars == <<stamps, seen, respawned, raced>>
vars == <<processVars, commandVars, breakerVars>>

DaemonPlaces == {"gone", "connecting", "connected", "unlinked", "serving", "leaving", "closing"}
CommandPlaces == {"idle", "dialling", "queued", "down", "counting",
                  "spawning", "using", "signalling", "clearing"}

\* Of the last RESPAWN_LIMIT stamps of the file only this matters: how many
\* fall within the window.  The older ones come first.
Stamps == 0..Limit

\* Past its connection to VICE, a daemon holds the slot until it closes it.
Connected == {"connected", "unlinked", "serving", "leaving", "closing"}
\* bind() and listen() are done and the process still runs.
Listening == {"serving", "leaving", "closing"}

TypeOK ==
  /\ vice \in {"up", "ending", "gone"}
  /\ slot \in Daemons \cup {None, "probe"}
  /\ daemon \in [Daemons -> DaemonPlaces]
  /\ client \in [Daemons -> Commands \cup {None}]
  /\ path \in Daemons \cup {None}
  /\ record \in BOOLEAN
  /\ pc \in [Commands -> CommandPlaces]
  /\ task \in [Commands -> {"launch", "use", "stop"}]
  /\ peer \in [Commands -> Daemons \cup {None}]
  /\ child \in [Commands -> Daemons \cup {None}]
  /\ stamps \in Stamps /\ seen \in [Commands -> Stamps]
  /\ respawned \in 0..Limit
  /\ raced \in BOOLEAN

\* launch() has closed its own probe and has just spawned the daemon.
Init ==
  /\ vice = "up" /\ slot = "probe" /\ path = None /\ record = FALSE
  /\ \E c \in Commands, d \in Daemons :
       /\ daemon = [e \in Daemons |-> IF e = d THEN "connecting" ELSE "gone"]
       /\ pc = [k \in Commands |-> IF k = c THEN "spawning" ELSE "idle"]
       /\ task = [k \in Commands |-> IF k = c THEN "launch" ELSE "use"]
       /\ child = [k \in Commands |-> IF k = c THEN d ELSE None]
  /\ client = [d \in Daemons |-> None]
  /\ peer = [c \in Commands |-> None]
  /\ stamps = 0 /\ seen = [c \in Commands |-> 0]
  /\ respawned = 0 /\ raced = FALSE

-----------------------------------------------------------------------------
(* The daemon process.                                                     *)

\* A daemon stops serving, whoever it was serving.
Moves(d, place) ==
  /\ daemon' = [daemon EXCEPT ![d] = place]
  /\ client' = [client EXCEPT ![d] = None]

\* _connect_vice: connect, ping, resume go through once the slot is free.
Connect(d) ==
  /\ daemon[d] = "connecting" /\ slot = None /\ vice /= "gone"
  /\ slot' = d
  /\ Moves(d, "connected")
  /\ UNCHANGED <<vice, path, record, commandVars, breakerVars>>

\* ... or not within 8 s.
GiveUp(d) ==
  /\ daemon[d] = "connecting"
  /\ Moves(d, "gone")
  /\ UNCHANGED <<vice, slot, path, record, commandVars, breakerVars>>

\* os.unlink(a.socket) of whatever an earlier daemon left, ...
RemoveStale(d) ==
  /\ daemon[d] = "connected"
  /\ path' = None
  /\ Moves(d, "unlinked")
  /\ UNCHANGED <<vice, slot, record, commandVars, breakerVars>>

\* ... bind() and listen(); bind() fails on a file that is there again.
Bind(d) ==
  /\ daemon[d] = "unlinked"
  /\ path' = IF path = None THEN d ELSE path
  /\ Moves(d, IF path = None THEN "serving" ELSE "gone")
  /\ UNCHANGED <<vice, slot, record, commandVars, breakerVars>>

\* The next connection of the backlog is accepted and greeted.
Accept(d, c) ==
  /\ daemon[d] = "serving" /\ client[d] = None
  /\ pc[c] = "queued" /\ peer[c] = d
  /\ client' = [client EXCEPT ![d] = c]
  /\ pc' = [pc EXCEPT ![c] = "using"]
  /\ UNCHANGED <<vice, slot, daemon, path, record, task, peer, child, breakerVars>>

\* serve_forever returns: VICE is gone when the daemon is idle, or it raises.
Finishes(d) ==
  /\ daemon[d] = "serving" /\ (vice = "gone" => client[d] = None)
  /\ Moves(d, "leaving")
  /\ UNCHANGED <<vice, slot, path, record, commandVars, breakerVars>>

\* Mutant of LeaveUnlink: mon.close() first, then the unlink.
LeaveUnlink_ClosesFirst(d) ==
  /\ daemon[d] = "leaving"
  /\ IF slot = d
     THEN slot' = None /\ UNCHANGED <<daemon, client, path>>
     ELSE path' = None /\ Moves(d, "closing") /\ UNCHANGED slot
  /\ UNCHANGED <<vice, record, commandVars, breakerVars>>

\* The finally of main(): the socket file, whosever it is, ...
LeaveUnlink(d) ==
  /\ daemon[d] = "leaving"
  /\ path' = None
  /\ Moves(d, "closing")
  /\ UNCHANGED <<vice, slot, record, commandVars, breakerVars>>

\* ... then the connection to VICE, which frees its slot a little later.
Close(d) ==
  /\ daemon[d] = "closing"
  /\ Moves(d, "gone")
  /\ UNCHANGED <<vice, slot, path, record, commandVars, breakerVars>>

\* The process dies on the spot, without its finally.
Crash(d) ==
  /\ daemon[d] /= "gone"
  /\ Moves(d, "gone")
  /\ UNCHANGED <<vice, slot, path, record, commandVars, breakerVars>>

-----------------------------------------------------------------------------
(* VICE.                                                                   *)

\* VICE notices that the connection in its slot has been closed.
NoticeClosed ==
  /\ slot /= None
  /\ slot \in Daemons => daemon[slot] = "gone"
  /\ slot' = None
  /\ UNCHANGED <<vice, daemon, client, path, record, commandVars, breakerVars>>

\* The emulator is gone, by itself or because it was told to.
ViceEnds ==
  /\ vice /= "gone"
  /\ vice' = "gone"
  /\ UNCHANGED <<slot, daemon, client, path, record, commandVars, breakerVars>>

-----------------------------------------------------------------------------
(* The commands.                                                           *)

Goes(c, place) == pc' = [pc EXCEPT ![c] = place]

\* A command is over, or a stop goes on whatever its quit came to.
Ends(c) ==
  /\ Goes(c, IF task[c] = "stop" THEN "signalling" ELSE "idle")
  /\ child' = [child EXCEPT ![c] = None]
  /\ peer' = [peer EXCEPT ![c] = None]
  /\ task' = [task EXCEPT ![c] = IF task[c] = "stop" THEN "stop" ELSE "use"]

\* A daemon serves nobody after its client c has gone.
Released(c) == client' = [d \in Daemons |-> IF client[d] = c THEN None ELSE client[d]]

\* attach() finds the session alive, or stop() is asked of a dead one.
Begin(c, t) ==
  /\ pc[c] = "idle" /\ record
  /\ vice = "up" \/ t = "stop"
  /\ Goes(c, IF vice /= "gone" THEN "dialling" ELSE "signalling")
  /\ task' = [task EXCEPT ![c] = t]
  /\ UNCHANGED <<peer, child, processVars, breakerVars>>

\* monitor() finds no daemon: the first time it respawns one, then it raises.
FindsNone(c) ==
  IF child[c] = None
  THEN /\ Goes(c, "down")
       /\ peer' = [peer EXCEPT ![c] = None]
       /\ UNCHANGED <<task, child>>
  ELSE Ends(c)

\* DaemonMonitorClient connects: into the backlog of a listening daemon.
Dial(c) ==
  /\ pc[c] = "dialling"
  /\ IF path /= None /\ daemon[path] \in Listening
     THEN /\ Goes(c, "queued")
          /\ peer' = [peer EXCEPT ![c] = path]
          /\ UNCHANGED <<task, child>>
     ELSE FindsNone(c)
  /\ UNCHANGED <<processVars, breakerVars>>

\* The greeting does not come within 10 s, or the daemon goes before it.
HelloTimeout(c) ==
  /\ pc[c] = "queued"
  /\ FindsNone(c)
  /\ UNCHANGED <<processVars, breakerVars>>

\* Mutant of Newest: one stamp fewer is kept.
Newest_OneFewer(n) == IF n < Limit THEN n ELSE Limit - 1

\* Only the last RESPAWN_LIMIT stamps are kept.
Newest(n) == IF n <= Limit THEN n ELSE Limit

Updating(c) == pc[c] = "counting"

\* _record_respawn_and_check reads the stamps and takes its own, ...
ReadStamps(c) ==
  /\ pc[c] = "down"
  /\ seen' = [seen EXCEPT ![c] = Newest(stamps + 1)]
  /\ raced' = (raced \/ \E k \in Commands : Updating(k))
  /\ Goes(c, "counting")
  /\ UNCHANGED <<task, peer, child, processVars, stamps, respawned>>

\* All RESPAWN_LIMIT stamps are there and the first is within RESPAWN_WINDOW
\* of the last.
Trips(n) == n = Limit

\* ... and writes them: the breaker trips, or a daemon is spawned.
Respawn(c) ==
  /\ pc[c] = "counting"
  /\ stamps' = seen[c]
  /\ seen' = [seen EXCEPT ![c] = 0]
  /\ \/ /\ Trips(seen[c])
        /\ Ends(c)
        /\ UNCHANGED <<daemon, respawned>>
     \/ /\ ~Trips(seen[c])
        /\ \E d \in Daemons :
             /\ daemon[d] = "gone" /\ d /= slot
             /\ \A k \in Commands : d \notin {peer[k], child[k]}
             /\ daemon' = [daemon EXCEPT ![d] = "connecting"]
             /\ child' = [child EXCEPT ![c] = d]
        /\ Goes(c, "spawning")
        /\ respawned' = IF respawned < Limit THEN respawned + 1 ELSE Limit
        /\ UNCHANGED <<task, peer>>
  /\ UNCHANGED <<vice, slot, client, path, record, raced>>

\* _spawn_daemon: a daemon that is free answers a ping on the socket, which
\* need not be the one that was spawned.  The session is saved with the pid
\* that was: a launch is over, with a fresh breaker; monitor() dials again.
PingAnswered(c) ==
  /\ pc[c] = "spawning" /\ path /= None
  /\ daemon[path] = "serving" /\ client[path] = None
  /\ record' = TRUE
  /\ IF task[c] = "launch"
     THEN Ends(c) /\ stamps' = 0
     ELSE Goes(c, "dialling") /\ UNCHANGED <<task, peer, child, stamps>>
  /\ UNCHANGED <<vice, slot, daemon, client, path, seen, respawned, raced>>

\* _spawn_daemon gives up: the child has exited, or 10 s are over and it is
\* killed.  A launch then kills its emulator, too.
SpawnFails(c) ==
  /\ pc[c] = "spawning"
  /\ Moves(child[c], "gone")
  /\ vice' = IF task[c] = "launch" THEN "gone" ELSE vice
  /\ Ends(c)
  /\ UNCHANGED <<slot, path, record, breakerVars>>

\* Mutant of Leave: the makefile() keeps the connection open.
Leave_KeepsFile(c) ==
  /\ pc[c] = "using" /\ task[c] = "use"
  /\ Ends(c)
  /\ UNCHANGED <<processVars, breakerVars>>

\* The command has what it wants, or its daemon has left it.
Leave(c) ==
  /\ pc[c] = "using"
  /\ task[c] = "use" \/ client[peer[c]] /= c
  /\ Ends(c)
  /\ Released(c)
  /\ UNCHANGED <<vice, slot, daemon, path, record, breakerVars>>

\* stop() asks for a quit, which ends the daemon as well.
Quit(c) ==
  /\ pc[c] = "using" /\ task[c] = "stop" /\ client[peer[c]] = c
  /\ vice' = IF vice = "up" THEN "ending" ELSE vice
  /\ Moves(peer[c], "leaving")
  /\ Ends(c)
  /\ UNCHANGED <<slot, path, record, breakerVars>>

\* SIGTERM for an emulator that is still there, and for the daemon whose pid
\* the Session object holds.  That object is as old as the command, and the
\* record it was read from may name any daemon, or none that runs: see
\* PingAnswered.
Signal(c) ==
  /\ pc[c] = "signalling"
  /\ vice' = IF vice = "up" THEN "ending" ELSE vice
  /\ \/ UNCHANGED <<daemon, client>>
     \/ \E d \in Daemons : daemon[d] /= "gone" /\ Moves(d, "gone")
  /\ Goes(c, "clearing")
  /\ UNCHANGED <<slot, path, record, task, peer, child, breakerVars>>

\* The socket file, the stamps and the record are removed.
Clear(c) ==
  /\ pc[c] = "clearing"
  /\ path' = None /\ record' = FALSE /\ stamps' = 0 /\ respawned' = 0
  /\ Goes(c, "idle")
  /\ task' = [task EXCEPT ![c] = "use"]
  /\ UNCHANGED <<vice, slot, daemon, client, peer, child, seen, raced>>

\* 30 s pass; the update of the stamps takes no time beside them.
WindowPasses ==
  /\ \A c \in Commands : ~Updating(c)
  /\ stamps' = 0
  /\ respawned' = 0 /\ raced' = FALSE
  /\ UNCHANGED <<seen, processVars, commandVars>>

DaemonStep(d) ==
  \/ Connect(d) \/ GiveUp(d) \/ RemoveStale(d) \/ Bind(d) \/ Finishes(d)
  \/ LeaveUnlink(d) \/ Close(d) \/ \E c \in Commands : Accept(d, c)

CommandStep(c) ==
  \/ Dial(c) \/ HelloTimeout(c) \/ ReadStamps(c) \/ Respawn(c)
  \/ PingAnswered(c) \/ SpawnFails(c) \/ Leave(c) \/ Quit(c)
  \/ Signal(c) \/ Clear(c)

Next ==
  \/ \E d \in Daemons : DaemonStep(d) \/ Crash(d)
  \/ \E c \in Commands : CommandStep(c) \/ \E t \in {"use", "stop"} : Begin(c, t)
  \/ NoticeClosed \/ ViceEnds \/ WindowPasses

Spec == Init /\ [][Next]_vars

\* Every process goes on; commands end their use of a daemon in time; VICE
\* leaves once it is told to.  Nobody is bound to crash, or to begin.
DaemonGoesOn(d) ==
  \/ GiveUp(d) \/ RemoveStale(d) \/ Bind(d) \/ LeaveUnlink(d) \/ Close(d)
  \/ vice = "gone" /\ Finishes(d)

ViceGoesOn == NoticeClosed \/ (vice = "ending" /\ ViceEnds)

Fairness ==
  /\ \A d \in Daemons : WF_vars(DaemonGoesOn(d))
  /\ \A c \in Commands : WF_vars(CommandStep(c))
  /\ WF_vars(ViceGoesOn)

FairSpec == Spec /\ Fairness

-----------------------------------------------------------------------------
(* What must hold.                                                         *)

\* Past _connect_vice and up to mon.close(), a daemon is the one client of
\* VICE's monitor: no two daemons of a session are ever on the line.
ServersHoldTheSlot == \A d \in Daemons : daemon[d] \in Connected => slot = d

\* While the emulator is up, the socket file leads to the daemon that serves
\* it: neither the clean-up of an earlier daemon nor the start of a later one
\* takes the file of a healthy daemon away.
ServerKeepsItsSocket ==
  \A d \in Daemons : daemon[d] = "serving" /\ vice = "up" => path = d

\* Commands whose breaker updates did not overlap respawn fewer than
\* RESPAWN_LIMIT daemons within the window.
BreakerTrips == ~raced => respawned < Limit

\* Once the emulator is gone, no daemon of the session stays behind, even one
\* whose pid is not on record.
DaemonsEnd == <>(vice = "gone") => <>[](\A d \in Daemons : daemon[d] = "gone")

\* The docstring of _spawn_daemon: "Start the session's monitor daemon; return
\* its pid once it answers a ping".  The daemon that answers is the one whose
\* pid is returned and put on record.
SpawnedDaemonAnswers ==
  [][\A c \in Commands : PingAnswered(c) => path = child[c]]_vars
=============================================================================
