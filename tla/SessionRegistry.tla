---------------------------- MODULE SessionRegistry ----------------------------
(***************************************************************************)
(* The registry of sessions (session.py): one JSON record per name, holding *)
(* the pid of the emulator.  Every command is a process of its own, any     *)
(* number of them run at once, and there is no lock: a command reads the    *)
(* records, decides, and later rewrites or unlinks a record by its path.    *)
(* Writing truncates the file first, so another command can read a torn     *)
(* record, and a command killed there leaves one behind.                    *)
(*                                                                          *)
(* Emulators die when they like and their pids are given to other           *)
(* processes.  Left out: the session's daemon with its socket and respawn   *)
(* counter, of which only "it had to be respawned, so the record was        *)
(* saved" shows here, and the audio pin (module AudioPin), which is         *)
(* unlinked wherever a record is.  A record is the pid it holds.            *)
(***************************************************************************)
EXTENDS Naturals, FiniteSets

CONSTANTS
  Names, Commands, Pids,
  Default,        \* the name a launch takes when none is given: its model's
  Attempts,       \* C64_TOOLS_LAUNCH_ATTEMPTS, 2 unless set
  None,           \* no pid, no name, no file
  Torn,           \* a file that does not parse
  Stranger        \* a process that runs no emulator

ASSUME DefaultAssumption == Default \in Names
ASSUME AttemptsAssumption == Attempts \in Nat \ {0}
ASSUME MarksAssumption ==
  /\ None \notin Names \cup Pids
  /\ Torn \notin Names \cup Pids
  /\ Stranger \notin Names
  /\ None # Torn
  /\ None # Stranger

VARIABLES
  holder,     \* who runs under a pid: the emulator of a name, or a stranger
  doomed,     \* pids of emulators that were asked to quit or sent SIGTERM
  record,     \* the file of each name
  at, op, name, pid,  \* where a command is, which one it is, its session
  todo, live, bad, dead,  \* its walk over the records
  tries,      \* emulators its launch has started
  fresh,      \* history: the names no one else has touched since it read them
  raced,      \* history: names whose record was changed on a stale reading
  abandoned,  \* history: emulators whose launch was killed before its end
  discarded   \* history: names whose record stop_all threw away unread

system == <<holder, doomed>>
walk == <<todo, live, bad, dead>>
session == <<op, name, pid>>
history == <<raced, abandoned, discarded>>
vars == <<holder, doomed, record, at, op, name, pid, todo, live, bad, dead,
          tries, fresh, raced, abandoned, discarded>>

Operations == {"list", "start", "ensure", "use", "stop", "reboot", "stop all"}
Places ==
  {"idle", "attach", "launch", "check", "spawn", "answer", "daemon", "save", "fill",
   "serve", "reap", "discard", "stop", "ask", "quit", "wait", "unlink"}

TypeOK ==
  /\ holder \in [Pids -> Names \cup {None, Stranger}]
  /\ doomed \subseteq Pids
  /\ record \in [Names -> Pids \cup {None, Torn}]
  /\ at \in [Commands -> Places]
  /\ op \in [Commands -> Operations]
  /\ name \in [Commands -> Names \cup {None}]
  /\ pid \in [Commands -> Pids \cup {None}]
  /\ todo \in [Commands -> SUBSET Names]
  /\ live \in [Commands -> [Names -> Pids \cup {None}]]
  /\ bad \in [Commands -> BOOLEAN]
  /\ dead \in [Commands -> Names \cup {None}]
  /\ tries \in [Commands -> 0..Attempts]
  /\ fresh \in [Commands -> SUBSET Names]
  /\ raced \subseteq Names
  /\ abandoned \subseteq Pids
  /\ discarded \subseteq Names

NoneLive == [n \in Names |-> None]

Init ==
  /\ holder = [p \in Pids |-> None]
  /\ doomed = {}
  /\ record = [n \in Names |-> None]
  /\ at = [c \in Commands |-> "idle"]
  /\ op = [c \in Commands |-> "list"]
  /\ name = [c \in Commands |-> None]
  /\ pid = [c \in Commands |-> None]
  /\ todo = [c \in Commands |-> {}]
  /\ live = [c \in Commands |-> NoneLive]
  /\ bad = [c \in Commands |-> FALSE]
  /\ dead = [c \in Commands |-> None]
  /\ tries = [c \in Commands |-> 0]
  /\ fresh = [c \in Commands |-> {}]
  /\ raced = {}
  /\ abandoned = {}
  /\ discarded = {}

-----------------------------------------------------------------------------
(* What the actions are made of.                                           *)

Readable(n) == record[n] \notin {None, Torn}

\* The pid's command line names the emulator's binary, which all sessions run.
IsAlive(p) == p \in Pids /\ holder[p] \in Names

Launching(c) ==
  at[c] \in {"answer", "daemon", "save", "fill"} /\ tries[c] > 0

\* A launch has not waited for its dead child yet: that pid stays taken.
Unused(p) ==
  holder[p] = None /\ \A c \in Commands : ~(Launching(c) /\ pid[c] = p)

Goes(c, place) == at' = [at EXCEPT ![c] = place]

Forgets(c) ==
  /\ todo' = [todo EXCEPT ![c] = {}]
  /\ live' = [live EXCEPT ![c] = NoneLive]
  /\ bad' = [bad EXCEPT ![c] = FALSE]
  /\ dead' = [dead EXCEPT ![c] = None]

Ends(c) ==
  /\ Goes(c, "idle")
  /\ Forgets(c)
  /\ op' = [op EXCEPT ![c] = "list"]
  /\ name' = [name EXCEPT ![c] = None]
  /\ pid' = [pid EXCEPT ![c] = None]
  /\ tries' = [tries EXCEPT ![c] = 0]
  /\ fresh' = [fresh EXCEPT ![c] = {}]

\* glob() lists the records there are; they are read one by one afterwards.
Lists(c) ==
  /\ todo' = [todo EXCEPT ![c] = {n \in Names : record[n] # None}]
  /\ live' = [live EXCEPT ![c] = NoneLive]
  /\ bad' = [bad EXCEPT ![c] = FALSE]
  /\ dead' = [dead EXCEPT ![c] = None]
  /\ fresh' = [fresh EXCEPT ![c] = {n \in Names : record[n] = None}]

\* The file of n becomes r: what every other command knows of it is outdated.
Writes(c, n, r) ==
  /\ record' = [record EXCEPT ![n] = r]
  /\ fresh' = [d \in Commands |-> IF d = c THEN fresh[d] ELSE fresh[d] \ {n}]
  /\ raced' = IF n \in fresh[c] THEN raced ELSE raced \cup {n}

\* unlink(missing_ok=True)
Unlinks(c, n) ==
  IF record[n] = None THEN UNCHANGED <<record, fresh, raced>>
  ELSE Writes(c, n, None)

\* Mutant of KillsChild: the emulator is left running.
KillsChild_Not(c) == UNCHANGED <<holder, doomed>>

\* _kill_proc: SIGTERM, SIGKILL and wait, on the command's own child.
KillsChild(c) ==
  /\ holder' = [holder EXCEPT ![pid[c]] = None]
  /\ doomed' = doomed \ {pid[c]}

-----------------------------------------------------------------------------
(* Reading the registry: _scan_records, in whatever order the names sort.  *)

\* A command starts.  stop_all walks the files itself.
Begin(c, o, n) ==
  /\ at[c] = "idle"
  /\ o \in {"list", "stop all"} => n = None
  /\ op' = [op EXCEPT ![c] = o]
  /\ name' = [name EXCEPT ![c] = IF o = "start" /\ n = None THEN Default ELSE n]
  /\ Goes(c, CASE o = "stop all" -> "reap"
               [] o \in {"list", "start"} -> "check"
               [] OTHER -> "attach")
  /\ Lists(c)
  /\ UNCHANGED <<system, record, pid, tries, history>>

Scanning(c) == at[c] \in {"attach", "check"} /\ dead[c] = None

\* One record is read and its process looked up.
Read(c, n) ==
  /\ Scanning(c)
  /\ n \in todo[c]
  /\ fresh' = [fresh EXCEPT ![c] = @ \cup {n}]
  /\ todo' = [todo EXCEPT ![c] = @ \ {n}]
  /\ bad' = [bad EXCEPT ![c] = @ \/ ~Readable(n)]
  /\ live' = [live EXCEPT ![c][n] = IF IsAlive(record[n]) THEN record[n] ELSE None]
  /\ dead' = [dead EXCEPT ![c] =
                IF Readable(n) /\ ~IsAlive(record[n]) THEN n ELSE None]
  /\ UNCHANGED <<system, record, at, session, tries, history>>

\* A dead record is pruned, by its path.
Prune(c) ==
  /\ dead[c] # None
  /\ Unlinks(c, dead[c])
  /\ dead' = [dead EXCEPT ![c] = None]
  /\ UNCHANGED <<system, at, session, todo, live, bad, tries, abandoned, discarded>>

\* Mutant of Found: any unreadable record stands for the whole registry.
Found_Strict(c, n) ==
  /\ live[c][n] # None
  /\ ~bad[c]
  /\ \/ name[c] = n
     \/ name[c] = None /\ \A m \in Names \ {n} : live[c][m] = None

\* The session attach() returns: the one named, or the only one.
Found(c, n) ==
  /\ live[c][n] # None
  /\ \/ name[c] = n
     \/ /\ name[c] = None
        /\ ~bad[c]
        /\ \A m \in Names \ {n} : live[c][m] = None

Scanned(c) == Scanning(c) /\ todo[c] = {}

Attached(c, n) ==
  /\ at[c] = "attach"
  /\ Scanned(c)
  /\ Found(c, n)
  /\ IF op[c] = "ensure" THEN Ends(c)
     ELSE /\ name' = [name EXCEPT ![c] = n]
          /\ pid' = [pid EXCEPT ![c] = live[c][n]]
          /\ Goes(c, IF op[c] = "use" THEN "serve" ELSE "stop")
          /\ Forgets(c)
          /\ UNCHANGED <<op, tries, fresh>>
  /\ UNCHANGED <<system, record, history>>

\* No session to attach to.  Only where every record could be read is one
\* launched instead: ensure under the name it was given, reboot_with_cart
\* under the default.
NotAttached(c) ==
  /\ at[c] = "attach"
  /\ Scanned(c)
  /\ \A n \in Names : ~Found(c, n)
  /\ IF op[c] \in {"ensure", "reboot"} /\ ~bad[c]
     THEN /\ name' = [name EXCEPT ![c] =
                        IF op[c] = "reboot" \/ @ = None THEN Default ELSE @]
          /\ Goes(c, "launch")
          /\ UNCHANGED <<op, pid, walk, tries, fresh>>
     ELSE Ends(c)
  /\ UNCHANGED <<system, record, history>>

\* launch reads the registry again.
Launch(c) ==
  /\ at[c] = "launch"
  /\ Goes(c, "check")
  /\ op' = [op EXCEPT ![c] = IF @ = "reboot" THEN "start" ELSE @]
  /\ Lists(c)
  /\ UNCHANGED <<system, record, name, pid, tries, history>>

\* Mutant of Checked: an unreadable record is passed over.
Checked_Lenient(c) ==
  /\ at[c] = "check"
  /\ Scanned(c)
  /\ IF op[c] = "list" \/ live[c][name[c]] # None
     THEN Ends(c)
     ELSE Goes(c, "spawn") /\ Forgets(c) /\ UNCHANGED <<session, tries, fresh>>
  /\ UNCHANGED <<system, record, history>>

\* _load_all: launch refuses a name that is live, and any unreadable record.
Checked(c) ==
  /\ at[c] = "check"
  /\ Scanned(c)
  /\ IF op[c] = "list" \/ bad[c] \/ live[c][name[c]] # None
     THEN Ends(c)
     ELSE Goes(c, "spawn") /\ Forgets(c) /\ UNCHANGED <<session, tries, fresh>>
  /\ UNCHANGED <<system, record, history>>

-----------------------------------------------------------------------------
(* Launching.                                                              *)

Spawn(c, p) ==
  /\ at[c] = "spawn"
  /\ Unused(p)
  /\ holder' = [holder EXCEPT ![p] = name[c]]
  /\ pid' = [pid EXCEPT ![c] = p]
  /\ tries' = [tries EXCEPT ![c] = @ + 1]
  /\ Goes(c, "answer")
  /\ UNCHANGED <<doomed, record, op, name, walk, fresh, history>>

\* The emulator's monitor answers.
Answers(c) ==
  /\ at[c] = "answer"
  /\ holder[pid[c]] = name[c]
  /\ Goes(c, "daemon")
  /\ UNCHANGED <<system, record, session, walk, tries, fresh, history>>

\* It exited or never answered: it is killed, and launched once more.
LaunchFails(c) ==
  /\ at[c] = "answer"
  /\ KillsChild(c)
  /\ IF tries[c] < Attempts
     THEN Goes(c, "spawn") /\ UNCHANGED <<session, walk, tries, fresh>>
     ELSE Ends(c)
  /\ UNCHANGED <<record, history>>

\* The daemon answers, or C64_TOOLS_NO_DAEMON is set.
DaemonUp(c) ==
  /\ at[c] = "daemon"
  /\ Goes(c, "save")
  /\ UNCHANGED <<system, record, session, walk, tries, fresh, history>>

\* "no half-sessions"
DaemonFails(c) ==
  /\ at[c] = "daemon"
  /\ KillsChild(c)
  /\ Ends(c)
  /\ UNCHANGED <<record, history>>

-----------------------------------------------------------------------------
(* Writing a record: _save, write_text.                                    *)

Truncate(c) ==
  /\ at[c] = "save"
  /\ Writes(c, name[c], Torn)
  /\ Goes(c, "fill")
  /\ UNCHANGED <<system, session, walk, tries, abandoned, discarded>>

\* Where someone else unlinked or rewrote the file meanwhile, the bytes go to
\* the file that was opened: nowhere, over the other's, or mixed with them.
Filled(c) ==
  IF name[c] \in fresh[c] THEN {pid[c]}
  ELSE IF record[name[c]] = None THEN {None}
  ELSE {record[name[c]], pid[c], Torn}

Fill(c) ==
  /\ at[c] = "fill"
  /\ \E r \in Filled(c) : Writes(c, name[c], r)
  /\ tries' = [tries EXCEPT ![c] = 0]
  /\ Goes(c, IF op[c] \in {"stop", "stop all", "reboot"} THEN "quit" ELSE "serve")
  /\ UNCHANGED <<system, session, walk, abandoned, discarded>>

-----------------------------------------------------------------------------
(* Using a session.                                                        *)

\* The record is saved from what was read at the start: with a respawned
\* daemon's pid, the label file, or the program that was loaded.
SaveSession(c) ==
  /\ at[c] = "serve"
  /\ op[c] # "ensure"
  /\ Goes(c, "save")
  /\ UNCHANGED <<system, record, session, walk, tries, fresh, history>>

Return(c) ==
  /\ at[c] = "serve"
  /\ Ends(c)
  /\ UNCHANGED <<system, record, history>>

-----------------------------------------------------------------------------
(* Stopping.                                                               *)

StopAlive(c) ==
  /\ at[c] = "stop"
  /\ Goes(c, IF IsAlive(pid[c]) THEN "ask" ELSE "unlink")
  /\ UNCHANGED <<system, record, session, walk, tries, fresh, history>>

\* Opening the monitor may respawn the daemon, which saves the record.
Monitor(c) ==
  /\ at[c] = "ask"
  /\ \E place \in {"save", "quit"} : Goes(c, place)
  /\ UNCHANGED <<system, record, session, walk, tries, fresh, history>>

\* quit reaches an emulator the name's socket leads to, or fails unnoticed.
AskQuit(c) ==
  /\ at[c] = "quit"
  /\ \/ \E p \in Pids : holder[p] = name[c] /\ doomed' = doomed \cup {p}
     \/ UNCHANGED doomed
  /\ Goes(c, "wait")
  /\ UNCHANGED <<holder, record, session, walk, tries, fresh, history>>

\* Three seconds for it to go, then SIGTERM.  The pid is not given away
\* between the last look at it and the signal.
Terminate(c) ==
  /\ at[c] = "wait"
  /\ doomed' = IF IsAlive(pid[c]) THEN doomed \cup {pid[c]} ELSE doomed
  /\ Goes(c, "unlink")
  /\ UNCHANGED <<holder, record, session, walk, tries, fresh, history>>

\* stop() is done; reboot_with_cart goes on to launch.
Unlink(c) ==
  /\ at[c] = "unlink"
  /\ Unlinks(c, name[c])
  /\ pid' = [pid EXCEPT ![c] = None]
  /\ Goes(c, IF op[c] = "reboot" THEN "launch" ELSE "reap")
  /\ UNCHANGED <<system, op, name, walk, tries, abandoned, discarded>>

\* stop_all stops the session of every record it can read ...
Reap(c, n) ==
  /\ at[c] = "reap"
  /\ n \in todo[c]
  /\ fresh' = [fresh EXCEPT ![c] = @ \cup {n}]
  /\ todo' = [todo EXCEPT ![c] = @ \ {n}]
  /\ name' = [name EXCEPT ![c] = n]
  /\ IF Readable(n)
     THEN Goes(c, "stop") /\ pid' = [pid EXCEPT ![c] = record[n]]
     ELSE Goes(c, "discard") /\ UNCHANGED pid
  /\ UNCHANGED <<system, record, op, live, bad, dead, tries, history>>

\* Mutant of Discard: the file is reported and left.
Discard_Kept(c) ==
  /\ at[c] = "discard"
  /\ Goes(c, "reap")
  /\ UNCHANGED <<system, record, session, walk, tries, fresh, history>>

\* ... and discards the ones it cannot, saying so.
Discard(c) ==
  /\ at[c] = "discard"
  /\ Unlinks(c, name[c])
  /\ discarded' = IF record[name[c]] = None THEN discarded
                  ELSE discarded \cup {name[c]}
  /\ Goes(c, "reap")
  /\ UNCHANGED <<system, session, walk, tries, abandoned>>

Reaped(c) ==
  /\ at[c] = "reap"
  /\ todo[c] = {}
  /\ Ends(c)
  /\ UNCHANGED <<system, record, history>>

-----------------------------------------------------------------------------
(* The world.                                                              *)

\* An emulator exits: it was asked to, or its window was closed, or it crashed.
Exit(p) ==
  /\ holder[p] \in Names
  /\ holder' = [holder EXCEPT ![p] = None]
  /\ doomed' = doomed \ {p}
  /\ abandoned' = abandoned \ {p}
  /\ UNCHANGED <<record, at, session, walk, tries, fresh, raced, discarded>>

\* Of interest only while the pid is remembered somewhere.
Recycle(p) ==
  /\ Unused(p)
  /\ \/ \E n \in Names : record[n] = p
     \/ \E c \in Commands : pid[c] = p
  /\ holder' = [holder EXCEPT ![p] = Stranger]
  /\ UNCHANGED <<doomed, record, at, session, walk, tries, fresh, history>>

StrangerExits(p) ==
  /\ holder[p] = Stranger
  /\ holder' = [holder EXCEPT ![p] = None]
  /\ UNCHANGED <<doomed, record, at, session, walk, tries, fresh, history>>

\* A command is killed where it stands.
Killed(c) ==
  /\ at[c] # "idle"
  /\ abandoned' = IF Launching(c) /\ holder[pid[c]] = name[c]
                  THEN abandoned \cup {pid[c]} ELSE abandoned
  /\ Ends(c)
  /\ UNCHANGED <<system, record, raced, discarded>>

-----------------------------------------------------------------------------
CommandStep(c) ==
  \/ \E n \in Names : Read(c, n) \/ Attached(c, n) \/ Reap(c, n)
  \/ Prune(c) \/ NotAttached(c) \/ Launch(c) \/ Checked(c)
  \/ \E p \in Pids : Spawn(c, p)
  \/ Answers(c) \/ LaunchFails(c) \/ DaemonUp(c) \/ DaemonFails(c)
  \/ Truncate(c) \/ Fill(c) \/ SaveSession(c) \/ Return(c)
  \/ StopAlive(c) \/ Monitor(c) \/ AskQuit(c) \/ Terminate(c) \/ Unlink(c)
  \/ Discard(c) \/ Reaped(c)

Next ==
  \/ \E c \in Commands, o \in Operations, n \in Names \cup {None} : Begin(c, o, n)
  \/ \E c \in Commands : CommandStep(c) \/ Killed(c)
  \/ \E p \in Pids : Exit(p) \/ Recycle(p) \/ StrangerExits(p)

Spec == Init /\ [][Next]_vars

-----------------------------------------------------------------------------
(* Safety.                                                                 *)

Settled(p) ==
  /\ p \notin doomed \cup abandoned
  /\ \A c \in Commands : ~(Launching(c) /\ pid[c] = p)

\* An emulator is lost only where two commands overlapped on its name, its
\* launch was killed, or its unreadable record was discarded: otherwise its
\* record is there, torn at worst, and stop can find it (session.py:472-500,
\* 585, 668-695, 772-797).
NoOrphan ==
  \A p \in Pids, n \in Names \ (raced \cup discarded) :
    holder[p] = n /\ Settled(p) => record[n] \in {p, Torn}

\* The launches by commands that know the record as it is.
Claims(p) ==
  \/ Settled(p)
  \/ \E c \in Commands : Launching(c) /\ pid[c] = p /\ name[c] \in fresh[c]
                        /\ p \notin doomed

\* A name has one emulator, with the same exceptions: in particular neither
\* ensure nor a reboot starts another beside one whose record cannot be read
\* (session.py:46-56, 585, 712-718, ops.py:448-456).
OnePerName ==
  \A p, q \in Pids, n \in Names \ (raced \cup discarded) :
    holder[p] = n /\ holder[q] = n /\ Settled(p) /\ Claims(q) => p = q

\* A launch whose reading still holds overwrites no record (session.py:585).
LaunchOnAbsence ==
  \A c \in Commands :
    /\ \/ at[c] \in {"spawn", "answer", "daemon"}
       \/ at[c] = "save" /\ tries[c] > 0
    /\ name[c] \in fresh[c]
    => record[name[c]] = None

\* What stop --all has been through is gone (session.py:856-875).
StopAllClears ==
  \A c \in Commands, n \in Names :
    /\ at[c] = "reap"
    /\ n \in fresh[c] \ todo[c]
    /\ op[c] = "stop all" \/ name[c] = n
    => record[n] = None

\* A record that can be read is attached to, whatever the ones next to it
\* are (session.py:452-456, 733-741).
OneBadRecordCostsItself ==
  \A c \in Commands :
    /\ at[c] = "attach" /\ Scanned(c)
    /\ name[c] \in fresh[c] /\ Readable(name[c])
    => Found(c, name[c])
=============================================================================
