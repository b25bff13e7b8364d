------------------------- MODULE SessionRegistryProofs -------------------------
(***************************************************************************)
(* Proofs about SessionRegistry, for any sets of names, commands and pids.  *)
(*                                                                         *)
(* Typed says what a command has in hand at each place.  IInv adds, for    *)
(* each command, what it may conclude from a record no other has touched   *)
(* since it read it: that the record is what it was, and that no emulator  *)
(* but its own runs where it is about to remove or rewrite one.            *)
(***************************************************************************)
EXTENDS SessionRegistry, TLAPS

-----------------------------------------------------------------------------
(* Which step changes what.                                                *)

Step(c) ==
  \/ CommandStep(c) \/ Killed(c)
  \/ \E o \in Operations, n \in Names \cup {None} : Begin(c, o, n)

WorldStep == \E p \in Pids : Exit(p) \/ Recycle(p) \/ StrangerExits(p)

WritesRecord(c) ==
  Prune(c) \/ Truncate(c) \/ Fill(c) \/ Unlink(c) \/ Discard(c)

LEMMA Sources ==
  ASSUME NEW c, Step(c)
  PROVE  /\ UNCHANGED live \/ Lists(c) \/ Forgets(c) \/ \E n \in Names : Read(c, n)
         /\ \/ UNCHANGED <<todo, bad, dead>> \/ Lists(c) \/ Forgets(c) \/ Prune(c)
            \/ \E n \in Names : Read(c, n) \/ Reap(c, n)
         /\ \/ UNCHANGED pid \/ Ends(c) \/ Unlink(c)
            \/ \E n \in Names : Attached(c, n) \/ Reap(c, n)
            \/ \E p \in Pids : Spawn(c, p)
         /\ UNCHANGED tries \/ Ends(c) \/ Fill(c) \/ \E p \in Pids : Spawn(c, p)
         /\ \/ UNCHANGED op \/ Ends(c) \/ Launch(c)
            \/ \E o \in Operations, n \in Names \cup {None} : Begin(c, o, n)
         /\ \/ UNCHANGED name \/ Ends(c) \/ NotAttached(c)
            \/ \E o \in Operations, n \in Names \cup {None} : Begin(c, o, n)
            \/ \E n \in Names : Attached(c, n) \/ Reap(c, n)
         /\ UNCHANGED <<record, raced>> \/ WritesRecord(c)
         /\ \/ UNCHANGED fresh \/ Lists(c) \/ Ends(c) \/ WritesRecord(c)
            \/ \E n \in Names : Read(c, n) \/ Reap(c, n)
         /\ \/ UNCHANGED <<holder, doomed>> \/ AskQuit(c) \/ Terminate(c)
            \/ LaunchFails(c) \/ DaemonFails(c) \/ \E p \in Pids : Spawn(c, p)
         /\ UNCHANGED discarded \/ Discard(c)
         /\ UNCHANGED abandoned \/ Killed(c)
<1> USE DEF Step, CommandStep, Begin, Read, Attached, Reap, Prune, NotAttached,
            Launch, Checked, Spawn, Answers, LaunchFails, DaemonUp, DaemonFails,
            Truncate, Fill, SaveSession, Return, StopAlive, Monitor, AskQuit,
            Terminate, Unlink, Discard, Reaped, Killed
<1> USE DEF session, system, walk, history, WritesRecord
<1>1. UNCHANGED live \/ Lists(c) \/ Forgets(c) \/ \E n \in Names : Read(c, n)
  BY DEF Ends
<1>2. \/ UNCHANGED <<todo, bad, dead>> \/ Lists(c) \/ Forgets(c) \/ Prune(c)
      \/ \E n \in Names : Read(c, n) \/ Reap(c, n)
  BY DEF Ends
<1>3. \/ UNCHANGED pid \/ Ends(c) \/ Unlink(c)
      \/ \E n \in Names : Attached(c, n) \/ Reap(c, n)
      \/ \E p \in Pids : Spawn(c, p)
  OBVIOUS
<1>4. UNCHANGED tries \/ Ends(c) \/ Fill(c) \/ \E p \in Pids : Spawn(c, p)
  OBVIOUS
<1>5. \/ UNCHANGED op \/ Ends(c) \/ Launch(c)
      \/ \E o \in Operations, n \in Names \cup {None} : Begin(c, o, n)
  OBVIOUS
<1>6. \/ UNCHANGED name \/ Ends(c) \/ NotAttached(c)
      \/ \E o \in Operations, n \in Names \cup {None} : Begin(c, o, n)
      \/ \E n \in Names : Attached(c, n) \/ Reap(c, n)
  OBVIOUS
<1>7. UNCHANGED <<record, raced>> \/ WritesRecord(c)
  OBVIOUS
<1>8. \/ UNCHANGED fresh \/ Lists(c) \/ Ends(c) \/ WritesRecord(c)
      \/ \E n \in Names : Read(c, n) \/ Reap(c, n)
  OBVIOUS
<1>9. /\ \/ UNCHANGED <<holder, doomed>> \/ AskQuit(c) \/ Terminate(c)
         \/ LaunchFails(c) \/ DaemonFails(c) \/ \E p \in Pids : Spawn(c, p)
      /\ UNCHANGED discarded \/ Discard(c)
      /\ UNCHANGED abandoned \/ Killed(c)
  OBVIOUS
<1> QED
  BY <1>1, <1>2, <1>3, <1>4, <1>5, <1>6, <1>7, <1>8, <1>9

-----------------------------------------------------------------------------
(* A command changes its own part of the state, and what it read of a      *)
(* record is what the others may have to give up.                          *)

Only(c, f, g, T) == g \in [Commands -> T] /\ \A d \in Commands \ {c} : g[d] = f[d]

Own(c) ==
  /\ Only(c, at, at', Places)
  /\ Only(c, op, op', Operations)
  /\ Only(c, name, name', Names \cup {None})
  /\ Only(c, pid, pid', Pids \cup {None})
  /\ Only(c, todo, todo', SUBSET Names)
  /\ Only(c, live, live', [Names -> Pids \cup {None}])
  /\ Only(c, bad, bad', BOOLEAN)
  /\ Only(c, dead, dead', Names \cup {None})
  /\ Only(c, tries, tries', 0..Attempts)
  /\ fresh' \in [Commands -> SUBSET Names]
  /\ \A d \in Commands \ {c} : fresh'[d] \subseteq fresh[d]

LEMMA OwnPlace ==
  ASSUME at \in [Commands -> Places], NEW c \in Commands, Step(c)
  PROVE  Only(c, at, at', Places)
BY DEF Step, CommandStep, Begin, Read, Attached, Reap, Prune, NotAttached,
       Launch, Checked, Spawn, Answers, LaunchFails, DaemonUp, DaemonFails,
       Truncate, Fill, SaveSession, Return, StopAlive, Monitor, AskQuit,
       Terminate, Unlink, Discard, Reaped, Killed, Ends, Goes, Places, Only

LEMMA OwnSteps ==
  ASSUME TypeOK, NEW c \in Commands, Step(c), at[c] = "spawn" => tries[c] < Attempts
  PROVE  Own(c)
<1>1. Only(c, at, at', Places)
  BY OwnPlace DEF TypeOK
<1>2. Only(c, op, op', Operations)
  <2> SUFFICES ASSUME op \in [Commands -> Operations] PROVE Only(c, op, op', Operations)
    BY DEF TypeOK
  <2>1. \/ UNCHANGED op \/ Ends(c) \/ Launch(c)
        \/ \E o \in Operations, n \in Names \cup {None} : Begin(c, o, n)
    BY Sources
  <2>2. "start" \in Operations /\ "list" \in Operations
    BY DEF Operations
  <2>3. UNCHANGED op \/ \E o \in Operations : op' = [op EXCEPT ![c] = o]
    BY <2>1, <2>2 DEF Ends, Launch, Begin
  <2> QED
    BY <2>3 DEF Only
<1>3. Only(c, name, name', Names \cup {None})
  <2> SUFFICES ASSUME name \in [Commands -> Names \cup {None}]
               PROVE  Only(c, name, name', Names \cup {None})
    BY DEF TypeOK
  <2>1. \/ UNCHANGED name \/ Ends(c) \/ NotAttached(c)
        \/ \E o \in Operations, n \in Names \cup {None} : Begin(c, o, n)
        \/ \E n \in Names : Attached(c, n) \/ Reap(c, n)
    BY Sources
  <2>2. UNCHANGED name \/ \E n \in Names \cup {None} : name' = [name EXCEPT ![c] = n]
    BY <2>1, DefaultAssumption DEF Ends, NotAttached, Begin, Attached, Reap
  <2> QED
    BY <2>2 DEF Only
<1>4. Only(c, pid, pid', Pids \cup {None})
  <2> SUFFICES ASSUME pid \in [Commands -> Pids \cup {None}],
                      live \in [Commands -> [Names -> Pids \cup {None}]],
                      record \in [Names -> Pids \cup {None, Torn}]
               PROVE Only(c, pid, pid', Pids \cup {None})
    BY DEF TypeOK
  <2>1. \A n \in Names : Attached(c, n) =>
          UNCHANGED pid \/ \E p \in Pids \cup {None} : pid' = [pid EXCEPT ![c] = p]
    BY DEF Attached, Ends
  <2>2. \A n \in Names : Reap(c, n) =>
          UNCHANGED pid \/ \E p \in Pids \cup {None} : pid' = [pid EXCEPT ![c] = p]
    BY DEF Reap, Readable
  <2>3. UNCHANGED pid \/ \E p \in Pids \cup {None} : pid' = [pid EXCEPT ![c] = p]
    BY Sources, <2>1, <2>2 DEF Ends, Unlink, Spawn
  <2> QED
    BY <2>3 DEF Only
<1>5. Only(c, todo, todo', SUBSET Names)
  <2> SUFFICES ASSUME todo \in [Commands -> SUBSET Names]
               PROVE  Only(c, todo, todo', SUBSET Names)
    BY DEF TypeOK
  <2>1. {n \in Names : record[n] # None} \in SUBSET Names
    OBVIOUS
  <2> QED
    BY Sources, <2>1 DEF Only, Lists, Forgets, Prune, Read, Reap
<1>6. Only(c, live, live', [Names -> Pids \cup {None}])
  <2> SUFFICES ASSUME live \in [Commands -> [Names -> Pids \cup {None}]]
               PROVE  Only(c, live, live', [Names -> Pids \cup {None}])
    BY DEF TypeOK
  <2>1. NoneLive \in [Names -> Pids \cup {None}]
    BY DEF NoneLive
  <2>2. ASSUME NEW n \in Names, Read(c, n)
        PROVE  Only(c, live, live', [Names -> Pids \cup {None}])
    BY <2>2 DEF Only, Read, IsAlive
  <2> QED
    BY Sources, <2>1, <2>2 DEF Only, Lists, Forgets
<1>7. Only(c, bad, bad', BOOLEAN) /\ Only(c, dead, dead', Names \cup {None})
  <2> SUFFICES ASSUME bad \in [Commands -> BOOLEAN],
                      dead \in [Commands -> Names \cup {None}]
               PROVE  Only(c, bad, bad', BOOLEAN) /\ Only(c, dead, dead', Names \cup {None})
    BY DEF TypeOK
  <2>1. \/ UNCHANGED <<todo, bad, dead>> \/ Lists(c) \/ Forgets(c) \/ Prune(c)
        \/ \E n \in Names : Read(c, n) \/ Reap(c, n)
    BY Sources
  <2>2. UNCHANGED bad \/ \E b \in BOOLEAN : bad' = [bad EXCEPT ![c] = b]
    BY <2>1 DEF Lists, Forgets, Prune, Read, Reap
  <2>3. UNCHANGED dead \/ \E n \in Names \cup {None} : dead' = [dead EXCEPT ![c] = n]
    BY <2>1 DEF Lists, Forgets, Prune, Read, Reap
  <2> QED
    BY <2>2, <2>3 DEF Only
<1>9. Only(c, tries, tries', 0..Attempts)
  <2> SUFFICES ASSUME tries \in [Commands -> 0..Attempts]
               PROVE  Only(c, tries, tries', 0..Attempts)
    BY DEF TypeOK
  <2>1. UNCHANGED tries \/ Ends(c) \/ Fill(c) \/ \E p \in Pids : Spawn(c, p)
    BY Sources
  <2>2. UNCHANGED tries \/ \E t \in 0..Attempts : tries' = [tries EXCEPT ![c] = t]
    <3>1. 0 \in 0..Attempts /\ (tries[c] < Attempts => tries[c] + 1 \in 0..Attempts)
      BY AttemptsAssumption
    <3> QED
      BY <2>1, <3>1 DEF Ends, Fill, Spawn
  <2> QED
    BY <2>2 DEF Only
<1>10. /\ fresh' \in [Commands -> SUBSET Names]
       /\ \A d \in Commands \ {c} : fresh'[d] \subseteq fresh[d]
  <2> SUFFICES ASSUME fresh \in [Commands -> SUBSET Names]
               PROVE  /\ fresh' \in [Commands -> SUBSET Names]
                      /\ \A d \in Commands \ {c} : fresh'[d] \subseteq fresh[d]
    BY DEF TypeOK
  <2>1. {n \in Names : record[n] = None} \in SUBSET Names
    OBVIOUS
  <2>2. WritesRecord(c) =>
          \/ UNCHANGED fresh
          \/ \E n : fresh' = [d \in Commands |-> IF d = c THEN fresh[d] ELSE fresh[d] \ {n}]
    BY DEF WritesRecord, Prune, Truncate, Fill, Unlink, Discard, Unlinks, Writes
  <2> QED
    BY Sources, <2>1, <2>2 DEF Lists, Ends, Read, Reap
<1> QED
  BY <1>1, <1>2, <1>3, <1>4, <1>5, <1>6, <1>7, <1>9, <1>10 DEF Own

\* Where a command stands tells what it has at hand.
Shape(c) ==
  /\ at[c] \in {"answer", "daemon", "save", "fill", "serve", "stop", "ask",
                "quit", "wait", "unlink"}
     => name[c] \in Names /\ pid[c] \in Pids
  /\ at[c] \in {"launch", "spawn", "discard"} => name[c] \in Names
  /\ at[c] = "check" /\ op[c] # "list" => name[c] \in Names
  /\ at[c] \in {"answer", "daemon"} => tries[c] > 0
  /\ at[c] = "spawn" => tries[c] < Attempts
  /\ at[c] \notin {"spawn", "answer", "daemon", "save", "fill"} => tries[c] = 0
  /\ dead[c] # None => at[c] \in {"attach", "check"}

LEMMA ShapeStep ==
  ASSUME TypeOK, NEW c \in Commands, Shape(c), Step(c)
  PROVE  Shape(c)'
<1>0. /\ at \in [Commands -> Places]
      /\ op \in [Commands -> Operations]
      /\ name \in [Commands -> Names \cup {None}]
      /\ pid \in [Commands -> Pids \cup {None}]
      /\ dead \in [Commands -> Names \cup {None}]
      /\ tries \in [Commands -> 0..Attempts]
      /\ live[c] \in [Names -> Pids \cup {None}]
      /\ record \in [Names -> Pids \cup {None, Torn}]
  BY DEF TypeOK
<1> USE <1>0 DEF Shape, Goes, session, walk
<1>1. ASSUME Ends(c) PROVE Shape(c)'
  BY <1>1 DEF Ends, Forgets
<1>2. ASSUME NEW o \in Operations, NEW n \in Names \cup {None}, Begin(c, o, n)
      PROVE  Shape(c)'
  BY <1>2, DefaultAssumption DEF Begin, Lists
<1>3. ASSUME NEW n \in Names, Read(c, n) PROVE Shape(c)'
  BY <1>3 DEF Read, Scanning
<1>4. ASSUME Prune(c) PROVE Shape(c)'
  BY <1>4 DEF Prune
<1>5. ASSUME NEW n \in Names, Attached(c, n) PROVE Shape(c)'
  <2>1. live[c][n] \in Pids
    BY <1>5 DEF Attached, Found
  <2>2. CASE op[c] = "ensure"
    BY <1>5, <1>1, <2>2 DEF Attached
  <2>3. CASE op[c] # "ensure"
    BY <1>5, <2>1, <2>3 DEF Attached, Forgets, Scanned, Scanning
  <2> QED
    BY <2>2, <2>3
<1>6. ASSUME NotAttached(c) PROVE Shape(c)'
  BY <1>6, <1>1, DefaultAssumption DEF NotAttached, Scanned, Scanning
<1>7. ASSUME Launch(c) PROVE Shape(c)'
  BY <1>7 DEF Launch, Lists
<1>8. ASSUME Checked(c) PROVE Shape(c)'
  <2>1. CASE Ends(c)
    BY <1>1, <2>1
  <2>2. CASE ~Ends(c)
    <3>1. /\ at[c] = "check" /\ op[c] # "list" /\ Goes(c, "spawn") /\ Forgets(c)
          /\ UNCHANGED <<op, name, pid, tries>>
      BY <1>8, <2>2 DEF Checked
    <3>2. tries[c] < Attempts
      BY <3>1, AttemptsAssumption
    <3> QED
      BY <3>1, <3>2 DEF Forgets
  <2> QED
    BY <2>1, <2>2
<1>9. ASSUME NEW p \in Pids, Spawn(c, p) PROVE Shape(c)'
  <2>1. /\ at'[c] = "answer" /\ pid'[c] = p /\ name'[c] = name[c]
        /\ tries'[c] = tries[c] + 1 /\ dead'[c] = dead[c] /\ op'[c] = op[c]
    BY <1>9 DEF Spawn
  <2>2. name[c] \in Names /\ dead[c] = None
    BY <1>9 DEF Spawn
  <2>3. tries'[c] > 0
    <3>1. tries[c] \in Nat
      OBVIOUS
    <3> QED
      BY <2>1, <3>1
  <2> QED
    BY <2>1, <2>2, <2>3
<1>10. ASSUME LaunchFails(c) PROVE Shape(c)'
  BY <1>10, <1>1 DEF LaunchFails
<1>11. ASSUME DaemonFails(c) \/ Return(c) \/ Reaped(c) \/ Killed(c) PROVE Shape(c)'
  BY <1>11, <1>1 DEF DaemonFails, Return, Reaped, Killed
<1>12. ASSUME \/ Answers(c) \/ DaemonUp(c) \/ Truncate(c) \/ SaveSession(c)
              \/ StopAlive(c) \/ Monitor(c) \/ AskQuit(c) \/ Terminate(c)
       PROVE  Shape(c)'
  BY <1>12 DEF Answers, DaemonUp, Truncate, SaveSession, StopAlive, Monitor,
               AskQuit, Terminate
<1>13. ASSUME Fill(c) PROVE Shape(c)'
  BY <1>13 DEF Fill
<1>14. ASSUME Unlink(c) \/ Discard(c) PROVE Shape(c)'
  BY <1>14 DEF Unlink, Discard
<1>15. ASSUME NEW n \in Names, Reap(c, n) PROVE Shape(c)'
  BY <1>15 DEF Reap, Readable
<1> QED
  BY <1>2, <1>3, <1>4, <1>5, <1>6, <1>7, <1>8, <1>9, <1>10, <1>11, <1>12, <1>13,
     <1>14, <1>15 DEF Step, CommandStep

LEMMA SystemTyped ==
  ASSUME TypeOK, \A c \in Commands : Shape(c), Next
  PROVE  /\ holder' \in [Pids -> Names \cup {None, Stranger}]
         /\ doomed' \subseteq Pids
         /\ abandoned' \subseteq Pids
<1> SUFFICES ASSUME holder \in [Pids -> Names \cup {None, Stranger}],
                    doomed \subseteq Pids, abandoned \subseteq Pids,
                    pid \in [Commands -> Pids \cup {None}],
                    \A c \in Commands : Shape(c)
             PROVE  /\ holder' \in [Pids -> Names \cup {None, Stranger}]
                    /\ doomed' \subseteq Pids
                    /\ abandoned' \subseteq Pids
  BY DEF TypeOK
<1>1. ASSUME NEW c \in Commands, Step(c)
      PROVE  /\ holder' \in [Pids -> Names \cup {None, Stranger}]
             /\ doomed' \subseteq Pids
  <2>1. \/ UNCHANGED <<holder, doomed>> \/ AskQuit(c) \/ Terminate(c)
        \/ LaunchFails(c) \/ DaemonFails(c) \/ \E p \in Pids : Spawn(c, p)
    BY <1>1, Sources
  <2>2. ASSUME KillsChild(c)
        PROVE  /\ holder' \in [Pids -> Names \cup {None, Stranger}]
               /\ doomed' \subseteq Pids
    BY <2>2 DEF KillsChild
  <2>3. ASSUME AskQuit(c) \/ Terminate(c)
        PROVE  UNCHANGED holder /\ doomed' \subseteq Pids
    BY <2>3 DEF AskQuit, Terminate, IsAlive
  <2>4. ASSUME NEW p \in Pids, Spawn(c, p)
        PROVE  /\ holder' \in [Pids -> Names \cup {None, Stranger}]
               /\ UNCHANGED doomed
    <3>1. name[c] \in Names
      BY <2>4 DEF Spawn, Shape
    <3> QED
      BY <2>4, <3>1 DEF Spawn
  <2> QED
    BY <2>1, <2>2, <2>3, <2>4 DEF LaunchFails, DaemonFails
<1>2. ASSUME NEW c \in Commands, Step(c) PROVE abandoned' \subseteq Pids
  <2>1. Killed(c) => abandoned' \subseteq Pids
    BY DEF Killed, Launching, Shape
  <2> QED
    BY <1>2, <2>1, Sources
<1>3. ASSUME WorldStep
      PROVE  /\ holder' \in [Pids -> Names \cup {None, Stranger}]
             /\ doomed' \subseteq Pids /\ abandoned' \subseteq Pids
  BY <1>3 DEF WorldStep, Exit, Recycle, StrangerExits, history
<1> QED
  BY <1>1, <1>2, <1>3 DEF Next, Step, WorldStep, vars

LEMMA RecordTyped ==
  ASSUME TypeOK, \A c \in Commands : Shape(c), NEW c \in Commands, Step(c)
  PROVE  /\ record' \in [Names -> Pids \cup {None, Torn}]
         /\ raced' \subseteq Names
         /\ discarded' \subseteq Names
<1> SUFFICES ASSUME record \in [Names -> Pids \cup {None, Torn}],
                    raced \subseteq Names, discarded \subseteq Names,
                    dead[c] \in Names \cup {None}, Shape(c)
             PROVE  /\ record' \in [Names -> Pids \cup {None, Torn}]
                    /\ raced' \subseteq Names
                    /\ discarded' \subseteq Names
  BY DEF TypeOK
<1>1. ASSUME NEW n \in Names, NEW r \in Pids \cup {None, Torn}, Writes(c, n, r)
      PROVE  record' \in [Names -> Pids \cup {None, Torn}] /\ raced' \subseteq Names
  BY <1>1 DEF Writes
<1>2. ASSUME NEW n \in Names, Unlinks(c, n)
      PROVE  record' \in [Names -> Pids \cup {None, Torn}] /\ raced' \subseteq Names
  BY <1>2, <1>1 DEF Unlinks
<1>3. ASSUME WritesRecord(c)
      PROVE  record' \in [Names -> Pids \cup {None, Torn}] /\ raced' \subseteq Names
  <2>1. CASE Prune(c)
    BY <2>1, <1>2 DEF Prune
  <2>2. CASE Truncate(c)
    BY <2>2, <1>1 DEF Truncate, Shape
  <2>3. CASE Fill(c)
    BY <2>3, <1>1 DEF Fill, Filled, Shape
  <2>4. CASE Unlink(c) \/ Discard(c)
    <3>1. name[c] \in Names
      BY <2>4 DEF Unlink, Discard, Shape
    <3>2. Unlinks(c, name[c])
      BY <2>4 DEF Unlink, Discard
    <3> QED
      BY <3>1, <3>2, <1>2
  <2> QED
    BY <1>3, <2>1, <2>2, <2>3, <2>4 DEF WritesRecord
<1>4. discarded' \subseteq Names
  <2>1. Discard(c) => discarded' \subseteq Names
    BY DEF Discard, Shape
  <2>2. UNCHANGED discarded \/ Discard(c)
    BY Sources
  <2> QED
    BY <2>1, <2>2
<1>5. UNCHANGED <<record, raced>> \/ WritesRecord(c)
  BY Sources
<1> QED
  BY <1>3, <1>4, <1>5

LEMMA WorldKeeps ==
  ASSUME WorldStep
  PROVE  UNCHANGED <<record, at, op, name, pid, todo, live, bad, dead, tries,
                     fresh, raced, discarded>>
BY DEF WorldStep, Exit, Recycle, StrangerExits, session, walk, history

Typed == TypeOK /\ \A c \in Commands : Shape(c)

LEMMA TypedInit == Init => Typed
BY DefaultAssumption, AttemptsAssumption
   DEF Init, Typed, TypeOK, Shape, NoneLive, Places, Operations

LEMMA TypedStep == Typed /\ [Next]_vars => Typed'
<1>1. ASSUME Typed, NEW c \in Commands, Step(c) PROVE Typed'
  <2>1. Own(c)
    BY <1>1, OwnSteps DEF Typed, Shape
  <2>2. Shape(c)'
    BY <1>1, ShapeStep DEF Typed
  <2>3. ASSUME NEW d \in Commands, d # c PROVE Shape(d)'
    <3>1. Shape(d)
      BY <1>1 DEF Typed
    <3>2. /\ at'[d] = at[d] /\ op'[d] = op[d] /\ name'[d] = name[d]
          /\ pid'[d] = pid[d] /\ tries'[d] = tries[d] /\ dead'[d] = dead[d]
      BY <2>1, <2>3 DEF Own, Only
    <3> QED
      BY <3>1, <3>2 DEF Shape
  <2>4. TypeOK'
    <3>1. Next
      BY <1>1 DEF Step, Next
    <3> QED
      BY <1>1, <2>1, <3>1, SystemTyped, RecordTyped DEF Typed, TypeOK, Own, Only
  <2> QED
    BY <2>2, <2>3, <2>4 DEF Typed
<1>2. ASSUME Typed, WorldStep PROVE Typed'
  <2>1. Next
    BY <1>2 DEF WorldStep, Next
  <2>2. TypeOK'
    BY <1>2, <2>1, SystemTyped, WorldKeeps DEF Typed, TypeOK
  <2> QED
    BY <1>2, <2>2, WorldKeeps DEF Typed, Shape
<1>3. ASSUME Typed, UNCHANGED vars PROVE Typed'
  BY <1>3 DEF Typed, TypeOK, Shape, vars
<1> QED
  BY <1>1, <1>2, <1>3 DEF Next, Step, WorldStep

\* Types (SessionRegistry.TypeOK) hold for any number of commands.
THEOREM TypeCorrect == Spec => []TypeOK
<1>1. Spec => []Typed
  BY TypedInit, TypedStep, PTL DEF Spec
<1>2. Typed => TypeOK
  BY DEF Typed
<1> QED
  BY <1>1, <1>2, PTL

-----------------------------------------------------------------------------
(* What a command knows of its record while no other has touched it, and   *)
(* the inductive invariant.                                                *)

Excused(n) == n \in raced \cup discarded

Nobody(n) == \A p \in Pids : ~(holder[p] = n /\ Settled(p))

Absent(c) ==
  name[c] \in fresh[c] =>
    /\ at[c] \in {"spawn", "answer", "daemon"} => record[name[c]] = None
    /\ at[c] = "save" /\ tries[c] > 0 => record[name[c]] = None

Known(c) ==
  name[c] \in fresh[c] =>
    /\ at[c] \in {"serve", "stop", "ask", "quit", "wait", "unlink"}
       => record[name[c]] = pid[c]
    /\ at[c] = "save" /\ tries[c] = 0 => record[name[c]] = pid[c]
    /\ at[c] = "fill" => record[name[c]] = Torn

Filling(c) ==
  at[c] = "fill" /\ name[c] \in fresh[c] /\ ~Excused(name[c]) =>
    \A p \in Pids : holder[p] = name[c] /\ Settled(p) => p = pid[c]

Pruning(c) ==
  dead[c] # None /\ dead[c] \in fresh[c] /\ ~Excused(dead[c]) => Nobody(dead[c])

Unlinking(c) ==
  at[c] = "unlink" /\ name[c] \in fresh[c] /\ ~Excused(name[c]) => Nobody(name[c])

Child(c) == Launching(c) => holder[pid[c]] \in {name[c], None}

Walk(c) ==
  at[c] \in {"attach", "check"} =>
    \A n \in fresh[c] \ todo[c] :
      /\ live[c][n] = IF Readable(n) /\ dead[c] # n THEN record[n] ELSE None
      /\ record[n] = Torn => bad[c]

CommandInv(c) ==
  /\ Absent(c) /\ Known(c) /\ Filling(c) /\ Pruning(c) /\ Unlinking(c)
  /\ Child(c) /\ Walk(c)

IInv == Typed /\ NoOrphan /\ OnePerName /\ \A c \in Commands : CommandInv(c)

-----------------------------------------------------------------------------
(* What a step of one command does to the rest.                            *)

LEMMA StepTyped == ASSUME Typed, NEW c \in Commands, Step(c) PROVE Typed' /\ Own(c)
<1>1. Next
  BY DEF Step, Next
<1>2. Own(c)
  BY OwnSteps DEF Typed, Shape
<1> QED
  BY <1>1, <1>2, TypedStep

\* Another command keeps its place, and knows no more than before.
LEMMA Others ==
  ASSUME Typed, NEW c \in Commands, Step(c), NEW d \in Commands, d # c
  PROVE  /\ at'[d] = at[d] /\ op'[d] = op[d] /\ name'[d] = name[d]
         /\ pid'[d] = pid[d] /\ todo'[d] = todo[d] /\ live'[d] = live[d]
         /\ bad'[d] = bad[d] /\ dead'[d] = dead[d] /\ tries'[d] = tries[d]
         /\ fresh'[d] \subseteq fresh[d]
         /\ Launching(d)' <=> Launching(d)
<1>1. Own(c)
  BY StepTyped
<1> QED
  BY <1>1 DEF Own, Only, Launching

LEMMA Excuses ==
  ASSUME NEW c \in Commands, Step(c)
  PROVE  raced \subseteq raced' /\ discarded \subseteq discarded'
<1>1. UNCHANGED <<record, raced>> \/ WritesRecord(c)
  BY Sources
<1>2. WritesRecord(c) => raced \subseteq raced'
  BY DEF WritesRecord, Prune, Truncate, Fill, Unlink, Discard, Unlinks, Writes
<1>3. UNCHANGED discarded \/ Discard(c)
  BY Sources
<1>4. Discard(c) => discarded \subseteq discarded'
  BY DEF Discard
<1> QED
  BY <1>1, <1>2, <1>3, <1>4

\* Whoever writes a record takes it from the others, and races where another
\* had taken it from him.
LEMMA Recording ==
  ASSUME Typed, NEW c \in Commands, Step(c), NEW n \in Names, record'[n] # record[n]
  PROVE  /\ \A d \in Commands \ {c} : n \notin fresh'[d]
         /\ n \in fresh[c] \/ n \in raced'
         /\ fresh'[c] = fresh[c]
         /\ \/ Prune(c) /\ n = dead[c] /\ record'[n] = None
            \/ Truncate(c) /\ n = name[c] /\ record'[n] = Torn
            \/ Fill(c) /\ n = name[c] /\ record'[n] \in Filled(c)
            \/ Unlink(c) /\ n = name[c] /\ record'[n] = None
            \/ Discard(c) /\ n = name[c] /\ n \in discarded'
<1> SUFFICES ASSUME record \in [Names -> Pids \cup {None, Torn}],
                    fresh \in [Commands -> SUBSET Names]
             PROVE  /\ \A d \in Commands \ {c} : n \notin fresh'[d]
                    /\ n \in fresh[c] \/ n \in raced'
                    /\ fresh'[c] = fresh[c]
                    /\ \/ Prune(c) /\ n = dead[c] /\ record'[n] = None
                       \/ Truncate(c) /\ n = name[c] /\ record'[n] = Torn
                       \/ Fill(c) /\ n = name[c] /\ record'[n] \in Filled(c)
                       \/ Unlink(c) /\ n = name[c] /\ record'[n] = None
                       \/ Discard(c) /\ n = name[c] /\ n \in discarded'
  BY DEF Typed, TypeOK
<1>1. ASSUME NEW m, NEW r, Writes(c, m, r)
      PROVE  /\ n = m /\ record'[n] = r
             /\ \A d \in Commands \ {c} : n \notin fresh'[d]
             /\ n \in fresh[c] \/ n \in raced'
             /\ fresh'[c] = fresh[c]
  BY <1>1 DEF Writes
<1>2. ASSUME NEW m, Unlinks(c, m)
      PROVE  record[m] # None /\ Writes(c, m, None)
  BY <1>2 DEF Unlinks
<1>3. WritesRecord(c)
  BY Sources
<1>4. CASE Prune(c)
  <2>1. Unlinks(c, dead[c])
    BY <1>4 DEF Prune
  <2> QED
    BY <2>1, <1>1, <1>2, <1>4
<1>5. CASE Truncate(c)
  <2>1. Writes(c, name[c], Torn)
    BY <1>5 DEF Truncate
  <2> QED
    BY <2>1, <1>1, <1>5
<1>6. CASE Fill(c)
  <2>1. PICK r \in Filled(c) : Writes(c, name[c], r)
    BY <1>6 DEF Fill
  <2> QED
    BY <2>1, <1>1, <1>6
<1>7. CASE Unlink(c)
  <2>1. Unlinks(c, name[c])
    BY <1>7 DEF Unlink
  <2> QED
    BY <2>1, <1>1, <1>2, <1>7
<1>8. CASE Discard(c)
  <2>1. Unlinks(c, name[c])
    BY <1>8 DEF Discard
  <2>2. name[c] \in discarded'
    BY <1>8, <2>1, <1>2 DEF Discard
  <2> QED
    BY <2>1, <2>2, <1>1, <1>2, <1>8
<1> QED
  BY <1>3, <1>4, <1>5, <1>6, <1>7, <1>8 DEF WritesRecord

LEMMA FillTakes ==
  ASSUME Typed, NEW c \in Commands, Fill(c)
  PROVE  /\ \A d \in Commands \ {c} : name[c] \notin fresh'[d]
         /\ name[c] \in fresh[c] \/ name[c] \in raced'
<1> SUFFICES ASSUME fresh \in [Commands -> SUBSET Names]
             PROVE  /\ \A d \in Commands \ {c} : name[c] \notin fresh'[d]
                    /\ name[c] \in fresh[c] \/ name[c] \in raced'
  BY DEF Typed, TypeOK
<1> QED
  BY DEF Fill, Writes

\* The ways a launch goes on.
LEMMA Launches ==
  ASSUME Typed, NEW c \in Commands, Step(c), Launching(c)
  PROVE  \/ Answers(c) \/ DaemonUp(c) \/ Truncate(c) \/ Fill(c)
         \/ LaunchFails(c) \/ DaemonFails(c) \/ Killed(c)
<1>1. at[c] \in {"answer", "daemon", "save", "fill"} /\ dead[c] = None
  BY DEF Launching, Typed, Shape
<1> QED
  BY <1>1 DEF Step, CommandStep, Begin, Read, Attached, Reap, Prune, NotAttached,
       Launch, Checked, Spawn, SaveSession, Return, StopAlive, Monitor, AskQuit,
       Terminate, Unlink, Discard, Reaped, Scanned, Scanning

\* An emulator is settled by the end of its launch, and by nothing else.
LEMMA Settles ==
  ASSUME Typed, NEW c \in Commands, Step(c), Child(c),
         NEW p \in Pids, holder'[p] \in Names, Settled(p)'
  PROVE  /\ holder[p] = holder'[p]
         /\ Settled(p) \/ (Fill(c) /\ tries[c] > 0 /\ pid[c] = p)
<1>0. /\ holder \in [Pids -> Names \cup {None, Stranger}]
      /\ at \in [Commands -> Places]
      /\ pid \in [Commands -> Pids \cup {None}]
      /\ tries \in [Commands -> 0..Attempts]
  BY DEF Typed, TypeOK
<1>1. ASSUME KillsChild(c) PROVE p # pid[c] /\ holder[p] = holder'[p] /\ p \notin doomed
  <2>1. holder'[p] # None
    BY MarksAssumption
  <2> QED
    BY <1>0, <1>1, <2>1 DEF KillsChild, Settled
<1>2. ASSUME NEW q \in Pids, Spawn(c, q) PROVE p # q /\ UNCHANGED doomed
  <2>1. /\ at'[c] = "answer" /\ pid'[c] = q /\ tries'[c] = tries[c] + 1
        /\ UNCHANGED doomed
    BY <1>0, <1>2 DEF Spawn, Goes
  <2>2. tries[c] \in Nat
    BY <1>0
  <2>3. Launching(c)'
    BY <2>1, <2>2 DEF Launching
  <2> QED
    BY <2>1, <2>3 DEF Settled
<1>3. holder[p] = holder'[p] /\ p \notin doomed
  <2>1. \/ UNCHANGED <<holder, doomed>> \/ AskQuit(c) \/ Terminate(c)
        \/ LaunchFails(c) \/ DaemonFails(c) \/ \E q \in Pids : Spawn(c, q)
    BY Sources
  <2>2. p \notin doomed'
    BY DEF Settled
  <2>3. AskQuit(c) \/ Terminate(c) => UNCHANGED holder /\ doomed \subseteq doomed'
    BY DEF AskQuit, Terminate
  <2>4. LaunchFails(c) \/ DaemonFails(c) => KillsChild(c)
    BY DEF LaunchFails, DaemonFails
  <2>5. \A q \in Pids : Spawn(c, q) => holder[p] = holder'[p] /\ UNCHANGED doomed
    BY <1>0, <1>2 DEF Spawn
  <2> QED
    BY <1>1, <2>1, <2>2, <2>3, <2>4, <2>5
<1>4. p \notin abandoned
  <2>1. Killed(c) => abandoned \subseteq abandoned'
    BY DEF Killed
  <2>2. UNCHANGED abandoned \/ Killed(c)
    BY Sources
  <2> QED
    BY <2>1, <2>2 DEF Settled
<1>5. ASSUME NEW d \in Commands, d # c PROVE ~(Launching(d) /\ pid[d] = p)
  BY <1>5, Others DEF Settled
<1>6. ASSUME Launching(c), pid[c] = p PROVE Fill(c)
  <2>1. ~KillsChild(c)
    BY <1>1, <1>6
  <2>2. ~Killed(c)
    <3> SUFFICES ASSUME Killed(c) PROVE FALSE
      OBVIOUS
    <3>1. holder[p] \in {name[c], None}
      BY <1>6 DEF Child
    <3>2. holder[p] = name[c]
      BY <3>1, <1>3, MarksAssumption
    <3>3. p \in abandoned'
      BY <1>6, <3>2 DEF Killed
    <3> QED
      BY <3>3 DEF Settled
  <2>3. ASSUME Answers(c) \/ DaemonUp(c) \/ Truncate(c) PROVE FALSE
    <3>1. /\ at'[c] \in {"daemon", "save", "fill"}
          /\ pid'[c] = pid[c] /\ tries'[c] = tries[c]
      BY <1>0, <2>3 DEF Answers, DaemonUp, Truncate, Goes, session
    <3>2. Launching(c)' /\ pid'[c] = p
      BY <3>1, <1>6 DEF Launching
    <3> QED
      BY <3>2 DEF Settled
  <2> QED
    BY <1>6, <2>1, <2>2, <2>3, Launches DEF LaunchFails, DaemonFails
<1>7. Settled(p) \/ (Launching(c) /\ pid[c] = p)
  BY <1>3, <1>4, <1>5 DEF Settled
<1> QED
  BY <1>3, <1>6, <1>7 DEF Launching

\* A launch begins by starting an emulator.
LEMMA LaunchBegins ==
  ASSUME Typed, NEW c \in Commands, Step(c), Launching(c)',
         ~\E q \in Pids : Spawn(c, q)
  PROVE  /\ Launching(c) /\ UNCHANGED <<holder, doomed>>
         /\ pid'[c] = pid[c] /\ name'[c] = name[c] /\ fresh'[c] = fresh[c]
         /\ Answers(c) \/ DaemonUp(c) \/ Truncate(c)
<1>0. /\ at \in [Commands -> Places]
      /\ tries \in [Commands -> 0..Attempts]
      /\ fresh \in [Commands -> SUBSET Names]
      /\ Shape(c)
  BY DEF Typed, TypeOK
<1>1. at'[c] \in {"answer", "daemon", "save", "fill"} /\ tries'[c] > 0
  BY DEF Launching
<1>2. Own(c)
  BY StepTyped
<1>3. ~Ends(c)
  BY <1>0, <1>1 DEF Ends, Goes
<1>4. /\ ~SaveSession(c) /\ ~Monitor(c) /\ ~Fill(c)
  <2>1. SaveSession(c) \/ Monitor(c) => tries'[c] = 0
    BY <1>0 DEF SaveSession, Monitor, Shape
  <2>2. Fill(c) => tries'[c] = 0
    BY <1>0 DEF Fill
  <2> QED
    BY <1>1, <2>1, <2>2
<1>5. Answers(c) \/ DaemonUp(c) \/ Truncate(c)
  <2>1. \/ Answers(c) \/ DaemonUp(c) \/ Truncate(c)
        \/ \E o \in Operations, n \in Names \cup {None} : Begin(c, o, n)
        \/ \E n \in Names : Read(c, n) \/ Attached(c, n) \/ Reap(c, n)
        \/ Prune(c) \/ NotAttached(c) \/ Launch(c) \/ Checked(c) \/ LaunchFails(c)
        \/ DaemonFails(c) \/ Return(c) \/ StopAlive(c) \/ AskQuit(c) \/ Terminate(c)
        \/ Unlink(c) \/ Discard(c) \/ Reaped(c) \/ Killed(c)
    BY <1>4 DEF Step, CommandStep
  <2>2. /\ \A o \in Operations, n \in Names \cup {None} : ~Begin(c, o, n)
        /\ ~Launch(c) /\ ~StopAlive(c) /\ ~AskQuit(c) /\ ~Terminate(c)
        /\ ~Unlink(c) /\ ~Discard(c) /\ \A n \in Names : ~Reap(c, n)
    BY <1>0, <1>1 DEF Begin, Launch, StopAlive, AskQuit, Terminate, Unlink,
                      Discard, Reap, Goes
  <2>3. ~Prune(c) /\ \A n \in Names : ~Read(c, n)
    BY <1>0, <1>1 DEF Prune, Read, Scanning, Shape
  <2>4. /\ ~NotAttached(c) /\ ~Checked(c) /\ ~LaunchFails(c)
        /\ \A n \in Names : ~Attached(c, n)
    BY <1>0, <1>1, <1>3 DEF NotAttached, Checked, LaunchFails, Attached, Goes
  <2>5. ~DaemonFails(c) /\ ~Return(c) /\ ~Reaped(c) /\ ~Killed(c)
    BY <1>3 DEF DaemonFails, Return, Reaped, Killed
  <2> QED
    BY <2>1, <2>2, <2>3, <2>4, <2>5
<1>6. /\ UNCHANGED <<holder, doomed, tries, pid, name>>
      /\ at[c] \in {"answer", "daemon", "save"}
  BY <1>5 DEF Answers, DaemonUp, Truncate, system, session
<1>7. fresh'[c] = fresh[c]
  BY <1>0, <1>5 DEF Answers, DaemonUp, Truncate, Writes
<1> QED
  BY <1>1, <1>5, <1>6, <1>7 DEF Launching

\* A claim on a name is older than the step, or is a launch that begins.
LEMMA Claiming ==
  ASSUME Typed, NEW c \in Commands, Step(c), \A d \in Commands : Child(d),
         NEW p \in Pids, holder'[p] \in Names, Claims(p)',
         holder'[p] \notin raced'
  PROVE  \/ Claims(p) /\ holder[p] = holder'[p]
         \/ Spawn(c, p) /\ holder'[p] = name[c] /\ name[c] \in fresh[c]
<1>0. /\ holder \in [Pids -> Names \cup {None, Stranger}]
      /\ at \in [Commands -> Places]
      /\ name \in [Commands -> Names \cup {None}]
      /\ pid \in [Commands -> Pids \cup {None}]
      /\ tries \in [Commands -> 0..Attempts]
  BY DEF Typed, TypeOK
<1>1. ASSUME Settled(p)' PROVE Claims(p) /\ holder[p] = holder'[p]
  <2>1. /\ holder[p] = holder'[p]
        /\ Settled(p) \/ (Fill(c) /\ tries[c] > 0 /\ pid[c] = p)
    BY <1>1, Settles
  <2>2. ASSUME Fill(c), tries[c] > 0, pid[c] = p PROVE Claims(p)
    <3>1. Launching(c)
      BY <2>2 DEF Launching, Fill
    <3>2. holder[p] = name[c]
      BY <2>1, <2>2, <3>1, MarksAssumption DEF Child
    <3>3. name[c] \in fresh[c]
      BY <2>1, <2>2, <3>2, FillTakes
    <3>4. p \notin doomed
      BY <1>1, <2>2 DEF Settled, Fill, system
    <3> QED
      BY <2>2, <3>1, <3>3, <3>4 DEF Claims
  <2> QED
    BY <2>1, <2>2 DEF Claims
<1>2. ASSUME NEW d \in Commands, Launching(d)', pid'[d] = p,
             name'[d] \in fresh'[d], p \notin doomed'
      PROVE  \/ Claims(p) /\ holder[p] = holder'[p]
             \/ Spawn(c, p) /\ holder'[p] = name[c] /\ name[c] \in fresh[c]
  <2>1. ASSUME ~\E q \in Pids : Spawn(c, q)
        PROVE  p \notin doomed /\ holder[p] = holder'[p]
    <3>1. \/ UNCHANGED <<holder, doomed>> \/ AskQuit(c) \/ Terminate(c)
          \/ LaunchFails(c) \/ DaemonFails(c)
      BY <2>1, Sources
    <3>2. AskQuit(c) \/ Terminate(c) => UNCHANGED holder /\ doomed \subseteq doomed'
      BY DEF AskQuit, Terminate
    <3>3. LaunchFails(c) \/ DaemonFails(c) => KillsChild(c)
      BY DEF LaunchFails, DaemonFails
    <3>4. KillsChild(c) => holder[p] = holder'[p] /\ p \notin doomed
      <4>1. holder'[p] # None
        BY MarksAssumption
      <4> QED
        BY <1>0, <1>2, <4>1 DEF KillsChild
    <3> QED
      BY <1>2, <3>1, <3>2, <3>3, <3>4
  <2>2. ASSUME NEW q \in Pids, Spawn(c, q), d # c
        PROVE  Claims(p) /\ holder[p] = holder'[p]
    <3>1. Launching(d) /\ pid[d] = p /\ name[d] \in fresh[d] /\ Unused(q)
      BY <1>2, <2>2, Others DEF Spawn
    <3>2. p # q /\ UNCHANGED doomed
      BY <2>2, <3>1 DEF Spawn, Unused
    <3>3. holder[p] = holder'[p]
      BY <1>0, <2>2, <3>2 DEF Spawn
    <3> QED
      BY <1>2, <3>1, <3>2, <3>3 DEF Claims
  <2>3. ASSUME NEW q \in Pids, Spawn(c, q), d = c
        PROVE  Spawn(c, p) /\ holder'[p] = name[c] /\ name[c] \in fresh[c]
    <3>1. pid'[c] = q /\ name'[c] = name[c] /\ fresh'[c] = fresh[c]
      BY <1>0, <2>3 DEF Spawn
    <3>2. p = q
      BY <1>2, <2>3, <3>1
    <3>3. holder'[p] = name[c]
      BY <1>0, <2>3, <3>2 DEF Spawn
    <3> QED
      BY <1>2, <2>3, <3>1, <3>2, <3>3
  <2>4. ASSUME ~\E q \in Pids : Spawn(c, q), d # c PROVE Claims(p)
    BY <1>2, <2>1, <2>4, Others DEF Claims
  <2>5. ASSUME ~\E q \in Pids : Spawn(c, q), d = c PROVE Claims(p)
    <3>1. /\ Launching(c) /\ pid[c] = pid'[c] /\ name[c] = name'[c]
          /\ fresh'[c] \subseteq fresh[c]
      <4>1. Launching(c)'
        BY <1>2, <2>5
      <4> QED
        BY <4>1, <2>5, LaunchBegins
    <3> QED
      BY <1>2, <2>1, <2>5, <3>1 DEF Claims
  <2> QED
    BY <2>1, <2>2, <2>3, <2>4, <2>5
<1> QED
  BY <1>1, <1>2 DEF Claims

-----------------------------------------------------------------------------
(* A step of a command keeps the invariant.                                *)

LEMMA OrphanStep == ASSUME IInv, NEW c \in Commands, Step(c) PROVE NoOrphan'
<1> SUFFICES ASSUME NEW p \in Pids, NEW n \in Names, n \notin raced' \cup discarded',
                    holder'[p] = n, Settled(p)'
             PROVE  record'[n] \in {p, Torn}
  BY DEF NoOrphan
<1>0. Typed /\ NoOrphan /\ CommandInv(c)
  BY DEF IInv
<1>1. ~Excused(n)
  BY Excuses DEF Excused
<1>2. /\ holder[p] = n
      /\ Settled(p) \/ (Fill(c) /\ tries[c] > 0 /\ pid[c] = p)
  BY <1>0, Settles DEF CommandInv
<1>3. CASE Settled(p)
  <2>1. record[n] \in {p, Torn}
    BY <1>0, <1>1, <1>2, <1>3 DEF NoOrphan, Excused
  <2>2. ~Nobody(n)
    BY <1>2, <1>3 DEF Nobody
  <2> SUFFICES ASSUME record'[n] # record[n] PROVE record'[n] \in {p, Torn}
    BY <2>1
  <2>3. n \in fresh[c]
    BY <1>0, Recording
  <2>4. \/ Prune(c) /\ n = dead[c]
        \/ Truncate(c) /\ record'[n] = Torn
        \/ Fill(c) /\ n = name[c] /\ record'[n] \in Filled(c)
        \/ Unlink(c) /\ n = name[c]
    BY <1>0, Recording
  <2>5. ~(Prune(c) /\ n = dead[c])
    BY <1>0, <1>1, <2>2, <2>3 DEF CommandInv, Pruning, Prune
  <2>6. ~(Unlink(c) /\ n = name[c])
    BY <1>0, <1>1, <2>2, <2>3 DEF CommandInv, Unlinking, Unlink
  <2>7. ASSUME Fill(c), n = name[c], record'[n] \in Filled(c) PROVE record'[n] = p
    <3>1. record'[n] = pid[c]
      BY <2>3, <2>7 DEF Filled
    <3>2. p = pid[c]
      BY <1>0, <1>1, <1>2, <1>3, <2>3, <2>7 DEF CommandInv, Filling, Fill
    <3> QED
      BY <3>1, <3>2
  <2> QED
    BY <2>4, <2>5, <2>6, <2>7
<1>4. CASE Fill(c) /\ tries[c] > 0 /\ pid[c] = p
  <2>1. Launching(c)
    BY <1>4 DEF Launching, Fill
  <2>2. n = name[c]
    BY <1>0, <1>2, <1>4, <2>1, MarksAssumption DEF CommandInv, Child
  <2>3. n \in fresh[c]
    BY <1>0, <1>4, <2>2, FillTakes
  <2>4. record'[n] = pid[c]
    <3>1. record \in [Names -> Pids \cup {None, Torn}]
      BY <1>0 DEF Typed, TypeOK
    <3>2. Filled(c) = {pid[c]}
      BY <2>2, <2>3 DEF Filled
    <3> QED
      BY <1>4, <2>2, <3>1, <3>2 DEF Fill, Writes
  <2> QED
    BY <1>4, <2>4
<1> QED
  BY <1>2, <1>3, <1>4

LEMMA OneStep == ASSUME IInv, NEW c \in Commands, Step(c) PROVE OnePerName'
<1> SUFFICES ASSUME NEW p \in Pids, NEW q \in Pids, NEW n \in Names,
                    n \notin raced' \cup discarded',
                    holder'[p] = n, holder'[q] = n, Settled(p)', Claims(q)'
             PROVE  p = q
  BY DEF OnePerName
<1>0. Typed /\ NoOrphan /\ OnePerName /\ \A d \in Commands : CommandInv(d)
  BY DEF IInv
<1>1. n \notin raced \cup discarded
  BY Excuses
<1>2. \A d \in Commands : Child(d)
  BY <1>0 DEF CommandInv
<1>3. /\ holder[p] = n
      /\ Settled(p) \/ (Fill(c) /\ tries[c] > 0 /\ pid[c] = p)
  BY <1>0, <1>2, Settles
<1>4. \/ Claims(q) /\ holder[q] = n
      \/ Spawn(c, q) /\ n = name[c] /\ name[c] \in fresh[c]
  BY <1>0, <1>2, Claiming
<1>5. CASE Settled(p)
  <2>1. CASE Claims(q) /\ holder[q] = n
    BY <1>0, <1>1, <1>3, <1>5, <2>1 DEF OnePerName
  <2>2. CASE Spawn(c, q) /\ n = name[c] /\ name[c] \in fresh[c]
    <3>1. record[n] \in {p, Torn}
      BY <1>0, <1>1, <1>3, <1>5 DEF NoOrphan
    <3>2. record[n] = None
      BY <1>0, <2>2 DEF CommandInv, Absent, Spawn
    <3> QED
      BY <3>1, <3>2, MarksAssumption
  <2> QED
    BY <1>4, <2>1, <2>2
<1>6. CASE Fill(c) /\ tries[c] > 0 /\ pid[c] = p
  <2>1. Launching(c) /\ at[c] = "fill"
    BY <1>6 DEF Launching, Fill
  <2>2. n = name[c]
    BY <1>2, <1>3, <1>6, <2>1, MarksAssumption DEF Child
  <2>3. name[c] \in fresh[c]
    BY <1>0, <1>6, <2>2, FillTakes
  <2>4. Claims(p)
    <3>1. p \notin doomed
      BY <1>6 DEF Settled, Fill, system
    <3> QED
      BY <1>6, <2>1, <2>3, <3>1 DEF Claims
  <2>5. holder[q] = n
    BY <1>4, <2>1 DEF Spawn
  <2>6. ASSUME Settled(q)' PROVE p = q
    <3>1. Settled(q) \/ pid[c] = q
      BY <1>0, <1>2, <2>6, Settles
    <3>2. Settled(q) => p = q
      BY <1>0, <1>1, <1>3, <2>4, <2>5 DEF OnePerName
    <3> QED
      BY <1>6, <3>1, <3>2
  <2>7. ASSUME NEW d \in Commands, Launching(d)', pid'[d] = q, name'[d] \in fresh'[d]
        PROVE  p = q
    <3>1. CASE d = c
      BY <1>6, <2>7, <3>1 DEF Fill, session
    <3>2. CASE d # c
      <4>1. Launching(d) /\ pid[d] = q /\ name[d] \in fresh'[d]
        BY <1>0, <2>7, <3>2, Others
      <4>2. name[d] = n
        BY <1>2, <2>5, <4>1, MarksAssumption DEF Child
      <4>3. name[c] \notin fresh'[d]
        BY <1>0, <1>6, <3>2, FillTakes
      <4> QED
        BY <2>2, <4>1, <4>2, <4>3
    <3> QED
      BY <3>1, <3>2
  <2> QED
    BY <2>6, <2>7 DEF Claims
<1> QED
  BY <1>3, <1>5, <1>6

\* A command that still knows a record sees what it was before the step.
LEMMA Remembers ==
  ASSUME Typed, NEW c \in Commands, Step(c), NEW d \in Commands, d # c,
         NEW n \in Names, n \in fresh'[d]
  PROVE  n \in fresh[d] /\ record'[n] = record[n]
BY Others, Recording

\* ... and so what it knows of it stays so.
LEMMA OthersKeep ==
  ASSUME IInv, NEW c \in Commands, Step(c), NEW d \in Commands, d # c
  PROVE  CommandInv(d)'
<1>0. Typed /\ CommandInv(d) /\ Child(c)
  BY DEF IInv, CommandInv
<1>1. /\ at'[d] = at[d] /\ op'[d] = op[d] /\ name'[d] = name[d]
      /\ pid'[d] = pid[d] /\ todo'[d] = todo[d] /\ live'[d] = live[d]
      /\ bad'[d] = bad[d] /\ dead'[d] = dead[d] /\ tries'[d] = tries[d]
      /\ fresh'[d] \subseteq fresh[d]
      /\ Launching(d)' <=> Launching(d)
  BY <1>0, Others
<1>2. \A n \in fresh'[d] : record'[n] = record[n]
  <2>1. fresh'[d] \subseteq Names
    BY <1>0, <1>1 DEF Typed, TypeOK
  <2> QED
    BY <1>0, <2>1, Remembers
<1>3. \A n : ~Excused(n)' => ~Excused(n)
  BY Excuses DEF Excused
\* No one settles under a name that d knows.
<1>4. ASSUME NEW p \in Pids, holder'[p] \in fresh'[d], Settled(p)'
      PROVE  holder[p] = holder'[p] /\ Settled(p)
  <2>1. holder'[p] \in Names
    BY <1>0, <1>1, <1>4 DEF Typed, TypeOK
  <2>2. /\ holder[p] = holder'[p]
        /\ Settled(p) \/ (Fill(c) /\ tries[c] > 0 /\ pid[c] = p)
    BY <1>0, <1>4, <2>1, Settles
  <2>3. ASSUME Fill(c), tries[c] > 0, pid[c] = p PROVE FALSE
    <3>1. Launching(c)
      BY <2>3 DEF Fill, Launching
    <3>2. holder[p] = name[c]
      BY <1>0, <2>1, <2>2, <2>3, <3>1, MarksAssumption DEF Child
    <3> QED
      BY <1>0, <1>4, <2>2, <2>3, <3>2, FillTakes
  <2> QED
    BY <2>2, <2>3
<1>5. Absent(d)' /\ Known(d)'
  BY <1>0, <1>1, <1>2 DEF CommandInv, Absent, Known
<1>6. Filling(d)'
  BY <1>0, <1>1, <1>3, <1>4 DEF CommandInv, Filling
<1>7. Pruning(d)'
  BY <1>0, <1>1, <1>3, <1>4 DEF CommandInv, Pruning, Nobody
<1>8. Unlinking(d)'
  BY <1>0, <1>1, <1>3, <1>4 DEF CommandInv, Unlinking, Nobody
<1>9. Child(d)'
  <2> SUFFICES ASSUME Launching(d) PROVE holder'[pid[d]] \in {name[d], None}
    BY <1>1 DEF Child
  <2>1. holder[pid[d]] \in {name[d], None} /\ pid[d] \in Pids
    BY <1>0 DEF CommandInv, Child, Typed, Shape, Launching
  <2>2. holder \in [Pids -> Names \cup {None, Stranger}]
    BY <1>0 DEF Typed, TypeOK
  <2>3. \/ UNCHANGED <<holder, doomed>> \/ AskQuit(c) \/ Terminate(c)
        \/ LaunchFails(c) \/ DaemonFails(c) \/ \E q \in Pids : Spawn(c, q)
    BY Sources
  <2>4. AskQuit(c) \/ Terminate(c) => UNCHANGED holder
    BY DEF AskQuit, Terminate
  <2>5. LaunchFails(c) \/ DaemonFails(c) => KillsChild(c)
    BY DEF LaunchFails, DaemonFails
  <2>6. KillsChild(c) => holder'[pid[d]] \in {holder[pid[d]], None}
    BY <2>1, <2>2 DEF KillsChild
  <2>7. ASSUME NEW q \in Pids, Spawn(c, q) PROVE holder'[pid[d]] = holder[pid[d]]
    <3>1. q # pid[d]
      BY <2>7 DEF Spawn, Unused
    <3> QED
      BY <2>1, <2>2, <2>7, <3>1 DEF Spawn
  <2> QED
    BY <2>1, <2>3, <2>4, <2>5, <2>6, <2>7
<1>10. Walk(d)'
  BY <1>0, <1>1, <1>2 DEF CommandInv, Walk, Readable
<1> QED
  BY <1>5, <1>6, <1>7, <1>8, <1>9, <1>10 DEF CommandInv

LEMMA ChildStep ==
  ASSUME Typed, NEW c \in Commands, Step(c), Child(c)
  PROVE  Child(c)'
<1> SUFFICES ASSUME Launching(c)' PROVE holder'[pid'[c]] \in {name'[c], None}
  BY DEF Child
<1>1. CASE ~\E q \in Pids : Spawn(c, q)
  <2>1. /\ Launching(c) /\ UNCHANGED holder
        /\ pid'[c] = pid[c] /\ name'[c] = name[c]
    BY <1>1, LaunchBegins
  <2> QED
    BY <2>1 DEF Child
<1>2. ASSUME NEW q \in Pids, Spawn(c, q) PROVE holder'[pid'[c]] = name'[c]
  <2>1. /\ holder \in [Pids -> Names \cup {None, Stranger}]
        /\ pid \in [Commands -> Pids \cup {None}]
    BY DEF Typed, TypeOK
  <2> QED
    BY <1>2, <2>1 DEF Spawn
<1> QED
  BY <1>1, <1>2

LEMMA WalkStep ==
  ASSUME Typed, NEW c \in Commands, Step(c), Walk(c)
  PROVE  Walk(c)'
<1>0. /\ at \in [Commands -> Places]
      /\ op \in [Commands -> Operations]
      /\ todo \in [Commands -> SUBSET Names]
      /\ live \in [Commands -> [Names -> Pids \cup {None}]]
      /\ bad \in [Commands -> BOOLEAN]
      /\ dead \in [Commands -> Names \cup {None}]
      /\ fresh \in [Commands -> SUBSET Names]
      /\ record \in [Names -> Pids \cup {None, Torn}]
  BY DEF Typed, TypeOK
<1> SUFFICES ASSUME at'[c] \in {"attach", "check"} PROVE Walk(c)'
  BY DEF Walk
<1>1. ASSUME Lists(c), UNCHANGED record PROVE Walk(c)'
  <2>1. /\ todo'[c] = {n \in Names : record[n] # None}
        /\ fresh'[c] = {n \in Names : record[n] = None}
        /\ live'[c] = NoneLive
    BY <1>0, <1>1 DEF Lists
  <2> QED
    BY <1>1, <2>1, MarksAssumption DEF Walk, NoneLive, Readable
<1>2. ASSUME NEW n \in Names, Read(c, n) PROVE Walk(c)'
  <2>1. /\ at[c] \in {"attach", "check"} /\ dead[c] = None
        /\ fresh'[c] = fresh[c] \cup {n} /\ todo'[c] = todo[c] \ {n}
        /\ bad'[c] = (bad[c] \/ ~Readable(n))
        /\ live'[c] = [live[c] EXCEPT ![n] =
                         IF IsAlive(record[n]) THEN record[n] ELSE None]
        /\ dead'[c] = IF Readable(n) /\ ~IsAlive(record[n]) THEN n ELSE None
        /\ UNCHANGED record
    BY <1>0, <1>2 DEF Read, Scanning
  <2>2. ASSUME NEW m \in fresh'[c] \ todo'[c], m # n
        PROVE  /\ live'[c][m] = IF Readable(m)' /\ dead'[c] # m THEN record'[m] ELSE None
               /\ record'[m] = Torn => bad'[c]
    <3>1. m \in fresh[c] \ todo[c] /\ m \in Names
      BY <1>0, <2>1, <2>2
    <3>2. /\ live[c][m] = IF Readable(m) /\ dead[c] # m THEN record[m] ELSE None
          /\ record[m] = Torn => bad[c]
      BY <2>1, <3>1 DEF Walk
    <3>3. live'[c][m] = live[c][m] /\ dead'[c] # m /\ dead[c] # m
      BY <1>0, <2>1, <2>2, <3>1, MarksAssumption
    <3> QED
      BY <2>1, <3>2, <3>3 DEF Readable
  <2>3. /\ live'[c][n] = IF Readable(n)' /\ dead'[c] # n THEN record'[n] ELSE None
        /\ record'[n] = Torn => bad'[c]
    <3>1. live'[c][n] = IF IsAlive(record[n]) THEN record[n] ELSE None
      BY <1>0, <2>1
    <3>2. IsAlive(record[n]) => Readable(n)
      BY MarksAssumption DEF IsAlive, Readable
    <3>3. n # None
      BY MarksAssumption
    <3> QED
      BY <2>1, <3>1, <3>2, <3>3 DEF Readable
  <2> QED
    BY <2>2, <2>3 DEF Walk
<1>3. CASE Prune(c)
  <2>1. /\ at[c] \in {"attach", "check"} /\ dead[c] \in Names /\ dead'[c] = None
        /\ todo'[c] = todo[c] /\ live'[c] = live[c] /\ bad'[c] = bad[c]
        /\ Unlinks(c, dead[c])
    BY <1>0, <1>3 DEF Prune, Typed, Shape
  <2>2. /\ fresh'[c] = fresh[c]
        /\ record' = [record EXCEPT ![dead[c]] = None]
    BY <1>0, <2>1 DEF Unlinks, Writes
  <2>3. ASSUME NEW m \in fresh[c] \ todo[c]
        PROVE  /\ live[c][m] = IF Readable(m)' /\ None # m THEN record'[m] ELSE None
               /\ record'[m] = Torn => bad[c]
    <3>1. m \in Names /\ m # None
      BY <1>0, <2>3, MarksAssumption
    <3>2. /\ live[c][m] = IF Readable(m) /\ dead[c] # m THEN record[m] ELSE None
          /\ record[m] = Torn => bad[c]
      BY <2>1, <2>3 DEF Walk
    <3>3. CASE m = dead[c]
      BY <1>0, <2>1, <2>2, <3>1, <3>2, <3>3, MarksAssumption DEF Readable
    <3>4. CASE m # dead[c]
      BY <1>0, <2>1, <2>2, <3>1, <3>2, <3>4 DEF Readable
    <3> QED
      BY <3>3, <3>4
  <2> QED
    BY <2>1, <2>2, <2>3 DEF Walk
<1>4. \/ Lists(c) /\ UNCHANGED record
      \/ \E n \in Names : Read(c, n)
      \/ Prune(c)
  <2>1. ~Ends(c)
    BY <1>0 DEF Ends, Goes
  <2>2. /\ \A n \in Names : ~Attached(c, n) /\ ~Reap(c, n)
        /\ ~NotAttached(c) /\ ~Checked(c) /\ ~LaunchFails(c)
    BY <1>0, <2>1 DEF Attached, Reap, NotAttached, Checked, LaunchFails, Goes
  <2>3. /\ \A p \in Pids : ~Spawn(c, p)
        /\ ~Answers(c) /\ ~DaemonUp(c) /\ ~Truncate(c) /\ ~Fill(c)
        /\ ~SaveSession(c) /\ ~StopAlive(c) /\ ~Monitor(c)
    BY <1>0 DEF Spawn, Answers, DaemonUp, Truncate, Fill, SaveSession, StopAlive,
                Monitor, Goes
  <2>4. /\ ~AskQuit(c) /\ ~Terminate(c) /\ ~Unlink(c) /\ ~Discard(c)
        /\ ~DaemonFails(c) /\ ~Return(c) /\ ~Reaped(c) /\ ~Killed(c)
    BY <1>0, <2>1 DEF AskQuit, Terminate, Unlink, Discard, Goes, DaemonFails,
                      Return, Reaped, Killed
  <2>5. Launch(c) => Lists(c) /\ UNCHANGED record
    BY DEF Launch
  <2>6. \A o \in Operations, n \in Names \cup {None} :
          Begin(c, o, n) => Lists(c) /\ UNCHANGED record
    BY DEF Begin
  <2> QED
    BY <2>2, <2>3, <2>4, <2>5, <2>6 DEF Step, CommandStep
<1> QED
  BY <1>1, <1>2, <1>3, <1>4

LEMMA PruningStep ==
  ASSUME IInv, NEW c \in Commands, Step(c)
  PROVE  Pruning(c)'
<1> SUFFICES ASSUME dead'[c] # None, dead'[c] \in fresh'[c],
                    dead'[c] \notin raced' \cup discarded',
                    NEW p \in Pids, holder'[p] = dead'[c], Settled(p)'
             PROVE  FALSE
  BY DEF Pruning, Nobody, Excused
<1>0. Typed /\ NoOrphan /\ Child(c)
  BY DEF IInv, CommandInv
<1>1. /\ dead \in [Commands -> Names \cup {None}]
      /\ op \in [Commands -> Operations]
      /\ at \in [Commands -> Places]
      /\ Shape(c)
  BY <1>0 DEF Typed, TypeOK
<1>2. PICK n \in Names : Read(c, n)
  <2>1. UNCHANGED dead \/ \E n \in Names : Read(c, n)
    <3>1. ~Lists(c) /\ ~Forgets(c) /\ ~Prune(c)
      BY <1>1 DEF Lists, Forgets, Prune
    <3>2. \/ UNCHANGED <<todo, bad, dead>> \/ Lists(c) \/ Forgets(c) \/ Prune(c)
          \/ \E n \in Names : Read(c, n) \/ Reap(c, n)
      BY Sources
    <3> QED
      BY <3>1, <3>2 DEF Reap
  <2>2. ASSUME UNCHANGED dead PROVE FALSE
    <3>1. dead[c] # None /\ at[c] \in {"attach", "check"}
      BY <1>1, <2>2 DEF Shape
    <3>2. ~Scanning(c)
      BY <3>1 DEF Scanning
    <3>3. ~Prune(c) /\ ~Ends(c)
      BY <1>1, <2>2, <3>1 DEF Prune, Ends, Forgets
    <3> QED
      BY <3>1, <3>2, <3>3
         DEF Step, CommandStep, Begin, Read, Attached, Reap, NotAttached, Launch,
             Checked, Spawn, Answers, LaunchFails, DaemonUp, DaemonFails, Truncate,
             Fill, SaveSession, Return, StopAlive, Monitor, AskQuit, Terminate,
             Unlink, Discard, Reaped, Killed, Scanned
  <2> QED
    BY <2>1, <2>2
<1>3. dead'[c] = n /\ Readable(n) /\ ~IsAlive(record[n])
  BY <1>1, <1>2 DEF Read
<1>4. holder[p] = n /\ Settled(p)
  <2>1. ~Fill(c)
    BY <1>2 DEF Fill, Read, Scanning
  <2>2. holder'[p] \in Names
    BY <1>3
  <2> QED
    BY <1>0, <1>3, <2>1, <2>2, Settles
<1>5. record[n] = p
  <2>1. n \notin raced \cup discarded
    BY <1>3, Excuses
  <2> QED
    BY <1>0, <1>3, <1>4, <2>1 DEF NoOrphan, Readable
<1> QED
  BY <1>3, <1>4, <1>5 DEF IsAlive

LEMMA UnlinkingStep ==
  ASSUME IInv, NEW c \in Commands, Step(c)
  PROVE  Unlinking(c)'
<1> SUFFICES ASSUME at'[c] = "unlink", name'[c] \in fresh'[c],
                    name'[c] \notin raced' \cup discarded',
                    NEW p \in Pids, holder'[p] = name'[c], Settled(p)'
             PROVE  FALSE
  BY DEF Unlinking, Nobody, Excused
<1>0. Typed /\ NoOrphan /\ Child(c) /\ Known(c)
  BY DEF IInv, CommandInv
<1>1. /\ at \in [Commands -> Places]
      /\ name \in [Commands -> Names \cup {None}]
      /\ fresh \in [Commands -> SUBSET Names]
      /\ op \in [Commands -> Operations]
      /\ Shape(c)
  BY <1>0 DEF Typed, TypeOK
<1>2. StopAlive(c) \/ Terminate(c)
  <2>1. ~Ends(c)
    BY <1>1 DEF Ends, Goes
  <2>2. /\ \A n \in Names : ~Attached(c, n) /\ ~Reap(c, n)
        /\ ~NotAttached(c) /\ ~Checked(c) /\ ~LaunchFails(c) /\ ~Launch(c)
    BY <1>1, <2>1 DEF Attached, Reap, NotAttached, Checked, LaunchFails, Launch, Goes
  <2>3. /\ \A p_1 \in Pids : ~Spawn(c, p_1)
        /\ ~Answers(c) /\ ~DaemonUp(c) /\ ~Truncate(c) /\ ~Fill(c)
        /\ ~SaveSession(c) /\ ~Monitor(c) /\ ~AskQuit(c)
    BY <1>1 DEF Spawn, Answers, DaemonUp, Truncate, Fill, SaveSession, Monitor,
                AskQuit, Goes
  <2>4. /\ ~Unlink(c) /\ ~Discard(c)
        /\ ~DaemonFails(c) /\ ~Return(c) /\ ~Reaped(c) /\ ~Killed(c)
    BY <1>1, <2>1 DEF Unlink, Discard, Goes, DaemonFails, Return, Reaped, Killed
  <2>5. ~Prune(c) /\ \A n \in Names : ~Read(c, n)
    BY <1>1 DEF Prune, Read, Scanning, Shape
  <2>6. \A o \in Operations, n \in Names \cup {None} : ~Begin(c, o, n)
    BY <1>1 DEF Begin, Goes
  <2> QED
    BY <2>2, <2>3, <2>4, <2>5, <2>6 DEF Step, CommandStep
<1>3. /\ name'[c] = name[c] /\ fresh'[c] = fresh[c] /\ at[c] \in {"stop", "wait"}
      /\ UNCHANGED holder
  BY <1>2 DEF StopAlive, Terminate, session, system
<1>4. name[c] \in Names /\ pid[c] \in Pids /\ record[name[c]] = pid[c]
  BY <1>0, <1>1, <1>3 DEF Known, Shape
<1>5. holder[p] = name[c] /\ Settled(p)
  BY <1>0, <1>3, <1>4, Settles DEF Fill
<1>6. p = pid[c] /\ IsAlive(p)
  <2>1. name[c] \notin raced \cup discarded
    BY <1>3, Excuses
  <2>2. record[name[c]] \in {p, Torn}
    BY <1>0, <1>4, <1>5, <2>1 DEF NoOrphan
  <2> QED
    BY <1>4, <1>5, <2>2, MarksAssumption DEF IsAlive
<1>7. ~StopAlive(c)
  BY <1>1, <1>6 DEF StopAlive, Goes
<1>8. ~Terminate(c)
  BY <1>6 DEF Terminate, Settled
<1> QED
  BY <1>2, <1>7, <1>8

\* Truncating the file tears no one's record but the one at hand.
LEMMA TruncateStep ==
  ASSUME IInv, NEW c \in Commands, Truncate(c)
  PROVE  Filling(c)' /\ Known(c)' /\ Absent(c)'
<1>0. Typed /\ NoOrphan /\ Child(c) /\ Known(c) /\ Absent(c) /\ Step(c)
  BY DEF IInv, CommandInv, Step, CommandStep
<1>1. /\ at \in [Commands -> Places]
      /\ name \in [Commands -> Names \cup {None}]
      /\ pid \in [Commands -> Pids \cup {None}]
      /\ tries \in [Commands -> 0..Attempts]
      /\ fresh \in [Commands -> SUBSET Names]
      /\ record \in [Names -> Pids \cup {None, Torn}]
      /\ Shape(c)
  BY <1>0 DEF Typed, TypeOK
<1>2. name[c] \in Names /\ pid[c] \in Pids /\ at[c] = "save" /\ at'[c] = "fill"
  BY <1>1 DEF Truncate, Goes, Shape
<1>3. /\ name'[c] = name[c] /\ pid'[c] = pid[c] /\ fresh'[c] = fresh[c]
      /\ record'[name[c]] = Torn
  BY <1>1, <1>2 DEF Truncate, session, Writes
<1>4. Known(c)' /\ Absent(c)'
  BY <1>2, <1>3 DEF Known, Absent
<1>5. ASSUME name[c] \in fresh[c], name[c] \notin raced' \cup discarded',
             NEW p \in Pids, holder'[p] = name[c], Settled(p)'
      PROVE  p = pid[c]
  <2>1. holder[p] = name[c] /\ Settled(p)
    BY <1>0, <1>2, <1>5, Settles DEF Fill
  <2>2. name[c] \notin raced \cup discarded
    BY <1>0, <1>5, Excuses
  <2>3. record[name[c]] \in {p, Torn}
    BY <1>0, <1>2, <2>1, <2>2 DEF NoOrphan
  <2>4. tries[c] > 0 => record[name[c]] = None
    BY <1>0, <1>2, <1>5 DEF Absent
  <2>5. tries[c] = 0 => record[name[c]] = pid[c]
    BY <1>0, <1>2, <1>5 DEF Known
  <2>6. tries[c] = 0 \/ tries[c] > 0
    BY <1>1
  <2> QED
    BY <1>2, <2>3, <2>4, <2>5, <2>6, MarksAssumption
<1>6. Filling(c)'
  BY <1>3, <1>5 DEF Filling, Excused
<1> QED
  BY <1>4, <1>6

\* A launch goes ahead where the walk found no record.
LEMMA CheckedStep ==
  ASSUME IInv, NEW c \in Commands, Checked(c)
  PROVE  Filling(c)' /\ Known(c)' /\ Absent(c)'
<1>0. Typed /\ Walk(c)
  BY DEF IInv, CommandInv
<1>1. /\ at \in [Commands -> Places]
      /\ name \in [Commands -> Names \cup {None}]
      /\ fresh \in [Commands -> SUBSET Names]
      /\ record \in [Names -> Pids \cup {None, Torn}]
  BY <1>0 DEF Typed, TypeOK
<1>2. CASE Ends(c)
  BY <1>1, <1>2 DEF Ends, Goes, Filling, Known, Absent
<1>3. CASE ~Ends(c)
  <2>1. /\ at[c] = "check" /\ todo[c] = {} /\ dead[c] = None
        /\ ~bad[c] /\ live[c][name[c]] = None /\ at'[c] = "spawn"
        /\ UNCHANGED <<name, fresh, record>>
    BY <1>1, <1>3 DEF Checked, Scanned, Scanning, Goes, session
  <2>2. ASSUME name[c] \in fresh[c] PROVE record[name[c]] = None
    <3>1. name[c] \in Names
      BY <1>1, <2>2
    <3>2. /\ None = IF Readable(name[c]) /\ dead[c] # name[c]
                    THEN record[name[c]] ELSE None
          /\ record[name[c]] # Torn
      BY <1>0, <2>1, <2>2 DEF Walk
    <3>3. dead[c] # name[c]
      BY <2>1, <3>1, MarksAssumption
    <3> QED
      BY <3>2, <3>3 DEF Readable
  <2> QED
    BY <2>1, <2>2 DEF Filling, Known, Absent
<1> QED
  BY <1>2, <1>3

\* The session a command attaches to is the one on record.
LEMMA AttachedStep ==
  ASSUME IInv, NEW c \in Commands, NEW n \in Names, Attached(c, n)
  PROVE  Filling(c)' /\ Known(c)' /\ Absent(c)'
<1>0. Typed /\ Walk(c)
  BY DEF IInv, CommandInv
<1>1. /\ at \in [Commands -> Places]
      /\ name \in [Commands -> Names \cup {None}]
      /\ pid \in [Commands -> Pids \cup {None}]
      /\ fresh \in [Commands -> SUBSET Names]
      /\ Shape(c)
  BY <1>0 DEF Typed, TypeOK
<1>2. CASE Ends(c)
  BY <1>1, <1>2 DEF Ends, Goes, Filling, Known, Absent
<1>3. CASE ~Ends(c)
  <2>1. /\ at[c] = "attach" /\ todo[c] = {} /\ dead[c] = None
        /\ live[c][n] # None /\ at'[c] \in {"serve", "stop"}
        /\ name'[c] = n /\ pid'[c] = live[c][n]
        /\ UNCHANGED <<fresh, record>>
    BY <1>1, <1>3 DEF Attached, Scanned, Scanning, Found, Goes
  <2>2. ASSUME n \in fresh[c] PROVE record[n] = live[c][n]
    BY <1>0, <2>1, <2>2 DEF Walk
  <2> QED
    BY <2>1, <2>2 DEF Filling, Known, Absent
<1> QED
  BY <1>2, <1>3

LEMMA FillStep ==
  ASSUME IInv, NEW c \in Commands, Fill(c)
  PROVE  Filling(c)' /\ Known(c)' /\ Absent(c)'
<1>1. /\ at \in [Commands -> Places]
      /\ fresh \in [Commands -> SUBSET Names]
      /\ record \in [Names -> Pids \cup {None, Torn}]
      /\ Shape(c)
  BY DEF IInv, Typed, TypeOK
<1>2. name[c] \in Names
  BY <1>1 DEF Fill, Shape
<1>3. at'[c] \in {"quit", "serve"} /\ name'[c] = name[c] /\ pid'[c] = pid[c]
  BY <1>1 DEF Fill, Goes, session
<1>4. PICK r \in Filled(c) : Writes(c, name[c], r)
  BY DEF Fill
<1>5. fresh'[c] = fresh[c] /\ record'[name[c]] = r
  BY <1>1, <1>2, <1>4 DEF Writes
<1>6. name[c] \in fresh[c] => record'[name[c]] = pid[c]
  BY <1>4, <1>5 DEF Filled
<1> QED
  BY <1>3, <1>5, <1>6 DEF Filling, Known, Absent

\* The steps that leave the record alone, between the check and the save ...
LEMMA LaunchStep ==
  ASSUME IInv, NEW c \in Commands,
         \/ Answers(c) \/ DaemonUp(c) \/ LaunchFails(c)
         \/ \E p \in Pids : Spawn(c, p)
  PROVE  Filling(c)' /\ Known(c)' /\ Absent(c)'
<1>0. Typed /\ Absent(c)
  BY DEF IInv, CommandInv
<1>1. /\ at \in [Commands -> Places]
      /\ tries \in [Commands -> 0..Attempts]
      /\ Shape(c)
  BY <1>0 DEF Typed, TypeOK
<1>2. CASE Ends(c)
  BY <1>1, <1>2 DEF Ends, Goes, Filling, Known, Absent
<1>3. CASE ~Ends(c)
  <2>1. /\ at[c] \in {"spawn", "answer", "daemon"}
        /\ at'[c] \in {"spawn", "answer", "daemon", "save"}
        /\ at'[c] = "save" => DaemonUp(c)
        /\ UNCHANGED <<name, record, fresh>>
    BY <1>1, <1>3 DEF Answers, DaemonUp, LaunchFails, Spawn, Goes, session
  <2>2. DaemonUp(c) => tries[c] > 0 /\ UNCHANGED tries
    BY <1>1 DEF DaemonUp, Shape
  <2>3. tries[c] > 0 => tries[c] # 0
    BY <1>1
  <2>4. name[c] \in fresh[c] => record[name[c]] = None
    BY <1>0, <2>1 DEF Absent
  <2> QED
    BY <2>1, <2>2, <2>3, <2>4 DEF Filling, Known, Absent
<1> QED
  BY <1>2, <1>3

\* ... and those of a command that uses or stops the session it has.
LEMMA UseStep ==
  ASSUME IInv, NEW c \in Commands,
         SaveSession(c) \/ StopAlive(c) \/ Monitor(c) \/ AskQuit(c) \/ Terminate(c)
  PROVE  Filling(c)' /\ Known(c)' /\ Absent(c)'
<1>0. Typed /\ Known(c)
  BY DEF IInv, CommandInv
<1>1. at \in [Commands -> Places] /\ Shape(c) /\ tries \in [Commands -> 0..Attempts]
  BY <1>0 DEF Typed, TypeOK
<1>2. /\ at[c] \in {"serve", "stop", "ask", "quit", "wait"}
      /\ at'[c] \in {"save", "ask", "unlink", "quit", "wait"}
      /\ UNCHANGED <<name, pid, record, fresh, tries>>
  BY <1>1 DEF SaveSession, StopAlive, Monitor, AskQuit, Terminate, Goes, session
<1>3. tries[c] = 0 /\ ~(tries[c] > 0)
  BY <1>1, <1>2 DEF Shape
<1>4. name[c] \in fresh[c] => record[name[c]] = pid[c]
  BY <1>0, <1>2 DEF Known
<1> QED
  BY <1>2, <1>3, <1>4 DEF Filling, Known, Absent

LEMMA ReapStep ==
  ASSUME IInv, NEW c \in Commands, NEW n \in Names, Reap(c, n)
  PROVE  Filling(c)' /\ Known(c)' /\ Absent(c)'
<1>1. /\ at \in [Commands -> Places]
      /\ name \in [Commands -> Names \cup {None}]
      /\ pid \in [Commands -> Pids \cup {None}]
  BY DEF IInv, Typed, TypeOK
<1>2. /\ \/ at'[c] = "discard"
         \/ at'[c] = "stop" /\ pid'[c] = record[n]
      /\ name'[c] = n /\ UNCHANGED record
  BY <1>1 DEF Reap, Goes
<1> QED
  BY <1>2 DEF Filling, Known, Absent

LEMMA RecordStep ==
  ASSUME IInv, NEW c \in Commands, Step(c)
  PROVE  Filling(c)' /\ Known(c)' /\ Absent(c)'
<1>1. at \in [Commands -> Places] /\ Shape(c)
  BY DEF IInv, Typed, TypeOK
<1>2. ASSUME at'[c] \in {"idle", "attach", "launch", "check", "reap"}
      PROVE  Filling(c)' /\ Known(c)' /\ Absent(c)'
  BY <1>2 DEF Filling, Known, Absent
<1>3. CASE \/ Truncate(c) \/ Checked(c) \/ Fill(c)
           \/ \E n \in Names : Attached(c, n) \/ Reap(c, n)
           \/ Answers(c) \/ DaemonUp(c) \/ LaunchFails(c)
           \/ \E p \in Pids : Spawn(c, p)
           \/ SaveSession(c) \/ StopAlive(c) \/ Monitor(c) \/ AskQuit(c) \/ Terminate(c)
  BY <1>3, TruncateStep, CheckedStep, FillStep, AttachedStep, ReapStep, LaunchStep,
     UseStep
<1>4. CASE \/ \E o \in Operations, n \in Names \cup {None} : Begin(c, o, n)
           \/ \E n \in Names : Read(c, n)
           \/ Prune(c) \/ NotAttached(c) \/ Launch(c) \/ DaemonFails(c) \/ Return(c)
           \/ Unlink(c) \/ Discard(c) \/ Reaped(c) \/ Killed(c)
  <2>1. Ends(c) => at'[c] = "idle"
    BY <1>1 DEF Ends, Goes
  <2>2. (\E n \in Names : Read(c, n)) \/ Prune(c) => at'[c] \in {"attach", "check"}
    BY <1>1 DEF Read, Prune, Scanning, Shape
  <2>3. (\E o \in Operations, n \in Names \cup {None} : Begin(c, o, n))
          => at'[c] \in {"attach", "check", "reap"}
    BY <1>1 DEF Begin, Goes
  <2>4. NotAttached(c) \/ Launch(c) \/ Unlink(c) \/ Discard(c)
          => at'[c] \in {"idle", "launch", "check", "reap"}
    BY <1>1, <2>1 DEF NotAttached, Launch, Unlink, Discard, Goes
  <2>5. DaemonFails(c) \/ Return(c) \/ Reaped(c) \/ Killed(c) => at'[c] = "idle"
    BY <2>1 DEF DaemonFails, Return, Reaped, Killed
  <2> QED
    BY <1>2, <1>4, <2>2, <2>3, <2>4, <2>5
<1> QED
  BY <1>3, <1>4 DEF Step, CommandStep

-----------------------------------------------------------------------------
(* The steps of the world, and the theorems.                               *)

\* An emulator that exits is no one's any more, and a stranger never was.
LEMMA WorldSettles ==
  ASSUME Typed, WorldStep, NEW p \in Pids, holder'[p] \in Names
  PROVE  /\ holder[p] = holder'[p]
         /\ Settled(p)' => Settled(p)
         /\ Claims(p)' => Claims(p)
<1>1. holder \in [Pids -> Names \cup {None, Stranger}]
  BY DEF Typed, TypeOK
<1>2. /\ holder[p] = holder'[p]
      /\ (p \in doomed <=> p \in doomed')
      /\ (p \in abandoned <=> p \in abandoned')
  <2>1. ASSUME NEW q \in Pids, Exit(q) \/ Recycle(q) \/ StrangerExits(q)
        PROVE  holder[p] = holder'[p] /\ p # q
    BY <1>1, <2>1, MarksAssumption DEF Exit, Recycle, StrangerExits
  <2>2. PICK q \in Pids : Exit(q) \/ Recycle(q) \/ StrangerExits(q)
    BY DEF WorldStep
  <2> QED
    BY <2>1, <2>2 DEF Exit, Recycle, StrangerExits, history
<1>3. UNCHANGED <<at, name, pid, tries, fresh>>
  BY WorldKeeps
<1>4. \A c \in Commands : Launching(c)' <=> Launching(c)
  BY <1>3 DEF Launching
<1> QED
  BY <1>2, <1>3, <1>4 DEF Settled, Claims

LEMMA WorldInv == ASSUME IInv, WorldStep PROVE IInv'
<1>0. Typed /\ NoOrphan /\ OnePerName /\ \A c \in Commands : CommandInv(c)
  BY DEF IInv
<1>1. UNCHANGED <<record, at, op, name, pid, todo, live, bad, dead, tries,
                  fresh, raced, discarded>>
  BY WorldKeeps
<1>2. Typed'
  BY <1>0, TypedStep DEF WorldStep, Next
<1>3. NoOrphan'
  BY <1>0, <1>1, WorldSettles DEF NoOrphan
<1>4. OnePerName'
  BY <1>0, <1>1, WorldSettles DEF OnePerName
<1>5. ASSUME NEW c \in Commands PROVE CommandInv(c)'
  <2>1. /\ Absent(c) /\ Known(c) /\ Filling(c) /\ Pruning(c) /\ Unlinking(c)
        /\ Child(c) /\ Walk(c)
    BY <1>0 DEF CommandInv
  <2>2. Absent(c)' /\ Known(c)' /\ Walk(c)'
    BY <1>1, <2>1 DEF Absent, Known, Walk, Readable
  <2>3. Filling(c)'
    <3>1. fresh[c] \subseteq Names
      BY <1>0 DEF Typed, TypeOK
    <3> QED
      BY <1>0, <1>1, <2>1, <3>1, WorldSettles DEF Filling, Excused
  <2>4. Pruning(c)'
    <3>1. fresh[c] \subseteq Names
      BY <1>0 DEF Typed, TypeOK
    <3> QED
      BY <1>0, <1>1, <2>1, <3>1, WorldSettles DEF Pruning, Excused, Nobody
  <2>5. Unlinking(c)'
    <3>1. fresh[c] \subseteq Names
      BY <1>0 DEF Typed, TypeOK
    <3> QED
      BY <1>0, <1>1, <2>1, <3>1, WorldSettles DEF Unlinking, Excused, Nobody
  <2>6. Child(c)'
    <3> SUFFICES ASSUME Launching(c) PROVE holder'[pid[c]] \in {name[c], None}
      BY <1>1 DEF Child, Launching
    <3>1. holder[pid[c]] \in {name[c], None} /\ pid[c] \in Pids
      BY <1>0, <2>1 DEF Child, Typed, Shape, Launching
    <3>2. holder \in [Pids -> Names \cup {None, Stranger}]
      BY <1>0 DEF Typed, TypeOK
    <3>3. ASSUME NEW q \in Pids, Exit(q) \/ Recycle(q) \/ StrangerExits(q)
          PROVE  holder'[pid[c]] \in {holder[pid[c]], None}
      <4>1. Recycle(q) => q # pid[c]
        BY DEF Recycle, Unused
      <4> QED
        BY <3>1, <3>2, <3>3, <4>1 DEF Exit, Recycle, StrangerExits
    <3> QED
      BY <3>1, <3>3 DEF WorldStep
  <2> QED
    BY <2>2, <2>3, <2>4, <2>5, <2>6 DEF CommandInv
<1> QED
  BY <1>2, <1>3, <1>4, <1>5 DEF IInv

LEMMA CommandsInv == ASSUME IInv, NEW c \in Commands, Step(c) PROVE IInv'
<1>1. Typed /\ Child(c) /\ Walk(c)
  BY DEF IInv, CommandInv
<1>2. Typed'
  BY <1>1, StepTyped
<1>3. CommandInv(c)'
  BY <1>1, RecordStep, PruningStep, UnlinkingStep, ChildStep, WalkStep DEF CommandInv
<1>4. \A d \in Commands \ {c} : CommandInv(d)'
  BY OthersKeep
<1> QED
  BY <1>2, <1>3, <1>4, OrphanStep, OneStep DEF IInv

LEMMA InvInit == Init => IInv
<1> SUFFICES ASSUME Init PROVE IInv
  OBVIOUS
<1>1. Typed
  BY TypedInit
<1>2. \A p \in Pids : holder[p] = None
  BY DEF Init
<1>3. NoOrphan /\ OnePerName
  BY <1>2, MarksAssumption DEF NoOrphan, OnePerName
<1>4. ASSUME NEW c \in Commands PROVE CommandInv(c)
  <2>1. at[c] = "idle" /\ dead[c] = None
    BY DEF Init
  <2> QED
    BY <2>1 DEF CommandInv, Absent, Known, Filling, Pruning, Unlinking, Child,
                Walk, Launching
<1> QED
  BY <1>1, <1>3, <1>4 DEF IInv

LEMMA InvStep == IInv /\ [Next]_vars => IInv'
<1>1. ASSUME IInv, Next PROVE IInv'
  BY <1>1, CommandsInv, WorldInv DEF Next, Step, WorldStep
<1>2. ASSUME IInv, UNCHANGED vars PROVE IInv'
  BY <1>2 DEF vars, IInv, Typed, TypeOK, Shape, NoOrphan, OnePerName, CommandInv,
     Absent, Known, Filling, Pruning, Unlinking, Child, Walk, Excused, Nobody,
     Settled, Claims, Launching, Readable
<1> QED
  BY <1>1, <1>2

\* The inductive invariant holds for any number of commands.
THEOREM Invariance == Spec => []IInv
BY InvInit, InvStep, PTL DEF Spec

\* No emulator is lost (SessionRegistry.NoOrphan): whatever the commands
\* interleave, an emulator that launch returned is on record until it is
\* stopped, if nobody changed its record on a stale reading or discarded it.
THEOREM NothingLost == Spec => []NoOrphan
<1>1. IInv => NoOrphan
  BY DEF IInv
<1> QED
  BY <1>1, Invariance, PTL

\* A name has one emulator (SessionRegistry.OnePerName).
THEOREM Uniqueness == Spec => []OnePerName
<1>1. IInv => OnePerName
  BY DEF IInv
<1> QED
  BY <1>1, Invariance, PTL

\* What launch saw when it refused a duplicate holds until it saves
\* (SessionRegistry.LaunchOnAbsence), unless another command changed it.
THEOREM CheckedAbsence == Spec => []LaunchOnAbsence
<1>1. IInv => LaunchOnAbsence
  BY DEF IInv, CommandInv, Absent, LaunchOnAbsence
<1> QED
  BY <1>1, Invariance, PTL

\* A record that can be read is attached to (SessionRegistry.OneBadRecord-
\* CostsItself), whatever the others hold.
THEOREM BadRecordsAside == Spec => []OneBadRecordCostsItself
<1>1. IInv => OneBadRecordCostsItself
  <2> SUFFICES ASSUME IInv, NEW c \in Commands, at[c] = "attach", Scanned(c),
                      name[c] \in fresh[c], Readable(name[c])
               PROVE  Found(c, name[c])
    BY DEF OneBadRecordCostsItself
  <2>1. Walk(c) /\ name[c] \in Names
    BY DEF IInv, CommandInv, Typed, TypeOK
  <2>2. todo[c] = {} /\ dead[c] # name[c]
    BY <2>1, MarksAssumption DEF Scanned, Scanning
  <2>3. live[c][name[c]] = record[name[c]]
    BY <2>1, <2>2 DEF Walk
  <2> QED
    BY <2>3 DEF Found, Readable
<1> QED
  BY <1>1, Invariance, PTL

-----------------------------------------------------------------------------
(* stop_all clears what it walks over, one record at a time.               *)

Loop == {"reap", "discard", "stop", "ask", "save", "fill", "quit", "wait", "unlink"}

Clearing(c) ==
  /\ op[c] = "stop all" =>
       /\ at[c] \in Loop
       /\ \A n \in fresh[c] \ todo[c] : record[n] = None \/ n = name[c]
  /\ at[c] = "reap" /\ name[c] \in fresh[c] \ todo[c] => record[name[c]] = None

LEMMA ClearingStep ==
  ASSUME Typed, NEW c \in Commands, Step(c), Clearing(c)
  PROVE  Clearing(c)'
<1>0. /\ at \in [Commands -> Places]
      /\ op \in [Commands -> Operations]
      /\ name \in [Commands -> Names \cup {None}]
      /\ todo \in [Commands -> SUBSET Names]
      /\ fresh \in [Commands -> SUBSET Names]
      /\ record \in [Names -> Pids \cup {None, Torn}]
      /\ Shape(c)
  BY DEF Typed, TypeOK
<1>1. ASSUME Ends(c) PROVE Clearing(c)'
  BY <1>0, <1>1 DEF Ends, Goes, Clearing
<1>2. ASSUME op'[c] # "stop all", at'[c] # "reap" PROVE Clearing(c)'
  BY <1>2 DEF Clearing
<1>3. ASSUME NEW o \in Operations, NEW n \in Names \cup {None}, Begin(c, o, n)
      PROVE  Clearing(c)'
  <2>1. /\ op'[c] = o
        /\ fresh'[c] = {m \in Names : record[m] = None} /\ UNCHANGED record
        /\ o = "stop all" <=> at'[c] = "reap"
    BY <1>0, <1>3 DEF Begin, Goes, Lists
  <2> QED
    BY <2>1 DEF Clearing, Loop
<1>4. ASSUME NEW n \in Names, Reap(c, n) PROVE Clearing(c)'
  <2>1. /\ at[c] = "reap" /\ at'[c] \in {"stop", "discard"}
        /\ name'[c] = n /\ op'[c] = op[c] /\ UNCHANGED record
        /\ fresh'[c] = fresh[c] \cup {n} /\ todo'[c] = todo[c] \ {n}
    BY <1>0, <1>4 DEF Reap, Goes
  <2>2. ASSUME op[c] = "stop all", NEW m \in fresh'[c] \ todo'[c], m # n
        PROVE  record[m] = None
    <3>1. m \in fresh[c] \ todo[c]
      BY <1>0, <2>1, <2>2
    <3> QED
      BY <2>1, <2>2, <3>1 DEF Clearing
  <2> QED
    BY <2>1, <2>2 DEF Clearing, Loop
\* The steps that have one record in hand.
<1>5. ASSUME NEW r, Writes(c, name[c], r), UNCHANGED <<op, name, todo>>,
             at'[c] \in Loop, at'[c] = "reap" => r = None
      PROVE  Clearing(c)'
  <2>1. /\ fresh'[c] = fresh[c]
        /\ \A m \in Names : m # name[c] => record'[m] = record[m]
        /\ name[c] \in Names => record'[name[c]] = r
    BY <1>0, <1>5 DEF Writes
  <2>2. \A m \in fresh'[c] \ todo'[c] : m # name[c] => record'[m] = record[m]
    BY <1>0, <2>1
  <2>3. name[c] \in fresh'[c] => name[c] \in Names
    BY <1>0, <2>1
  <2> QED
    BY <1>5, <2>1, <2>2, <2>3 DEF Clearing
<1>6. ASSUME UNCHANGED <<op, name, todo, fresh, record>>, at'[c] \in Loop, at'[c] # "reap"
      PROVE  Clearing(c)'
  BY <1>6 DEF Clearing
<1>7. ASSUME Unlinks(c, name[c]), UNCHANGED <<op, name, todo>>, at'[c] = "reap"
      PROVE  Clearing(c)'
  <2>1. CASE record[name[c]] = None
    BY <1>7, <2>1 DEF Unlinks, Clearing, Loop
  <2>2. CASE record[name[c]] # None
    <3>1. Writes(c, name[c], None)
      BY <1>7, <2>2 DEF Unlinks
    <3> QED
      BY <1>5, <1>7, <3>1 DEF Loop
  <2> QED
    BY <2>1, <2>2
<1>8. CASE Discard(c)
  BY <1>0, <1>7, <1>8 DEF Discard, Goes, session, walk
<1>9. CASE Unlink(c)
  <2>1. CASE op[c] = "reboot"
    BY <1>0, <1>2, <1>9, <2>1 DEF Unlink, Goes
  <2>2. CASE op[c] # "reboot"
    BY <1>0, <1>7, <1>9, <2>2 DEF Unlink, Goes, walk
  <2> QED
    BY <2>1, <2>2
<1>10. CASE Truncate(c)
  <2>1. Writes(c, name[c], Torn) /\ UNCHANGED <<op, name, todo>> /\ at'[c] = "fill"
    BY <1>0, <1>10 DEF Truncate, Goes, session, walk
  <2> QED
    BY <1>5, <2>1 DEF Loop
<1>11. CASE Fill(c)
  <2>1. PICK r \in Filled(c) : Writes(c, name[c], r)
    BY <1>11 DEF Fill
  <2>2. /\ UNCHANGED <<op, name, todo>>
        /\ at'[c] = IF op[c] \in {"stop", "stop all", "reboot"} THEN "quit" ELSE "serve"
    BY <1>0, <1>11 DEF Fill, Goes, session, walk
  <2>3. CASE op[c] = "stop all"
    BY <1>5, <2>1, <2>2, <2>3 DEF Loop
  <2>4. CASE op[c] # "stop all"
    BY <1>2, <2>2, <2>4
  <2> QED
    BY <2>3, <2>4
<1>12. CASE StopAlive(c) \/ Monitor(c) \/ AskQuit(c) \/ Terminate(c)
  <2>1. /\ UNCHANGED <<op, name, todo, fresh, record>>
        /\ at'[c] \in {"ask", "unlink", "save", "quit", "wait"}
    BY <1>0, <1>12 DEF StopAlive, Monitor, AskQuit, Terminate, Goes, session, walk
  <2> QED
    BY <1>6, <2>1 DEF Loop
\* The places where stop_all never is.
<1>13. CASE \/ at[c] \in {"attach", "check", "launch", "spawn", "answer",
                          "daemon", "serve"}
            \/ Prune(c)
  <2>1. at[c] \in {"attach", "check", "launch", "spawn", "answer", "daemon", "serve"}
    BY <1>0, <1>13 DEF Prune, Shape
  <2>2. op[c] # "stop all"
    BY <2>1 DEF Clearing, Loop
  <2>3. CASE ~Ends(c)
    <3>1. /\ UNCHANGED op \/ Launch(c)
          /\ \A o \in Operations, n \in Names \cup {None} : ~Begin(c, o, n)
      BY <2>1, <2>3, Sources DEF Begin
    <3>2. op'[c] # "stop all"
      BY <1>0, <2>2, <3>1 DEF Launch
    <3>3. at'[c] # "reap"
      BY <1>0, <2>1, <2>3, <3>1
         DEF Step, CommandStep, Read, Attached, Reap, Prune, NotAttached, Launch,
             Checked, Spawn, Answers, LaunchFails, DaemonUp, DaemonFails, Truncate,
             Fill, SaveSession, Return, StopAlive, Monitor, AskQuit, Terminate,
             Unlink, Discard, Reaped, Killed, Goes
    <3> QED
      BY <1>2, <3>2, <3>3
  <2> QED
    BY <1>1, <2>3
<1>14. CASE LaunchFails(c) \/ DaemonFails(c) \/ Return(c) \/ Reaped(c) \/ Killed(c)
  BY <1>1, <1>13, <1>14 DEF LaunchFails, DaemonFails, Return, Reaped, Killed
<1> QED
  <2>1. \/ \E o \in Operations, n \in Names \cup {None} : Begin(c, o, n)
        \/ \E n \in Names : Reap(c, n)
        \/ Discard(c) \/ Unlink(c) \/ Truncate(c) \/ Fill(c)
        \/ StopAlive(c) \/ Monitor(c) \/ AskQuit(c) \/ Terminate(c)
        \/ Prune(c) \/ LaunchFails(c) \/ DaemonFails(c) \/ Return(c) \/ Reaped(c)
        \/ Killed(c)
        \/ at[c] \in {"attach", "check", "launch", "spawn", "answer", "daemon", "serve"}
    BY DEF Step, CommandStep, Read, Attached, NotAttached, Launch, Checked, Spawn,
           Answers, DaemonUp, SaveSession, Scanned, Scanning
  <2> QED
    BY <1>3, <1>4, <1>8, <1>9, <1>10, <1>11, <1>12, <1>13, <1>14, <2>1

\* What stop --all has been through is gone (SessionRegistry.StopAllClears),
\* read or unreadable, unless another command wrote the record again.
THEOREM NothingLeft == Spec => []StopAllClears
<1> DEFINE Inv == Typed /\ \A c \in Commands : Clearing(c)
<1>1. Init => Inv
  <2> SUFFICES ASSUME Init, NEW c \in Commands PROVE Clearing(c)
    BY TypedInit
  <2> QED
    BY DEF Init, Clearing
<1>2. Inv /\ [Next]_vars => Inv'
  <2>1. ASSUME Inv, NEW c \in Commands, Step(c) PROVE Inv'
    <3>1. Typed' /\ Clearing(c)'
      BY <2>1, StepTyped, ClearingStep
    <3>2. ASSUME NEW d \in Commands, d # c PROVE Clearing(d)'
      <4>1. /\ at'[d] = at[d] /\ op'[d] = op[d] /\ name'[d] = name[d]
            /\ todo'[d] = todo[d] /\ fresh'[d] \subseteq fresh[d]
        BY <2>1, <3>2, Others
      <4>2. \A n \in fresh'[d] : record'[n] = record[n]
        <5>1. fresh'[d] \subseteq Names
          BY <2>1, <4>1 DEF Typed, TypeOK
        <5> QED
          BY <2>1, <3>2, <5>1, Remembers
      <4>3. Clearing(d)
        BY <2>1
      <4> QED
        BY <4>1, <4>2, <4>3 DEF Clearing
    <3> QED
      BY <3>1, <3>2
  <2>2. ASSUME Inv, WorldStep PROVE Inv'
    <3>1. Typed'
      BY <2>2, TypedStep DEF WorldStep, Next
    <3> QED
      BY <2>2, <3>1, WorldKeeps DEF Clearing
  <2>3. ASSUME Inv, UNCHANGED vars PROVE Inv'
    <3>1. Typed'
      BY <2>3, TypedStep
    <3> QED
      BY <2>3, <3>1 DEF Clearing, vars
  <2> QED
    BY <2>1, <2>2, <2>3 DEF Next, Step, WorldStep
<1>3. Inv => StopAllClears
  BY DEF Clearing, StopAllClears
<1> QED
  BY <1>1, <1>2, <1>3, PTL DEF Spec
=============================================================================
