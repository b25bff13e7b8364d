------------------------- MODULE DaemonRespawnProofs -------------------------
(***************************************************************************)
(* Theorems about DaemonRespawn, for any number of commands, of daemon     *)
(* processes and any RESPAWN_LIMIT above one.                              *)
(***************************************************************************)
EXTENDS DaemonRespawn, TLAPS

\* Every action keeps every variable in its type.
LEMMA TypeDaemon ==
  ASSUME TypeOK, NEW d \in Daemons, DaemonStep(d) \/ Crash(d)
  PROVE  TypeOK'
<1>1. CASE \E c \in Commands : Accept(d, c)
  BY <1>1 DEF TypeOK, Accept, commandVars, breakerVars, CommandPlaces
<1>2. CASE ~\E c \in Commands : Accept(d, c)
  <2>1. CASE Connect(d) \/ GiveUp(d) \/ RemoveStale(d) \/ Bind(d)
    BY <2>1, NoneAssumption DEF TypeOK, Connect, GiveUp, RemoveStale, Bind, Moves,
       DaemonPlaces, commandVars, breakerVars
  <2>2. CASE Finishes(d) \/ LeaveUnlink(d) \/ Close(d) \/ Crash(d)
    BY <2>2 DEF TypeOK, Finishes, LeaveUnlink, Close, Crash, Moves,
       DaemonPlaces, commandVars, breakerVars
  <2> QED BY <1>2, <2>1, <2>2 DEF DaemonStep
<1> QED BY <1>1, <1>2

\* A command's end keeps the types of its own variables.
LEMMA TypeEnds ==
  ASSUME TypeOK, NEW c \in Commands, Ends(c)
  PROVE  /\ pc' \in [Commands -> CommandPlaces]
         /\ task' \in [Commands -> {"launch", "use", "stop"}]
         /\ peer' \in [Commands -> Daemons \cup {None}]
         /\ child' \in [Commands -> Daemons \cup {None}]
BY DEF TypeOK, Ends, Goes, CommandPlaces

LEMMA TypeFindsNone ==
  ASSUME TypeOK, NEW c \in Commands, FindsNone(c)
  PROVE  /\ pc' \in [Commands -> CommandPlaces]
         /\ task' \in [Commands -> {"launch", "use", "stop"}]
         /\ peer' \in [Commands -> Daemons \cup {None}]
         /\ child' \in [Commands -> Daemons \cup {None}]
<1>1. CASE child[c] = None
  BY <1>1 DEF TypeOK, FindsNone, Goes, CommandPlaces
<1>2. CASE child[c] /= None
  BY <1>2, TypeEnds DEF FindsNone
<1> QED BY <1>1, <1>2

LEMMA TypeCommand ==
  ASSUME TypeOK, NEW c \in Commands, CommandStep(c)
  PROVE  TypeOK'
<1>1. CASE Dial(c)
  <2>1. CASE path /= None /\ daemon[path] \in Listening
    BY <1>1, <2>1 DEF Dial, TypeOK, Goes, CommandPlaces, processVars, breakerVars
  <2>2. CASE ~(path /= None /\ daemon[path] \in Listening)
    <3>1. FindsNone(c) BY <1>1, <2>2 DEF Dial
    <3> QED BY <1>1, <3>1, TypeFindsNone DEF Dial, TypeOK, processVars, breakerVars
  <2> QED BY <2>1, <2>2
<1>2. CASE HelloTimeout(c)
  BY <1>2, TypeFindsNone DEF HelloTimeout, TypeOK, processVars, breakerVars
<1>3. CASE ReadStamps(c)
  BY <1>3, LimitAssumption
  DEF ReadStamps, TypeOK, Goes, CommandPlaces, Newest, Stamps, processVars
<1>4. CASE Respawn(c)
  <2>1. CASE Trips(seen[c])
    <3>1. Ends(c) /\ UNCHANGED <<daemon, respawned>> BY <1>4, <2>1 DEF Respawn
    <3> QED BY <1>4, <3>1, TypeEnds, LimitAssumption DEF Respawn, TypeOK, Stamps
  <2>2. CASE ~Trips(seen[c])
    BY <1>4, <2>2, LimitAssumption
    DEF Respawn, TypeOK, Goes, CommandPlaces, DaemonPlaces, Stamps
  <2> QED BY <2>1, <2>2
<1>5. CASE PingAnswered(c)
  <2>1. CASE task[c] = "launch"
    <3>1. Ends(c) /\ stamps' = 0 BY <1>5, <2>1 DEF PingAnswered
    <3> QED BY <1>5, <3>1, TypeEnds, LimitAssumption DEF PingAnswered, TypeOK, Stamps
  <2>2. CASE task[c] /= "launch"
    BY <1>5, <2>2 DEF PingAnswered, TypeOK, Goes, CommandPlaces
  <2> QED BY <2>1, <2>2
<1>6. CASE SpawnFails(c)
  BY <1>6, TypeEnds DEF SpawnFails, TypeOK, Moves, DaemonPlaces, breakerVars
<1>7. CASE Leave(c)
  BY <1>7, TypeEnds DEF Leave, TypeOK, Released, breakerVars
<1>8. CASE Quit(c)
  BY <1>8, TypeEnds DEF Quit, TypeOK, Moves, DaemonPlaces, breakerVars
<1>9. CASE Signal(c)
  <2>1. daemon' \in [Daemons -> DaemonPlaces] /\ client' \in [Daemons -> Commands \cup {None}]
    BY <1>9 DEF Signal, TypeOK, Moves, DaemonPlaces
  <2>2. vice' \in {"up", "ending", "gone"} /\ pc' \in [Commands -> CommandPlaces]
    BY <1>9 DEF Signal, TypeOK, Goes, CommandPlaces
  <2> QED BY <1>9, <2>1, <2>2 DEF Signal, TypeOK, breakerVars
<1>10. CASE Clear(c)
  <2>1. stamps' \in Stamps /\ respawned' \in 0..Limit
    BY <1>10, LimitAssumption DEF Clear, Stamps
  <2>2. pc' \in [Commands -> CommandPlaces] /\ task' \in [Commands -> {"launch", "use", "stop"}]
    BY <1>10 DEF Clear, TypeOK, Goes, CommandPlaces
  <2> QED BY <1>10, <2>1, <2>2 DEF Clear, TypeOK
<1> QED BY <1>1, <1>2, <1>3, <1>4, <1>5, <1>6, <1>7, <1>8, <1>9, <1>10 DEF CommandStep

LEMMA TypeNext == TypeOK /\ [Next]_vars => TypeOK'
<1> SUFFICES ASSUME TypeOK, [Next]_vars PROVE TypeOK'
  OBVIOUS
<1>1. CASE \E d \in Daemons : DaemonStep(d) \/ Crash(d)
  BY <1>1, TypeDaemon
<1>2. CASE \E c \in Commands : CommandStep(c)
  BY <1>2, TypeCommand
<1>3. ASSUME NEW c \in Commands, NEW t \in {"use", "stop"}, Begin(c, t)
      PROVE  TypeOK'
  BY <1>3 DEF Begin, TypeOK, Goes, CommandPlaces, processVars, breakerVars
<1>4. CASE NoticeClosed \/ ViceEnds
  BY <1>4 DEF NoticeClosed, ViceEnds, TypeOK, commandVars, breakerVars
<1>5. CASE WindowPasses
  <2>1. stamps' \in Stamps /\ respawned' \in 0..Limit
    BY <1>5, LimitAssumption DEF WindowPasses, Stamps
  <2> QED BY <1>5, <2>1 DEF WindowPasses, TypeOK, processVars, commandVars
<1>6. CASE UNCHANGED vars
  BY <1>6 DEF vars, TypeOK, processVars, commandVars, breakerVars
<1> QED BY <1>1, <1>2, <1>3, <1>4, <1>5, <1>6 DEF Next

LEMMA TypeInit == Init => TypeOK
<1> SUFFICES ASSUME Init PROVE TypeOK
  OBVIOUS
<1>1. daemon \in [Daemons -> DaemonPlaces] /\ client \in [Daemons -> Commands \cup {None}]
  BY DEF Init, DaemonPlaces
<1>2. /\ pc \in [Commands -> CommandPlaces]
      /\ task \in [Commands -> {"launch", "use", "stop"}]
      /\ peer \in [Commands -> Daemons \cup {None}]
      /\ child \in [Commands -> Daemons \cup {None}]
  BY DEF Init, CommandPlaces
<1>3. stamps \in Stamps /\ seen \in [Commands -> Stamps] /\ respawned \in 0..Limit
  BY LimitAssumption DEF Init, Stamps
<1> QED BY <1>1, <1>2, <1>3 DEF Init, TypeOK

\* The state of every process is one that the program can name.
THEOREM TypeCorrect == Spec => []TypeOK
<1>1. Init => TypeOK
  BY TypeInit
<1>2. TypeOK /\ [Next]_vars => TypeOK'
  BY TypeNext
<1> QED BY <1>1, <1>2, PTL DEF Spec

-----------------------------------------------------------------------------
(* One server, and the socket file that leads to it.                       *)

\* A stop removes the files only after it has told the emulator to go.
LateClearing == \A c \in Commands : pc[c] = "clearing" => vice /= "up"

\* Only a daemon that serves has a client.
ServersServe == \A d \in Daemons : client[d] /= None => daemon[d] = "serving"

SocketInv ==
  /\ TypeOK
  /\ ServersServe
  /\ ServersHoldTheSlot
  /\ ServerKeepsItsSocket
  /\ LateClearing

\* What a step of a daemon does to the places of the daemons.
LEMMA SocketDaemon ==
  ASSUME SocketInv, NEW d \in Daemons, DaemonStep(d) \/ Crash(d)
  PROVE  ServersServe' /\ ServersHoldTheSlot' /\ ServerKeepsItsSocket' /\ LateClearing'
<1> USE NoneAssumption DEF SocketInv, ServersServe, ServersHoldTheSlot, ServerKeepsItsSocket, LateClearing, TypeOK
<1>1. CASE \E c \in Commands : Accept(d, c)
  BY <1>1 DEF Accept, commandVars, breakerVars
<1>2. CASE Connect(d) \/ GiveUp(d) \/ RemoveStale(d) \/ Bind(d)
  BY <1>2, NoneAssumption DEF Connect, GiveUp, RemoveStale, Bind, Moves, Connected, commandVars
<1>3. CASE Finishes(d) \/ LeaveUnlink(d) \/ Close(d) \/ Crash(d)
  BY <1>3, NoneAssumption DEF Finishes, LeaveUnlink, Close, Crash, Moves, Connected, commandVars
<1> QED BY <1>1, <1>2, <1>3 DEF DaemonStep

\* A command changes the place of a daemon only by ending it, by spawning one,
\* and takes the socket file away only in the end of a stop.
LEMMA SocketCommand ==
  ASSUME SocketInv, NEW c \in Commands, CommandStep(c)
  PROVE  ServersServe' /\ ServersHoldTheSlot' /\ ServerKeepsItsSocket' /\ LateClearing'
<1> USE NoneAssumption DEF SocketInv, ServersServe, ServersHoldTheSlot, ServerKeepsItsSocket, LateClearing, TypeOK
<1>1. CASE Dial(c)
  BY <1>1 DEF Dial, FindsNone, Ends, Goes, processVars
<1>2. CASE HelloTimeout(c)
  BY <1>2 DEF HelloTimeout, FindsNone, Ends, Goes, processVars
<1>3. CASE ReadStamps(c)
  BY <1>3 DEF ReadStamps, Goes, processVars
<1>4. CASE Respawn(c)
  BY <1>4 DEF Respawn, Ends, Goes, Connected
<1>5. CASE PingAnswered(c)
  BY <1>5 DEF PingAnswered, Ends, Goes
<1>6. CASE SpawnFails(c)
  BY <1>6 DEF SpawnFails, Ends, Goes, Moves, Connected
<1>7. CASE Leave(c)
  BY <1>7 DEF Leave, Ends, Goes, Released
<1>8. CASE Quit(c)
  <2>1. vice' /= "up"
    BY <1>8 DEF Quit
  <2>2. ServersHoldTheSlot'
    <3>1. \A d \in Daemons : daemon'[d] \in Connected => daemon[d] \in Connected
      <4>1. CASE peer[c] \in Daemons
        <5>1. client[peer[c]] = c BY <1>8 DEF Quit
        <5>2. daemon[peer[c]] = "serving" BY <5>1, <4>1
        <5> QED BY <1>8, <5>2 DEF Quit, Moves, Connected
      <4>2. CASE peer[c] \notin Daemons
        BY <1>8, <4>2 DEF Quit, Moves
      <4> QED BY <4>1, <4>2
    <3> QED BY <1>8, <3>1 DEF Quit
  <2>3. ServersServe'
    BY <1>8 DEF Quit, Moves
  <2> QED BY <2>1, <2>2, <2>3
<1>9. CASE Signal(c)
  <2>1. vice' /= "up"
    BY <1>9 DEF Signal
  <2>2. ServersHoldTheSlot'
    BY <1>9 DEF Signal, Moves, Connected
  <2>3. ServersServe'
    BY <1>9 DEF Signal, Moves
  <2> QED BY <2>1, <2>2, <2>3
<1>10. CASE Clear(c)
  BY <1>10 DEF Clear, Goes
<1> QED BY <1>1, <1>2, <1>3, <1>4, <1>5, <1>6, <1>7, <1>8, <1>9, <1>10 DEF CommandStep

LEMMA SocketNext == SocketInv /\ [Next]_vars => SocketInv'
<1> SUFFICES ASSUME SocketInv, [Next]_vars PROVE SocketInv'
  OBVIOUS
<1>0. TypeOK' BY TypeNext DEF SocketInv
<1>1. CASE \E d \in Daemons : DaemonStep(d) \/ Crash(d)
  BY <1>0, <1>1, SocketDaemon DEF SocketInv
<1>2. CASE \E c \in Commands : CommandStep(c)
  BY <1>0, <1>2, SocketCommand DEF SocketInv
<1>3. ASSUME NEW c \in Commands, NEW t \in {"use", "stop"}, Begin(c, t)
      PROVE  SocketInv'
  BY <1>0, <1>3 DEF Begin, Goes, processVars, SocketInv, TypeOK, ServersServe, ServersHoldTheSlot,
     ServerKeepsItsSocket, LateClearing
<1>4. CASE NoticeClosed \/ ViceEnds \/ WindowPasses
  BY <1>0, <1>4 DEF NoticeClosed, ViceEnds, WindowPasses, processVars, commandVars,
     SocketInv, TypeOK, ServersServe, ServersHoldTheSlot, ServerKeepsItsSocket, LateClearing, Connected
<1>5. CASE UNCHANGED vars
  BY <1>0, <1>5 DEF vars, processVars, commandVars, SocketInv, ServersServe, ServersHoldTheSlot,
     ServerKeepsItsSocket, LateClearing
<1> QED BY <1>1, <1>2, <1>3, <1>4, <1>5 DEF Next

LEMMA SocketAlways == Spec => []SocketInv
<1>1. Init => SocketInv
  <2> SUFFICES ASSUME Init PROVE SocketInv
    OBVIOUS
  <2>1. TypeOK
    BY TypeInit
  <2>2. ServersServe /\ ServersHoldTheSlot /\ ServerKeepsItsSocket /\ LateClearing
    BY DEF Init, ServersServe, ServersHoldTheSlot, ServerKeepsItsSocket, LateClearing, Connected
  <2> QED BY <2>1, <2>2 DEF SocketInv
<1>2. SocketInv /\ [Next]_vars => SocketInv'
  BY SocketNext
<1> QED BY <1>1, <1>2, PTL DEF Spec

\* However many daemons are spawned and killed, one is on VICE's line.
THEOREM OneServer == Spec => []ServersHoldTheSlot
<1>1. SocketInv => ServersHoldTheSlot BY DEF SocketInv
<1> QED BY <1>1, SocketAlways, PTL

\* A healthy daemon can always be found.
THEOREM SocketKept == Spec => []ServerKeepsItsSocket
<1>1. SocketInv => ServerKeepsItsSocket BY DEF SocketInv
<1> QED BY <1>1, SocketAlways, PTL

-----------------------------------------------------------------------------
(* The breaker.                                                            *)

\* Nobody else works on a session while it is launched.
LaunchAlone ==
  \A c \in Commands : task[c] = "launch" =>
    /\ ~record /\ respawned = 0 /\ pc[c] \in {"spawning", "idle"}
    /\ \A k \in Commands \ {c} : pc[k] = "idle" /\ task[k] = "use"

\* Unless two updates have overlapped, at most one is under way and the file,
\* or the stamps that are about to be written to it, has every respawn.
StampsCount ==
  ~raced =>
    /\ respawned <= stamps
    /\ respawned < Limit
    /\ \A c \in Commands : Updating(c) =>
         /\ respawned < seen[c]
         /\ \A k \in Commands \ {c} : ~Updating(k)

BreakerInv ==
  /\ TypeOK
  /\ LaunchAlone
  /\ StampsCount

LEMMA BreakerDaemon ==
  ASSUME BreakerInv, NEW d \in Daemons, DaemonStep(d) \/ Crash(d)
  PROVE  LaunchAlone' /\ StampsCount'
<1> USE DEF BreakerInv, LaunchAlone, StampsCount, Updating
<1>1. CASE \E c \in Commands : Accept(d, c)
  BY <1>1 DEF Accept, breakerVars, TypeOK
<1>2. CASE Connect(d) \/ GiveUp(d) \/ RemoveStale(d) \/ Bind(d)
  BY <1>2 DEF Connect, GiveUp, RemoveStale, Bind, commandVars, breakerVars
<1>3. CASE Finishes(d) \/ LeaveUnlink(d) \/ Close(d) \/ Crash(d)
  BY <1>3 DEF Finishes, LeaveUnlink, Close, Crash, commandVars, breakerVars
<1> QED BY <1>1, <1>2, <1>3 DEF DaemonStep

\* A command that moves elsewhere than to its breaker update and changes none
\* of the counts leaves the claim as it is.
LEMMA StampsStay ==
  ASSUME TypeOK, StampsCount, NEW c \in Commands, NEW p, p /= "counting", Goes(c, p),
         UNCHANGED breakerVars
  PROVE  StampsCount'
BY DEF TypeOK, StampsCount, Updating, Goes, breakerVars

LEMMA BreakerCommand ==
  ASSUME BreakerInv, NEW c \in Commands, CommandStep(c)
  PROVE  LaunchAlone' /\ StampsCount'
<1> USE DEF BreakerInv
<1>0. pc[c] /= "spawning" /\ pc[c] /= "idle" => \A k \in Commands : task[k] /= "launch"
  BY DEF LaunchAlone
<1>1. CASE Dial(c)
  <2>1. \A k \in Commands : task'[k] /= "launch"
    BY <1>0, <1>1 DEF Dial, FindsNone, Ends, TypeOK
  <2>2. \E p \in CommandPlaces \ {"counting"} : Goes(c, p)
    BY <1>1 DEF Dial, FindsNone, Ends, CommandPlaces
  <2>3. StampsCount' BY <1>1, <2>2, StampsStay DEF Dial
  <2> QED BY <2>1, <2>3 DEF LaunchAlone
<1>2. CASE HelloTimeout(c)
  <2>1. \A k \in Commands : task'[k] /= "launch"
    BY <1>0, <1>2 DEF HelloTimeout, FindsNone, Ends, TypeOK
  <2>2. \E p \in CommandPlaces \ {"counting"} : Goes(c, p)
    BY <1>2 DEF HelloTimeout, FindsNone, Ends, CommandPlaces
  <2>3. StampsCount' BY <1>2, <2>2, StampsStay DEF HelloTimeout
  <2> QED BY <2>1, <2>3 DEF LaunchAlone
<1>3. CASE ReadStamps(c)
  <2>1. \A k \in Commands : task'[k] /= "launch"
    BY <1>0, <1>3 DEF ReadStamps
  <2>2. ASSUME ~raced' PROVE ~raced /\ \A k \in Commands : ~Updating(k)
    BY <1>3, <2>2 DEF ReadStamps, TypeOK
  <2>3. StampsCount'
    <3> SUFFICES ASSUME ~raced' PROVE StampsCount'
      BY DEF StampsCount
    <3>1. \A k \in Commands : Updating(k)' => k = c
      BY <1>3, <2>2 DEF ReadStamps, Goes, Updating, TypeOK
    <3>2. respawned <= stamps /\ respawned < Limit
      BY <2>2 DEF StampsCount
    <3>3. seen'[c] = Newest(stamps + 1) /\ stamps' = stamps /\ respawned' = respawned
      BY <1>3 DEF ReadStamps, TypeOK
    <3>4. respawned < seen'[c]
      BY <3>2, <3>3, LimitAssumption DEF Newest, TypeOK, Stamps
    <3> QED BY <3>1, <3>2, <3>3, <3>4 DEF StampsCount
  <2> QED BY <2>1, <2>3 DEF LaunchAlone
<1>4. CASE Respawn(c)
  <2>1. \A k \in Commands : task'[k] /= "launch"
    BY <1>0, <1>4 DEF Respawn, Ends, TypeOK
  <2>2. CASE Trips(seen[c])
    <3>1. Ends(c) /\ respawned' = respawned /\ raced' = raced BY <1>4, <2>2 DEF Respawn
    <3>2. \A k \in Commands : Updating(k)' => Updating(k) /\ k /= c
      BY <3>1 DEF Ends, Goes, Updating, TypeOK
    <3> QED BY <1>4, <2>1, <3>1, <3>2, LimitAssumption
        DEF Respawn, LaunchAlone, StampsCount, Updating, TypeOK, Stamps
  <2>3. CASE ~Trips(seen[c])
    <3>1. /\ Goes(c, "spawning") /\ raced' = raced
          /\ respawned' = IF respawned < Limit THEN respawned + 1 ELSE Limit
      BY <1>4, <2>3 DEF Respawn
    <3>2. \A k \in Commands : Updating(k)' => Updating(k) /\ k /= c
      BY <3>1 DEF Goes, Updating, TypeOK
    <3>3. seen[c] \in 0..Limit /\ seen[c] /= Limit /\ stamps' = seen[c] /\ Updating(c)
      BY <1>4, <2>3 DEF Respawn, Trips, TypeOK, Stamps, Updating
    <3> QED BY <2>1, <3>1, <3>2, <3>3, LimitAssumption
        DEF LaunchAlone, StampsCount, TypeOK, Stamps
  <2> QED BY <2>2, <2>3
<1>5. CASE PingAnswered(c)
  <2>1. CASE task[c] = "launch"
    <3>1. Ends(c) /\ stamps' = 0 BY <1>5, <2>1 DEF PingAnswered
    <3>2. \A k \in Commands : task'[k] /= "launch" /\ pc'[k] = "idle"
      BY <2>1, <3>1 DEF LaunchAlone, Ends, Goes, TypeOK
    <3>3. respawned' = 0 BY <1>5, <2>1 DEF PingAnswered, LaunchAlone
    <3> QED BY <3>1, <3>2, <3>3, LimitAssumption DEF LaunchAlone, StampsCount, Updating
  <2>2. CASE task[c] /= "launch"
    <3>1. \A k \in Commands : task'[k] /= "launch"
      BY <1>5, <2>2 DEF PingAnswered, LaunchAlone
    <3>2. Goes(c, "dialling") /\ UNCHANGED breakerVars
      BY <1>5, <2>2 DEF PingAnswered, breakerVars
    <3> QED BY <3>1, <3>2, StampsStay DEF LaunchAlone
  <2> QED BY <2>1, <2>2
<1>6. CASE SpawnFails(c)
  <2>1. \A k \in Commands : task'[k] /= "launch"
    BY <1>6 DEF SpawnFails, Ends, LaunchAlone, TypeOK
  <2>2. \E p \in CommandPlaces \ {"counting"} : Goes(c, p)
    BY <1>6 DEF SpawnFails, Ends, CommandPlaces
  <2>3. StampsCount' BY <1>6, <2>2, StampsStay DEF SpawnFails
  <2> QED BY <2>1, <2>3 DEF LaunchAlone
<1>7. CASE Leave(c)
  <2>1. \A k \in Commands : task'[k] /= "launch"
    BY <1>0, <1>7 DEF Leave, Ends, TypeOK
  <2>2. \E p \in CommandPlaces \ {"counting"} : Goes(c, p)
    BY <1>7 DEF Leave, Ends, CommandPlaces
  <2>3. StampsCount' BY <1>7, <2>2, StampsStay DEF Leave
  <2> QED BY <2>1, <2>3 DEF LaunchAlone
<1>8. CASE Quit(c)
  <2>1. \A k \in Commands : task'[k] /= "launch"
    BY <1>0, <1>8 DEF Quit, Ends, TypeOK
  <2>2. \E p \in CommandPlaces \ {"counting"} : Goes(c, p)
    BY <1>8 DEF Quit, Ends, CommandPlaces
  <2>3. StampsCount' BY <1>8, <2>2, StampsStay DEF Quit
  <2> QED BY <2>1, <2>3 DEF LaunchAlone
<1>9. CASE Signal(c)
  <2>1. \A k \in Commands : task'[k] /= "launch"
    BY <1>0, <1>9 DEF Signal
  <2>2. StampsCount' BY <1>9, StampsStay DEF Signal
  <2> QED BY <2>1, <2>2 DEF LaunchAlone
<1>10. CASE Clear(c)
  <2>1. \A k \in Commands : task'[k] /= "launch"
    BY <1>0, <1>10 DEF Clear, TypeOK
  <2>2. StampsCount'
    BY <1>10, LimitAssumption DEF Clear, StampsCount, Updating, Goes, TypeOK, Stamps
  <2> QED BY <2>1, <2>2 DEF LaunchAlone
<1> QED BY <1>1, <1>2, <1>3, <1>4, <1>5, <1>6, <1>7, <1>8, <1>9, <1>10 DEF CommandStep

LEMMA BreakerNext == BreakerInv /\ [Next]_vars => BreakerInv'
<1> SUFFICES ASSUME BreakerInv, [Next]_vars PROVE BreakerInv'
  OBVIOUS
<1>0. TypeOK' BY TypeNext DEF BreakerInv
<1>1. CASE \E d \in Daemons : DaemonStep(d) \/ Crash(d)
  BY <1>0, <1>1, BreakerDaemon DEF BreakerInv
<1>2. CASE \E c \in Commands : CommandStep(c)
  BY <1>0, <1>2, BreakerCommand DEF BreakerInv
<1>3. ASSUME NEW c \in Commands, NEW t \in {"use", "stop"}, Begin(c, t)
      PROVE  BreakerInv'
  <2>1. \A k \in Commands : task'[k] /= "launch"
    BY <1>3 DEF Begin, BreakerInv, LaunchAlone, TypeOK
  <2>2. \E p \in CommandPlaces \ {"counting"} : Goes(c, p)
    BY <1>3 DEF Begin, CommandPlaces
  <2>3. StampsCount' BY <1>3, <2>2, StampsStay DEF Begin, BreakerInv
  <2> QED BY <1>0, <2>1, <2>3 DEF BreakerInv, LaunchAlone
<1>4. CASE NoticeClosed \/ ViceEnds
  BY <1>0, <1>4 DEF NoticeClosed, ViceEnds, commandVars, breakerVars,
     BreakerInv, LaunchAlone, StampsCount, Updating
<1>5. CASE WindowPasses
  BY <1>0, <1>5, LimitAssumption DEF WindowPasses, processVars, commandVars,
     BreakerInv, LaunchAlone, StampsCount, Updating
<1>6. CASE UNCHANGED vars
  BY <1>0, <1>6 DEF vars, processVars, commandVars, breakerVars, BreakerInv, LaunchAlone,
     StampsCount, Updating
<1> QED BY <1>1, <1>2, <1>3, <1>4, <1>5, <1>6 DEF Next

\* Commands that do not overlap in the update of the stamps never respawn
\* RESPAWN_LIMIT daemons within the window.
THEOREM BreakerHolds == Spec => []BreakerTrips
<1>1. Init => BreakerInv
  <2> SUFFICES ASSUME Init PROVE BreakerInv
    OBVIOUS
  <2>1. LaunchAlone BY DEF Init, LaunchAlone
  <2>2. StampsCount BY LimitAssumption DEF Init, StampsCount, Updating
  <2> QED BY TypeInit, <2>1, <2>2 DEF BreakerInv
<1>2. BreakerInv /\ [Next]_vars => BreakerInv'
  BY BreakerNext
<1>3. BreakerInv => BreakerTrips
  BY DEF BreakerInv, StampsCount, BreakerTrips
<1> QED BY <1>1, <1>2, <1>3, PTL DEF Spec
=============================================================================
