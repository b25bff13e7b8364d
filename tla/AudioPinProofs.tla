----------------------------- MODULE AudioPinProofs -----------------------------
(***************************************************************************)
(* Proofs about AudioPin, for any set of speeds and any number of sessions. *)
(* What the commands put on a session is its own for any number of failed   *)
(* exchanges; that it is always undone needs at most one per command.       *)
(***************************************************************************)
EXTENDS AudioPin, TLAPS

-----------------------------------------------------------------------------
(* What each variable can become, and the types that follow.               *)

LEMMA Changes ==
  ASSUME Next
  PROVE  /\ UNCHANGED session \/ Relaunch
         /\ pin' \in {pin, None, HeldPin} \/ WritePin
         /\ \/ saved' \in {saved, None, HeldPin, pin'}
            \/ saved' = [warp |-> warp, speed |-> speed]
         /\ Fails \/ failures' \in {failures, 0}
         /\ doing' \in Commands \cup {doing}
         /\ sink' \in {sink, TRUE, FALSE}
         /\ restoreFailed' \in {restoreFailed, TRUE, FALSE}
         /\ disarmFailed' \in {disarmFailed, TRUE, FALSE}
         /\ recorder' \in {recorder, "off", "wav", "sink"}
         /\ wav' \in {wav, "open", "closing", "final"}
         /\ at' \in Places \cup {at}
         /\ outcome' \in {outcome, "ok", "complete", "failed"}
<1> USE DEF Next, Finalize, Relaunch, Killed, Start, ReadSettings, PinSpeed,
            PinWarp, UndoSpeed, UndoWarp, WritePin, Arm, Forget, RollbackSpeed,
            RollbackWarp, Logged, Stop, Sink, RestoreSpeed, RestoreWarp,
            ClearPin, Disarm, Confirm
<1>1. UNCHANGED session \/ Relaunch
  BY DEF session
<1>2. pin' \in {pin, None, HeldPin} \/ WritePin
  OBVIOUS
<1>3. \/ saved' \in {saved, None, HeldPin, pin'}
      \/ saved' = [warp |-> warp, speed |-> speed]
  BY DEF locals
<1>4. Fails \/ failures' \in {failures, 0}
  BY DEF Succeeds
<1>5. doing' \in Commands \cup {doing}
  BY DEF Commands, locals
<1>6. /\ sink' \in {sink, TRUE, FALSE}
      /\ restoreFailed' \in {restoreFailed, TRUE, FALSE}
      /\ disarmFailed' \in {disarmFailed, TRUE, FALSE}
  BY DEF locals
<1>7. /\ recorder' \in {recorder, "off", "wav", "sink"}
      /\ wav' \in {wav, "open", "closing", "final"}
  BY DEF Record
<1>8. at' \in Places \cup {at}
  BY DEF Goes, Ends, Places
<1>9. outcome' \in {outcome, "ok", "complete", "failed"}
  BY DEF Goes, Ends
<1> QED
  BY <1>1, <1>2, <1>3, <1>4, <1>5, <1>6, <1>7, <1>8, <1>9

LEMMA SavedTyped ==
  ASSUME TypeOK
  PROVE  saved.warp \in BOOLEAN /\ saved.speed \in Speeds
<1>1. CASE saved \in Settings
  BY <1>1 DEF Settings
<1>2. CASE saved \in Pins
  BY <1>2 DEF Pins
<1>3. CASE saved = None
  BY <1>3, RealtimeAssumption DEF None
<1> QED
  BY <1>1, <1>2, <1>3 DEF TypeOK

LEMMA SettingsTyped ==
  ASSUME TypeOK, Next
  PROVE  warp' \in BOOLEAN /\ speed' \in Speeds
<1>1. speed' \in {speed, Realtime, saved.speed} \/ Relaunch
  BY DEF Next, Finalize, Killed, Start, ReadSettings, PinSpeed,
            PinWarp, UndoSpeed, UndoWarp, WritePin, Arm, Forget, RollbackSpeed,
            RollbackWarp, Logged, Stop, Sink, RestoreSpeed, RestoreWarp,
            ClearPin, Disarm, Confirm, settings, SetSpeed, SetWarp
<1>2. warp' \in {warp, TRUE, FALSE, warp \/ saved.warp} \/ Relaunch
  BY DEF Next, Finalize, Killed, Start, ReadSettings, PinSpeed,
            PinWarp, UndoSpeed, UndoWarp, WritePin, Arm, Forget, RollbackSpeed,
            RollbackWarp, Logged, Stop, Sink, RestoreSpeed, RestoreWarp,
            ClearPin, Disarm, Confirm, settings, SetSpeed, SetWarp
<1>3. Relaunch => warp' \in BOOLEAN /\ speed' \in Speeds
  BY DEF Relaunch, Settings
<1> QED
  BY <1>1, <1>2, <1>3, SavedTyped, RealtimeAssumption DEF TypeOK

LEMMA TypeStep == TypeOK /\ [Next]_vars => TypeOK'
<1> SUFFICES ASSUME TypeOK, Next PROVE TypeOK'
  BY DEF TypeOK, vars
<1>1. pid' \in 1..MaxSessions /\ original' \in Settings
  BY Changes, MaxSessionsAssumption DEF Relaunch, TypeOK, session
<1>2. pin' \in Pins \cup {None}
  <2>1. CASE WritePin
    <3>1. PICK w \in BOOLEAN, v \in Speeds :
            pin' = [warp |-> w, speed |-> v, pid |-> pid]
      BY <2>1, SavedTyped DEF WritePin, HeldPin, TypeOK, Pins
    <3> QED
      BY <3>1 DEF TypeOK, Pins
  <2> QED
    BY <2>1, Changes DEF TypeOK, HeldPin
<1>3. saved' \in Settings \cup Pins \cup {None}
  <2>1. [warp |-> warp, speed |-> speed] \in Settings
    BY DEF TypeOK, Settings
  <2>2. HeldPin \in {pin, None}
    BY DEF HeldPin
  <2> QED
    BY <1>2, <2>1, <2>2, Changes DEF TypeOK
<1>4. failures' \in 0..MaxFailures
  BY Changes, MaxFailuresAssumption DEF TypeOK, Fails
<1>5. doing' \in Commands /\ at' \in Places
  BY Changes DEF TypeOK
<1>6. sink' \in BOOLEAN /\ restoreFailed' \in BOOLEAN /\ disarmFailed' \in BOOLEAN
  BY Changes DEF TypeOK
<1>7. /\ recorder' \in {"off", "wav", "sink"}
      /\ wav' \in {"absent", "open", "closing", "final"}
      /\ outcome' \in {"none", "ok", "complete", "failed"}
  BY Changes DEF TypeOK
<1> QED
  BY <1>1, <1>2, <1>3, <1>4, <1>5, <1>6, <1>7, SettingsTyped DEF TypeOK

LEMMA TypeInit == Init => TypeOK
<1> SUFFICES ASSUME Init PROVE TypeOK
  OBVIOUS
<1> USE DEF Init
<1>1. pid \in 1..MaxSessions /\ failures \in 0..MaxFailures
  BY MaxSessionsAssumption, MaxFailuresAssumption
<1>2. original \in Settings /\ warp \in BOOLEAN /\ speed \in Speeds
  BY DEF Settings
<1> QED
  BY <1>1, <1>2 DEF TypeOK, Places, Commands

\* Type correctness: no step of any command, nor the session's death under it,
\* leaves a variable outside its type; a pin, in particular, always bears a pid.
THEOREM TypeCorrect == Spec => []TypeOK
<1>1. QED
  BY TypeInit, TypeStep, PTL DEF Spec

-----------------------------------------------------------------------------
(* The settings a command may apply are the session's own.                 *)

LEMMA OwnChanges ==
  ASSUME Next, ~Relaunch
  PROVE  /\ \/ speed' \in {speed, Realtime}
            \/ at \notin {"idle", "read"} /\ speed' = saved.speed
         /\ warp' => warp \/ (saved.warp /\ at \notin {"idle", "read"})
         /\ at' \notin {"idle", "read"}
              => \/ saved' \in {None, HeldPin} \/ WritePin
                 \/ saved' = [warp |-> warp, speed |-> speed]
                 \/ at \notin {"idle", "read"} /\ saved' = saved
<1> USE DEF Next, Finalize, Killed, Start, ReadSettings, PinSpeed,
            PinWarp, UndoSpeed, UndoWarp, WritePin, Arm, Forget, RollbackSpeed,
            RollbackWarp, Logged, Stop, Sink, RestoreSpeed, RestoreWarp,
            ClearPin, Disarm, Confirm, Goes, Ends
<1>1. \/ speed' \in {speed, Realtime}
      \/ at \notin {"idle", "read"} /\ speed' = saved.speed
  BY DEF settings, SetSpeed, SetWarp
<1>2. warp' => warp \/ (saved.warp /\ at \notin {"idle", "read"})
  BY DEF settings, SetSpeed, SetWarp
<1>3. at' \notin {"idle", "read"}
        => \/ saved' \in {None, HeldPin} \/ WritePin
           \/ saved' = [warp |-> warp, speed |-> speed]
           \/ at \notin {"idle", "read"} /\ saved' = saved
  BY DEF locals
<1> QED
  BY <1>1, <1>2, <1>3

LEMMA SettingsStep == TypeOK /\ SettingsInv /\ [Next]_vars => SettingsInv'
<1>1. CASE UNCHANGED vars
  BY <1>1 DEF SettingsInv, Own, vars
<1>2. ASSUME TypeOK, SettingsInv, Relaunch PROVE SettingsInv'
  <2>1. pid' = pid + 1 /\ pid \in Nat /\ pin.pid <= pid /\ pin.pid \in Nat
    BY <1>2, MaxSessionsAssumption DEF Relaunch, TypeOK, SettingsInv, Pins, None
  <2>2. pin' \in {pin, None} /\ None.pid = 0
    BY <1>2 DEF Relaunch, None
  <2>3. pin'.pid <= pid' /\ pin'.pid /= pid'
    BY <2>1, <2>2
  <2> QED
    BY <1>2, <2>3 DEF Relaunch, SettingsInv
<1>3. ASSUME TypeOK, SettingsInv, Next, ~Relaunch PROVE SettingsInv'
  <2>1. UNCHANGED <<pid, original>>
    BY <1>3, Changes DEF session
  <2>2. /\ warp' => original.warp
        /\ speed' \in {original.speed, Realtime}
    BY <1>3, OwnChanges DEF SettingsInv, Own
  <2>3. Own(None) /\ None.pid = 0
    BY DEF Own, None
  <2>4. pid \in Nat /\ pid > 0
    BY <1>3, MaxSessionsAssumption DEF TypeOK
  <2>5. HeldPin \in {pin, None}
    BY DEF HeldPin
  <2>6. WritePin => pin'.pid = pid /\ Own(pin')
    <3> SUFFICES ASSUME WritePin PROVE pin'.pid = pid /\ Own(pin')
      OBVIOUS
    <3> DEFINE first == IF HeldPin /= None THEN HeldPin ELSE saved
    <3>1. Own(first)
      BY <1>3 DEF HeldPin, SettingsInv, WritePin
    <3>2. pin' = [warp |-> first.warp, speed |-> first.speed, pid |-> pid]
      BY DEF WritePin
    <3> HIDE DEF first
    <3> QED
      BY <3>1, <3>2 DEF Own
  <2>7. /\ pin'.pid <= pid
        /\ pin'.pid = pid => Own(pin')
    BY <1>3, <2>3, <2>4, <2>5, <2>6, Changes DEF SettingsInv
  <2>8. at' \notin {"idle", "read"} => Own(saved')
    <3>1. Own([warp |-> warp, speed |-> speed])
      BY <1>3 DEF SettingsInv, Own
    <3>2. Own(HeldPin)
      BY <1>3, <2>3 DEF HeldPin, SettingsInv
    <3>3. WritePin => Own(saved')
      BY <2>6 DEF WritePin
    <3> QED
      BY <1>3, <2>3, <3>1, <3>2, <3>3, OwnChanges DEF SettingsInv
  <2> QED
    BY <2>1, <2>2, <2>7, <2>8 DEF SettingsInv, Own
<1> QED
  BY <1>1, <1>2, <1>3

LEMMA SettingsInit == Init => SettingsInv
<1> SUFFICES ASSUME Init PROVE SettingsInv
  OBVIOUS
<1>1. pin.pid = 0 /\ pid = 1
  BY DEF Init, None
<1>2. warp = original.warp /\ speed = original.speed /\ at = "idle"
  BY DEF Init
<1> QED
  BY <1>1, <1>2 DEF SettingsInv

LEMMA SettingsAlways == Spec => [](TypeOK /\ SettingsInv)
<1>1. QED
  BY TypeInit, TypeStep, SettingsInit, SettingsStep, PTL DEF Spec

\* No command leaves a session with settings that are neither real time nor its
\* own, however many exchanges fail: the pin of a dead session of the same name
\* is recognised by its pid and never applied.
THEOREM SettingsAreOwn == Spec => []OnlyOwnSettings
<1>1. SettingsInv => OnlyOwnSettings
  BY DEF SettingsInv, OnlyOwnSettings
<1>2. QED
  BY <1>1, SettingsAlways, PTL

-----------------------------------------------------------------------------
(* The sink really records when a stop believes it does.                   *)

LEMMA RecorderInit == Init => RecorderInv
BY DEF Init, RecorderInv

LEMMA RecorderStep == RecorderInv /\ [Next]_vars => RecorderInv'
<1> SUFFICES ASSUME RecorderInv, [Next]_vars PROVE RecorderInv'
  OBVIOUS
<1> USE DEF RecorderInv, settings, session, locals, Goes, Ends
<1>1. CASE Finalize
  BY <1>1 DEF Finalize
<1>2. CASE Relaunch
  BY <1>2 DEF Relaunch
<1>3. CASE Killed
  BY <1>3 DEF Killed, Unprotected
<1>4. CASE Start
  BY <1>4 DEF Start
<1>5. CASE ReadSettings
  BY <1>5 DEF ReadSettings
<1>6. CASE PinSpeed
  BY <1>6 DEF PinSpeed
<1>7. CASE PinWarp
  BY <1>7 DEF PinWarp
<1>8. CASE UndoSpeed
  BY <1>8 DEF UndoSpeed
<1>9. CASE UndoWarp
  BY <1>9 DEF UndoWarp
<1>10. CASE WritePin
  BY <1>10 DEF WritePin
<1>11. CASE Arm
  BY <1>11 DEF Arm, Record
<1>12. CASE Forget
  BY <1>12 DEF Forget
<1>13. CASE RollbackSpeed
  BY <1>13 DEF RollbackSpeed
<1>14. CASE RollbackWarp
  BY <1>14 DEF RollbackWarp
<1>15. CASE Logged
  BY <1>15 DEF Logged
<1>16. CASE Stop
  BY <1>16 DEF Stop
<1>17. CASE Sink
  <2>1. at = "sink" /\ at' = "restore speed" /\ ~sink
    BY <1>17 DEF Sink
  <2>2. sink' = sink \/ Record("sink")
    BY <1>17 DEF Sink
  <2>3. UNCHANGED <<recorder, wav>> \/ Record("sink")
    BY <1>17 DEF Sink
  <2>4. sink' => recorder' = "sink"
    BY <2>1, <2>2 DEF Record
  <2>5. wav' = "open" => recorder' = "wav"
    BY <2>3 DEF Record
  <2> QED
    BY <2>1, <2>4, <2>5
<1>18. CASE RestoreSpeed
  BY <1>18 DEF RestoreSpeed
<1>19. CASE RestoreWarp
  BY <1>19 DEF RestoreWarp
<1>20. CASE ClearPin
  BY <1>20 DEF ClearPin
<1>21. CASE Disarm
  BY <1>21 DEF Disarm, Record
<1>22. CASE Confirm
  BY <1>22 DEF Confirm
<1>23. CASE UNCHANGED vars
  BY <1>23 DEF vars
<1> QED
  BY <1>1, <1>2, <1>3, <1>4, <1>5, <1>6, <1>7, <1>8, <1>9, <1>10, <1>11, <1>12,
     <1>13, <1>14, <1>15, <1>16, <1>17, <1>18, <1>19, <1>20, <1>21, <1>22, <1>23
     DEF Next

\* A stop never brings warp back over a WAV it believes its sink has closed,
\* whatever failed before.
THEOREM SinkFirst == Spec => StopClosesFirst
<1>1. RecorderInv /\ [Next]_vars
        => [RestoreWarp /\ sink /\ warp' => wav' /= "open"]_vars
  BY DEF RecorderInv, RestoreWarp
<1>2. QED
  BY <1>1, RecorderInit, RecorderStep, PTL DEF Spec, StopClosesFirst

-----------------------------------------------------------------------------
(* Where the session's own settings are to be found, place by place.       *)

LEMMA PlaceStep ==
  ASSUME MaxFailures <= 1, TypeOK, SettingsInv, PlaceInv, Next, ~Relaunch
  PROVE  PlaceInv'
<1>1. /\ pid' = pid /\ original' = original
      /\ pid \in Nat /\ pid > 0
  BY Changes DEF session, TypeOK
<1>2. pin' = None => pin'.pid /= pid'
  BY <1>1 DEF None
<1>3. ASSUME pin' = pin
      PROVE  (PinHolds' <=> PinHolds) /\ (pin'.pid = pid' => PinHolds')
  BY <1>1, <1>3 DEF PlaceInv, PinHolds
<1>4. saved' = saved => (SavedIsOriginal' <=> SavedIsOriginal)
  BY <1>1 DEF SavedIsOriginal
<1>5. Fails => failures = 0 /\ failures' = 1
  BY MaxFailuresAssumption DEF Fails, TypeOK
<1>6. /\ warp = original.warp /\ speed = original.speed <=> Untouched
      /\ warp' = original.warp /\ speed' = original.speed <=> Untouched'
  BY <1>1 DEF Untouched
<1>7. PinHolds /\ saved = pin => SavedIsOriginal
  BY DEF PinHolds, SavedIsOriginal
<1>8. /\ PinHolds => pin.pid = pid /\ pin /= None
      /\ pin.pid = pid => PinHolds
  <2>1. PinHolds => pin.pid = pid
    BY DEF PinHolds
  <2>2. None.pid /= pid
    BY <1>1 DEF None
  <2> QED
    BY <2>1, <2>2 DEF PlaceInv
<1>9. ASSUME saved.warp = original.warp, warp' = (warp \/ saved.warp)
      PROVE  warp' = original.warp
  <2>1. original.warp \in BOOLEAN /\ warp \in BOOLEAN
    BY DEF TypeOK, Settings
  <2> QED
    BY <1>9, <2>1 DEF SettingsInv

<1>10. CASE Finalize
  <2>1. /\ at' = at
        /\ UNCHANGED <<warp, speed, pin, saved, recorder, failures, restoreFailed,
                       disarmFailed>>
    BY <1>10 DEF Finalize, settings, locals
  <2> QED
    BY <1>1, <1>3, <1>4, <1>6, <2>1 DEF PlaceInv, Restorable
<1>11. CASE Killed
  <2>1. /\ at' = "idle"
        /\ at \in Places \ ({"idle"} \cup Unprotected)
        /\ UNCHANGED <<warp, speed, pin, saved>>
    BY <1>11 DEF Killed, Ends, settings, locals, TypeOK
  <2> QED
    BY <1>3, <1>6, <2>1 DEF PlaceInv, Restorable, Unprotected, Places
<1>12. CASE Start
  <2>1. /\ at = "idle" /\ at' = "read" /\ failures' = 0
        /\ UNCHANGED <<warp, speed, pin>>
    BY <1>12 DEF Start, Goes, settings
  <2> QED
    BY <1>3, <1>6, <2>1 DEF PlaceInv, Restorable
<1>13. CASE ReadSettings
  <2>1. /\ at = "read"
        /\ UNCHANGED <<warp, speed, pin>>
        /\ \/ /\ failures' = failures /\ at' = "pin speed"
              /\ saved' = [warp |-> warp, speed |-> speed]
           \/ at' = "idle"
    BY <1>13 DEF ReadSettings, Goes, Ends, settings, Succeeds
  <2>2. saved' = [warp |-> warp, speed |-> speed]
          => saved'.warp = warp /\ saved'.speed = speed
    OBVIOUS
  <2> QED
    BY <1>3, <1>6, <2>1, <2>2 DEF PlaceInv, Restorable
<1>14. CASE PinSpeed
  <2>1. /\ at = "pin speed"
        /\ UNCHANGED <<warp, pin, saved>>
        /\ \/ failures' = failures /\ at' = "pin warp"
           \/ Fails /\ at' = "undo speed"
    BY <1>14 DEF PinSpeed, Goes, settings, locals, SetSpeed, Succeeds
  <2>2. PinHolds \/ SavedIsOriginal
    BY <2>1 DEF PlaceInv, Restorable, Untouched, SavedIsOriginal
  <2> QED
    BY <1>3, <1>4, <1>5, <2>1, <2>2 DEF PlaceInv
<1>15. CASE PinWarp
  <2>1. /\ at = "pin warp"
        /\ UNCHANGED <<speed, pin, saved>>
        /\ \/ failures' = failures /\ at' = "write pin"
           \/ Fails /\ at' = "undo speed"
    BY <1>15 DEF PinWarp, Goes, settings, locals, SetWarp, Succeeds
  <2> QED
    BY <1>3, <1>4, <1>5, <2>1 DEF PlaceInv
<1>16. CASE UndoSpeed
  <2>1. /\ at = "undo speed" /\ at' = "undo warp"
        /\ UNCHANGED <<warp, pin, saved>>
        /\ \/ failures' = failures /\ speed' = saved.speed
           \/ Fails
    BY <1>16 DEF UndoSpeed, Goes, settings, locals, SetSpeed, Succeeds
  <2>2. failures = 1
    BY <2>1 DEF PlaceInv
  <2>3. ~Fails
    BY <1>5, <2>2
  <2>4. failures' = 1 /\ speed' = saved.speed
    BY <2>1, <2>2, <2>3
  <2>5. SavedIsOriginal => speed' = original'.speed
    BY <1>1, <2>4 DEF SavedIsOriginal
  <2> QED
    BY <1>3, <1>4, <2>1, <2>4, <2>5 DEF PlaceInv
<1>17. CASE UndoWarp
  <2>1. /\ at = "undo warp" /\ at' = "idle"
        /\ UNCHANGED <<speed, pin, saved>>
        /\ warp' = (warp \/ saved.warp) \/ Fails
    BY <1>17 DEF UndoWarp, Ends, settings, locals, SetWarp
  <2>2. failures = 1
    BY <2>1 DEF PlaceInv
  <2>3. ~Fails
    BY <1>5, <2>2
  <2>4. warp' = (warp \/ saved.warp)
    BY <2>1, <2>3
  <2>5. SavedIsOriginal => warp' = original.warp
    BY <1>9, <2>4 DEF SavedIsOriginal
  <2> QED
    BY <1>3, <1>6, <2>1, <2>5 DEF PlaceInv, Restorable
<1>18. CASE WritePin
  <2>1. /\ at = "write pin" /\ at' = "arm"
        /\ saved' = pin' /\ failures' = failures
        /\ UNCHANGED <<warp, speed>>
    BY <1>18 DEF WritePin, Goes, settings
  <2>2. PinHolds'
    BY <1>1, <1>8, <1>18 DEF WritePin, HeldPin, PlaceInv, PinHolds, SavedIsOriginal
  <2> QED
    BY <2>1, <2>2 DEF PlaceInv
<1>19. CASE Arm
  <2>1. /\ at = "arm"
        /\ UNCHANGED <<warp, speed, pin, saved>>
        /\ \/ failures' = failures /\ at' \in {"idle", "logging"}
           \/ Fails /\ at' = "forget"
    BY <1>19 DEF Arm, Goes, Ends, settings, locals, Succeeds
  <2> QED
    BY <1>3, <1>5, <2>1 DEF PlaceInv, Restorable
<1>20. CASE Forget
  <2>1. /\ at = "forget" /\ at' = "rollback speed" /\ pin' = None
        /\ UNCHANGED <<warp, speed, saved, failures>>
    BY <1>20 DEF Forget, Goes, settings, locals
  <2>2. SavedIsOriginal'
    BY <1>4, <1>7, <2>1 DEF PlaceInv
  <2> QED
    BY <1>2, <2>1, <2>2 DEF PlaceInv
<1>21. CASE RollbackSpeed
  <2>1. /\ at = "rollback speed"
        /\ UNCHANGED <<warp, pin, saved>>
        /\ \/ failures' = failures /\ speed' = saved.speed /\ at' = "rollback warp"
           \/ Fails
    BY <1>21 DEF RollbackSpeed, Goes, settings, locals, SetSpeed, Succeeds
  <2>2. failures = 1
    BY <2>1 DEF PlaceInv
  <2>3. ~Fails
    BY <1>5, <2>2
  <2>4. failures' = 1 /\ speed' = saved.speed /\ at' = "rollback warp"
    BY <2>1, <2>2, <2>3
  <2>5. speed' = original'.speed
    BY <1>1, <2>1, <2>4 DEF PlaceInv, SavedIsOriginal
  <2> QED
    BY <1>3, <1>4, <2>1, <2>4, <2>5 DEF PlaceInv
<1>22. CASE RollbackWarp
  <2>1. /\ at = "rollback warp" /\ at' = "idle"
        /\ UNCHANGED <<speed, pin, saved>>
        /\ warp' = (warp \/ saved.warp) \/ Fails
    BY <1>22 DEF RollbackWarp, Ends, settings, locals, SetWarp
  <2>2. failures = 1
    BY <2>1 DEF PlaceInv
  <2>3. ~Fails
    BY <1>5, <2>2
  <2>4. warp' = (warp \/ saved.warp)
    BY <2>1, <2>3
  <2>5. warp' = original.warp
    BY <1>9, <2>1, <2>4 DEF SavedIsOriginal, PlaceInv
  <2> QED
    BY <1>3, <1>6, <2>1, <2>5 DEF PlaceInv, Restorable
<1>23. CASE Logged
  <2>1. /\ at = "logging" /\ saved' = HeldPin /\ pin' = HeldPin
        /\ at' = IF HeldPin = None THEN "disarm" ELSE "sink"
        /\ UNCHANGED <<warp, speed>>
        /\ restoreFailed' = restoreFailed
    BY <1>23 DEF Logged, Goes, settings
  <2>2. HeldPin /= None => PinHolds /\ pin' = pin
    BY <1>8, <2>1 DEF HeldPin
  <2>3. PinHolds => HeldPin = pin /\ HeldPin /= None
    BY <1>8 DEF HeldPin
  <2> QED
    BY <1>2, <1>3, <1>6, <2>1, <2>2, <2>3 DEF PlaceInv, Restorable
<1>24. CASE Stop
  <2>1. /\ at = "idle" /\ saved' = HeldPin /\ pin' = HeldPin
        /\ at' = IF HeldPin = None THEN "disarm" ELSE "sink"
        /\ UNCHANGED <<warp, speed>>
    BY <1>24 DEF Stop, Goes, settings
  <2>2. HeldPin /= None => PinHolds /\ pin' = pin
    BY <1>8, <2>1 DEF HeldPin
  <2>3. PinHolds => HeldPin = pin /\ HeldPin /= None
    BY <1>8 DEF HeldPin
  <2> QED
    BY <1>2, <1>3, <1>6, <2>1, <2>2, <2>3 DEF PlaceInv, Restorable
<1>25. CASE Sink
  <2>1. /\ at = "sink" /\ at' = "restore speed"
        /\ UNCHANGED <<warp, speed, pin, saved>>
    BY <1>25 DEF Sink, Goes, settings
  <2> QED
    BY <1>3, <2>1 DEF PlaceInv
<1>26. CASE RestoreSpeed
  <2>1. /\ at = "restore speed"
        /\ UNCHANGED <<warp, pin, saved>>
        /\ \/ speed' = saved.speed /\ at' = "restore warp"
           \/ restoreFailed' = TRUE /\ at' = "disarm"
    BY <1>26 DEF RestoreSpeed, Goes, settings, SetSpeed
  <2>2. SavedIsOriginal /\ PinHolds'
    BY <1>3, <1>7, <2>1 DEF PlaceInv
  <2>3. saved.speed = original'.speed
    BY <1>1, <2>2 DEF SavedIsOriginal
  <2> QED
    BY <2>1, <2>2, <2>3 DEF PlaceInv, Restorable
<1>27. CASE RestoreWarp
  <2>1. /\ at = "restore warp"
        /\ UNCHANGED <<speed, pin, saved>>
        /\ \/ warp' = (warp \/ saved.warp) /\ at' = "clear pin"
           \/ restoreFailed' = TRUE /\ at' = "disarm"
    BY <1>27 DEF RestoreWarp, Goes, settings, SetWarp
  <2>2. SavedIsOriginal /\ PinHolds'
    BY <1>3, <1>7, <2>1 DEF PlaceInv
  <2>3. warp' = (warp \/ saved.warp) => warp' = original.warp
    BY <1>9, <2>2 DEF SavedIsOriginal
  <2> QED
    BY <1>6, <2>1, <2>2, <2>3 DEF PlaceInv, Restorable
<1>28. CASE ClearPin
  <2>1. /\ at = "clear pin" /\ at' = "disarm" /\ pin' = None
        /\ UNCHANGED <<warp, speed>>
    BY <1>28 DEF ClearPin, Goes, settings
  <2> QED
    BY <1>2, <1>6, <2>1 DEF PlaceInv, Restorable
<1>29. CASE Disarm
  <2>1. /\ at = "disarm" /\ at' = "confirm"
        /\ UNCHANGED <<warp, speed, pin, restoreFailed>>
        /\ recorder' = "off" \/ disarmFailed' = TRUE
    BY <1>29 DEF Disarm, Goes, settings, Record
  <2> QED
    BY <1>3, <1>6, <2>1 DEF PlaceInv, Restorable
<1>30. CASE Confirm
  <2>1. /\ at' = "idle" /\ at = "confirm"
        /\ UNCHANGED <<warp, speed, pin>>
    BY <1>30 DEF Confirm, Ends, settings
  <2> QED
    BY <1>3, <1>6, <2>1 DEF PlaceInv, Restorable
<1> QED
  BY <1>10, <1>11, <1>12, <1>13, <1>14, <1>15, <1>16, <1>17, <1>18, <1>19, <1>20,
     <1>21, <1>22, <1>23, <1>24, <1>25, <1>26, <1>27, <1>28, <1>29, <1>30 DEF Next

LEMMA PlaceAfterRelaunch ==
  ASSUME TypeOK, SettingsInv, PlaceInv, Relaunch
  PROVE  PlaceInv'
<1>1. at = "idle" /\ at' = "idle"
  BY DEF Relaunch
<1>2. Untouched'
  BY DEF Relaunch, Untouched
<1>3. pin'.pid /= pid'
  <2>1. pid' = pid + 1 /\ pid \in Nat /\ pin.pid <= pid /\ pin.pid \in Nat
    BY MaxSessionsAssumption DEF Relaunch, TypeOK, SettingsInv, Pins, None
  <2>2. pin' \in {pin, None} /\ None.pid = 0
    BY DEF Relaunch, None
  <2> QED
    BY <2>1, <2>2
<1> QED
  BY <1>1, <1>2, <1>3 DEF PlaceInv, Restorable

LEMMA PlaceInit == Init => PlaceInv
<1> SUFFICES ASSUME Init PROVE PlaceInv
  OBVIOUS
<1>1. pin.pid = 0 /\ pid = 1
  BY DEF Init, None
<1>2. Untouched /\ at = "idle"
  BY DEF Init, Untouched
<1> QED
  BY <1>1, <1>2 DEF PlaceInv, Restorable

LEMMA PlaceAlways ==
  ASSUME MaxFailures <= 1
  PROVE  Spec => [](TypeOK /\ PlaceInv)
<1>1. TypeOK /\ SettingsInv /\ PlaceInv /\ [Next]_vars => PlaceInv'
  <2>1. ASSUME PlaceInv, UNCHANGED vars PROVE PlaceInv'
    BY <2>1 DEF PlaceInv, PinHolds, Restorable, Untouched, SavedIsOriginal, vars
  <2> QED
    BY <2>1, PlaceStep, PlaceAfterRelaunch
<1>2. QED
  BY <1>1, PlaceInit, SettingsAlways, PTL DEF Spec

\* With at most one failed exchange per command, the session always has its own
\* settings or a pin on disk that says what they were, except in the window in
\* which a pin is being made or a failed start undone.
THEOREM Undoability ==
  ASSUME MaxFailures <= 1
  PROVE  Spec => []Undoable
<1>1. TypeOK /\ PlaceInv => Undoable
  <2> SUFFICES ASSUME TypeOK, PlaceInv, at \notin Unprotected PROVE Restorable
    BY DEF Undoable
  <2> QED
    BY DEF TypeOK, Places, PlaceInv, Restorable, Unprotected
<1>2. QED
  BY <1>1, PlaceAlways, PTL

\* With at most one failed exchange per command, a stop that reports success has
\* put the settings back, closed the recorder and removed the pin.
THEOREM StopRestoration ==
  ASSUME MaxFailures <= 1
  PROVE  Spec => StopRestores
<1>1. PlaceInv /\ [Next]_vars
        => [Confirm /\ outcome' = "ok"
              => Untouched /\ recorder = "off" /\ pin = None]_vars
  BY DEF PlaceInv, Confirm, Ends
<1>2. QED
  BY <1>1, PlaceAlways, PTL DEF Spec, StopRestores
=================================================================================
