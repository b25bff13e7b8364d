------------------------- MODULE MonitorDaemonProofs -------------------------
(* Safety of MonitorDaemon for every set of checkpoints and deque capacity,  *)
(* and of run_until amid its other requests for every count of arrivals.     *)
EXTENDS UntilLoop, TLAPS, WellFoundedInduction

-----------------------------------------------------------------------------
(* What the readings of an event sequence say after one more event.          *)

\* Appending a run/stop event: it becomes the last one, a RESUMED cancels a
\* park, a STOPPED does not.
LEMMA AppendRunEvent ==
  ASSUME NEW s \in Seq(Events), NEW e \in {"STOPPED", "RESUMED"}
  PROVE  /\ Append(s, e) \in Seq(Events)
         /\ Whole(Append(s, e))
         /\ \A f \in {"STOPPED", "RESUMED"} : LastIs(Append(s, e), f) => f = e
         /\ ~HoldsPark(Append(s, "RESUMED"))
         /\ HoldsPark(Append(s, "STOPPED")) => HoldsPark(s)
         /\ HasStop(Append(s, "RESUMED")) => HasStop(s)
<1> DEFINE t == Append(s, e)
<1>1. /\ t \in Seq(Events) /\ Len(t) = Len(s) + 1 /\ Len(s) \in Nat
      /\ t[Len(s) + 1] = e
      /\ \A i \in 1..Len(s) : t[i] = s[i]
  BY DEF Events
<1>2. Whole(t)
  BY <1>1 DEF Whole
<1>3. \A f \in {"STOPPED", "RESUMED"} : LastIs(t, f) => f = e
  BY <1>1 DEF LastIs
<1>4. ~HoldsPark(Append(s, "RESUMED"))
  BY CheckpointsAssumption DEF HoldsPark, Events
<1>5. HoldsPark(Append(s, "STOPPED")) => HoldsPark(s)
  BY CheckpointsAssumption DEF HoldsPark, Events
<1>6. HasStop(Append(s, "RESUMED")) => HasStop(s)
  BY DEF HasStop, Events
<1>7. QED
  BY <1>1, <1>2, <1>3, <1>4, <1>5, <1>6

\* Dropping the oldest events keeps what is newest.
LEMMA SuffixReadings ==
  ASSUME NEW s \in Seq(Events), NEW n \in 0..Len(s)
  PROVE  LET t == SubSeq(s, n + 1, Len(s)) IN
         /\ t \in Seq(Events)
         /\ Len(t) = Len(s) - n
         /\ Whole(s) => Whole(t)
         /\ \A f \in {"STOPPED", "RESUMED"} : LastIs(t, f) => LastIs(s, f)
         /\ HoldsPark(t) => HoldsPark(s)
         /\ HasStop(t) => HasStop(s)
         /\ EndsInHit(s) /\ Len(t) >= 2 => EndsInHit(t)
<1> DEFINE t == SubSeq(s, n + 1, Len(s))
<1>1. /\ t \in Seq(Events) /\ Len(t) = Len(s) - n /\ Len(s) \in Nat
      /\ \A i \in 1..Len(t) : t[i] = s[n + i]
  OBVIOUS
<1>a. t \in Seq(Events) /\ Len(t) \in Nat
  BY <1>1
<1> HIDE DEF t
<1>2. Whole(s) => Whole(t)
  BY <1>1 DEF Whole
<1>3. \A f \in {"STOPPED", "RESUMED"} : LastIs(t, f) => LastIs(s, f)
  <2> SUFFICES ASSUME NEW f \in {"STOPPED", "RESUMED"}, LastIs(t, f)
               PROVE  LastIs(s, f)
    OBVIOUS
  <2>1. PICK i \in 1..Len(t) : /\ t[i] = f
                               /\ \A j \in i+1..Len(t) : t[j] \notin {"STOPPED", "RESUMED"}
    BY DEF LastIs
  <2>2. n + i \in 1..Len(s) /\ s[n + i] = f
    BY <1>1, <2>1
  <2>3. \A j \in n+i+1..Len(s) : j - n \in i+1..Len(t) /\ s[j] = t[j - n]
    BY <1>1, <2>1
  <2>4. QED
    BY <2>1, <2>2, <2>3 DEF LastIs
<1>4. HoldsPark(t) => HoldsPark(s)
  <2> SUFFICES ASSUME HoldsPark(t) PROVE HoldsPark(s)
    OBVIOUS
  <2>1. PICK i \in 1..Len(t) : /\ t[i] \in Checkpoints
                               /\ \A j \in i+1..Len(t) : t[j] /= "RESUMED"
    BY DEF HoldsPark
  <2>2. n + i \in 1..Len(s) /\ s[n + i] \in Checkpoints
    BY <1>1, <2>1
  <2>3. \A j \in n+i+1..Len(s) : j - n \in i+1..Len(t) /\ s[j] = t[j - n]
    BY <1>1, <2>1
  <2>4. QED
    BY <2>1, <2>2, <2>3 DEF HoldsPark
<1>5. HasStop(t) => HasStop(s)
  <2> SUFFICES ASSUME HasStop(t) PROVE HasStop(s)
    OBVIOUS
  <2>1. PICK i \in 1..Len(t) : t[i] = "STOPPED"
    BY DEF HasStop
  <2>2. n + i \in 1..Len(s) /\ s[n + i] = "STOPPED"
    BY <1>1, <2>1
  <2>3. QED
    BY <2>2 DEF HasStop
<1>6. EndsInHit(s) /\ Len(t) >= 2 => EndsInHit(t)
  <2> SUFFICES ASSUME EndsInHit(s), Len(t) >= 2 PROVE EndsInHit(t)
    OBVIOUS
  <2>1. /\ n + (Len(t) - 1) = Len(s) - 1 /\ n + Len(t) = Len(s)
        /\ Len(t) - 1 \in 1..Len(t) /\ Len(t) \in 1..Len(t)
    BY <1>1
  <2>2. QED
    BY <1>1, <2>1 DEF EndsInHit
<1>7. QED
  BY <1>1, <1>2, <1>3, <1>4, <1>5, <1>6 DEF t

\* A full deque says nothing its contents did not say, and keeps a newest hit.
LEMMA NewestReadings ==
  ASSUME NEW s \in Seq(Events)
  PROVE  /\ Newest(s) \in Seq(Events)
         /\ Whole(s) => Whole(Newest(s))
         /\ \A f \in {"STOPPED", "RESUMED"} : LastIs(Newest(s), f) => LastIs(s, f)
         /\ HoldsPark(Newest(s)) => HoldsPark(s)
         /\ HasStop(Newest(s)) => HasStop(s)
         /\ EndsInHit(s) => EndsInHit(Newest(s))
<1>1. CASE Len(s) <= MaxEvents
  BY <1>1 DEF Newest
<1>2. CASE ~(Len(s) <= MaxEvents)
  <2>1. /\ Len(s) \in Nat
        /\ Len(s) - MaxEvents \in 0..Len(s)
        /\ Newest(s) = SubSeq(s, (Len(s) - MaxEvents) + 1, Len(s))
        /\ Len(s) - (Len(s) - MaxEvents) >= 2
    BY <1>2, MaxEventsAssumption DEF Newest
  <2>2. QED
    BY <2>1, SuffixReadings
<1>3. QED
  BY <1>1, <1>2

\* One more event on the wire is one more unread event.
LEMMA AppendToWire ==
  ASSUME NEW s \in Seq(Events), NEW t \in Seq(Events), NEW e \in Events
  PROVE  s \o Append(t, e) = Append(s \o t, e)
OBVIOUS

LEMMA ConcatEmpty ==
  ASSUME NEW s \in Seq(Events)
  PROVE  /\ s \o <<>> = s
         /\ <<>> \o s = s
         /\ s \o <<"RESUMED">> = Append(s, "RESUMED")
OBVIOUS

\* No event says nothing.
LEMMA EmptyReadings ==
  /\ <<>> \in Seq(Events)
  /\ Whole(<<>>)
  /\ \A f \in {"STOPPED", "RESUMED"} : ~LastIs(<<>>, f)
  /\ ~HoldsPark(<<>>)
  /\ ~HasStop(<<>>)
BY DEF Whole, LastIs, HoldsPark, HasStop

\* What two pieces say, the whole says, when the piece is the newer one.
LEMMA TailReadings ==
  ASSUME NEW s \in Seq(Events), NEW t \in Seq(Events)
  PROVE  /\ s \o t \in Seq(Events)
         /\ \A f \in {"STOPPED", "RESUMED"} : LastIs(t, f) => LastIs(s \o t, f)
         /\ HoldsPark(t) => HoldsPark(s \o t)
         /\ HasStop(s) \/ HasStop(t) => HasStop(s \o t)
         /\ Whole(s) /\ Whole(t) => Whole(s \o t)
         /\ Whole(s) /\ ~HasStop(s) /\ EndsInHit(s \o t) => EndsInHit(t)
<1> DEFINE u == s \o t
<1>1. /\ u \in Seq(Events) /\ Len(u) = Len(s) + Len(t) /\ Len(s) \in Nat /\ Len(t) \in Nat
      /\ \A i \in 1..Len(s) : u[i] = s[i]
      /\ \A i \in 1..Len(t) : u[Len(s) + i] = t[i]
  OBVIOUS
<1>2. /\ Len(s) \in 0..Len(u)
      /\ t = SubSeq(u, Len(s) + 1, Len(u))
  OBVIOUS
<1> HIDE DEF u
<1>3. /\ \A f \in {"STOPPED", "RESUMED"} : LastIs(t, f) => LastIs(u, f)
      /\ HoldsPark(t) => HoldsPark(u)
      /\ HasStop(t) => HasStop(u)
  BY <1>1, <1>2, SuffixReadings
<1>4. HasStop(s) => HasStop(u)
  BY <1>1 DEF HasStop
<1>5. Whole(s) /\ Whole(t) => Whole(u)
  BY <1>1 DEF Whole
<1>6. Whole(s) /\ ~HasStop(s) /\ EndsInHit(u) => EndsInHit(t)
  <2> SUFFICES ASSUME Whole(s), ~HasStop(s), EndsInHit(u) PROVE EndsInHit(t)
    OBVIOUS
  <2>1. Len(s) > 0 => s[Len(s)] = "RESUMED"
    BY <1>1 DEF Whole, HasStop
  <2>2. Len(t) /= 0
    BY <1>1, <2>1 DEF EndsInHit
  <2>3. ASSUME Len(t) = 1 PROVE FALSE
    <3>1. Len(u) = Len(s) + 1 /\ Len(s) >= 1 /\ u[Len(s)] \in Checkpoints
      BY <1>1, <2>3 DEF EndsInHit
    <3>2. u[Len(s)] = "RESUMED"
      BY <1>1, <2>1, <3>1
    <3>3. QED
      BY <3>1, <3>2, CheckpointsAssumption
  <2>4. Len(t) >= 2
    <3>1. Len(t) \in Nat
      BY <1>1
    <3>2. QED
      BY <3>1, <2>2, <2>3
  <2>5. /\ t[Len(t)] = u[Len(u)]
        /\ t[Len(t) - 1] = u[Len(u) - 1]
    <3>1. u[Len(s) + Len(t)] = t[Len(t)] /\ u[Len(s) + (Len(t) - 1)] = t[Len(t) - 1]
      <4>1. Len(t) \in 1..Len(t) /\ Len(t) - 1 \in 1..Len(t)
        BY <1>1, <2>4
      <4>2. \A i \in 1..Len(t) : u[Len(s) + i] = t[i]
        BY <1>1
      <4> QED BY <4>1, <4>2
    <3>2. Len(u) - 1 = Len(s) + (Len(t) - 1)
      BY <1>1
    <3>3. QED
      BY <1>1, <3>1, <3>2
  <2>6. QED
    BY <2>4, <2>5 DEF EndsInHit
<1>7. QED
  BY <1>1, <1>3, <1>4, <1>5, <1>6 DEF u

\* A halt adds its STOPPED if there was something to halt.
LEMMA HaltedReadings ==
  ASSUME NEW s \in Seq(Events)
  PROVE  /\ Halted(s) \in Seq(Events)
         /\ Whole(s) => Whole(Halted(s))
         /\ machine = "running" => ~LastIs(Halted(s), "RESUMED")
         /\ machine /= "running" => Halted(s) = s
         /\ HoldsPark(Halted(s)) => HoldsPark(s)
<1>1. CASE machine = "running"
  BY <1>1, AppendRunEvent DEF Halted
<1>2. CASE machine /= "running"
  BY <1>2 DEF Halted
<1>3. QED
  BY <1>1, <1>2

-----------------------------------------------------------------------------
(* What each use of the connection does to the unread events.                *)

\* The events are sequences, and no hit stands without its STOPPED at the end.
EventsOK ==
  /\ events \in Seq(Events) /\ wire \in Seq(Events)
  /\ Whole(events) /\ Whole(wire)

LEMMA UnreadOK ==
  ASSUME EventsOK
  PROVE  Unread \in Seq(Events) /\ Whole(Unread)
BY TailReadings DEF EventsOK, Unread

\* All unread events, as the deque keeps them: s is Unread, or Unread after
\* the STOPPED of a halt.
LEMMA KeepReadings ==
  ASSUME NEW s \in Seq(Events), Whole(s), events' = Newest(s), wire' = <<>>
  PROVE  /\ EventsOK'
         /\ Unread' = Newest(s)
         /\ \A f \in {"STOPPED", "RESUMED"} : LastIs(Unread', f) => LastIs(s, f)
         /\ HoldsPark(Unread') => HoldsPark(s)
         /\ EndsInHit(s) => EndsInHit(Unread')
         /\ HasStop(Unread') => HasStop(s)
<1>1. Unread' = Newest(s)
  BY NewestReadings, ConcatEmpty DEF Unread
<1>2. EventsOK'
  BY NewestReadings, EmptyReadings DEF EventsOK
<1>3. QED
  BY <1>1, <1>2, NewestReadings

LEMMA CommandReadings ==
  ASSUME EventsOK, events' = Newest(Halted(Unread)), wire' = <<>>,
         LastIs(Unread, "RESUMED") => machine = "running"
  PROVE  /\ EventsOK'
         /\ ~LastIs(Unread', "RESUMED")
         /\ HoldsPark(Unread') => HoldsPark(Unread)
         /\ machine /= "running" /\ EndsInHit(Unread) => EndsInHit(Unread')
<1>1. Unread \in Seq(Events) /\ Whole(Unread)
  BY UnreadOK
<1>2. Halted(Unread) \in Seq(Events) /\ Whole(Halted(Unread))
  BY <1>1, HaltedReadings
<1>3. /\ EventsOK'
      /\ LastIs(Unread', "RESUMED") => LastIs(Halted(Unread), "RESUMED")
      /\ HoldsPark(Unread') => HoldsPark(Halted(Unread))
      /\ EndsInHit(Halted(Unread)) => EndsInHit(Unread')
  BY <1>2, KeepReadings
<1>4. QED
  BY <1>1, <1>3, HaltedReadings

\* The RESUMED that follows an EXIT or EXECUTE_UNTIL_RETURN, read or not.
LEMMA ResumedReadings ==
  ASSUME NEW s \in Seq(Events), Whole(s),
         \/ events' = Newest(Append(s, "RESUMED")) /\ wire' = <<>>
         \/ events' = Newest(s) /\ wire' = <<"RESUMED">>
  PROVE  /\ EventsOK'
         /\ ~LastIs(Unread', "STOPPED")
         /\ ~HoldsPark(Unread')
         /\ HasStop(Unread') => HasStop(s)
<1>1. CASE events' = Newest(Append(s, "RESUMED")) /\ wire' = <<>>
  <2>1. /\ Append(s, "RESUMED") \in Seq(Events) /\ Whole(Append(s, "RESUMED"))
        /\ ~LastIs(Append(s, "RESUMED"), "STOPPED")
        /\ ~HoldsPark(Append(s, "RESUMED"))
        /\ HasStop(Append(s, "RESUMED")) => HasStop(s)
    BY AppendRunEvent
  <2>2. QED
    BY <1>1, <2>1, KeepReadings
<1>2. CASE events' = Newest(s) /\ wire' = <<"RESUMED">>
  <2> DEFINE n == Newest(s)
  <2>1. n \in Seq(Events) /\ Whole(n) /\ (HasStop(n) => HasStop(s))
    BY NewestReadings
  <2> HIDE DEF n
  <2>2. wire' = Append(<<>>, "RESUMED")
    BY <1>2
  <2>3. wire' \in Seq(Events) /\ Whole(wire')
    BY <2>2, EmptyReadings, AppendRunEvent
  <2>4. Unread' = Append(n, "RESUMED")
    BY <1>2, <2>1, ConcatEmpty DEF Unread, n
  <2>5. /\ ~LastIs(Append(n, "RESUMED"), "STOPPED")
        /\ ~HoldsPark(Append(n, "RESUMED"))
        /\ HasStop(Append(n, "RESUMED")) => HasStop(n)
    BY <2>1, AppendRunEvent
  <2>6. EventsOK'
    BY <1>2, <2>1, <2>3 DEF EventsOK, n
  <2>7. QED
    BY <2>1, <2>4, <2>5, <2>6
<1>3. QED
  BY <1>1, <1>2

LEMMA ExitReadings ==
  ASSUME EventsOK, Exit
  PROVE  /\ EventsOK'
         /\ ~LastIs(Unread', "STOPPED")
         /\ ~HoldsPark(Unread')
         /\ machine /= "running" /\ wire = <<>> => ~HasStop(Unread')
<1>1. Halted(wire) \in Seq(Events) /\ Whole(Halted(wire))
  BY HaltedReadings DEF EventsOK
<1>2. /\ EventsOK'
      /\ ~LastIs(Unread', "STOPPED")
      /\ ~HoldsPark(Unread')
      /\ HasStop(Unread') => HasStop(Halted(wire))
  BY <1>1, ResumedReadings DEF Exit
<1>3. machine /= "running" /\ wire = <<>> => Halted(wire) = <<>>
  BY DEF Halted
<1>4. QED
  BY <1>2, <1>3, EmptyReadings

LEMMA ExecuteUntilReturnReadings ==
  ASSUME EventsOK, ExecuteUntilReturn
  PROVE  EventsOK' /\ ~LastIs(Unread', "STOPPED") /\ ~HoldsPark(Unread')
<1>1. Halted(Unread) \in Seq(Events) /\ Whole(Halted(Unread))
  BY UnreadOK, HaltedReadings
<1>2. QED
  BY <1>1, ResumedReadings DEF ExecuteUntilReturn

LEMMA AdvanceReadings ==
  ASSUME EventsOK, Advance, armed \subseteq Checkpoints
  PROVE  EventsOK' /\ ~LastIs(Unread', "RESUMED")
<1> DEFINE r == Append(Halted(Unread), "RESUMED")
<1>1. r \in Seq(Events)
  BY UnreadOK, HaltedReadings, AppendRunEvent
<1> HIDE DEF r
<1>2. PICK p \in Seq(Events) : events' = Newest(Append(p, "STOPPED")) /\ wire' = <<>>
  <2>1. CASE events' = Newest(Append(r, "STOPPED"))
    BY <1>1, <2>1 DEF Advance
  <2>2. CASE \E c \in armed : events' = Newest(Append(Append(r, c), "STOPPED"))
    <3>1. PICK c \in armed : events' = Newest(Append(Append(r, c), "STOPPED"))
      BY <2>2
    <3>2. Append(r, c) \in Seq(Events)
      BY <1>1, <3>1 DEF Events
    <3>3. QED
      BY <3>1, <3>2 DEF Advance
  <2>3. QED
    BY <2>1, <2>2 DEF Advance, r
<1>3. /\ Append(p, "STOPPED") \in Seq(Events) /\ Whole(Append(p, "STOPPED"))
      /\ ~LastIs(Append(p, "STOPPED"), "RESUMED")
  BY AppendRunEvent
<1>4. QED
  BY <1>2, <1>3, KeepReadings

\* wait_for_stop's read: what is left is the newer part of what was there.
LEMMA BatchReadings ==
  ASSUME EventsOK, TakeBatch
  PROVE  /\ EventsOK'
         /\ \A f \in {"STOPPED", "RESUMED"} : LastIs(Unread', f) => LastIs(Unread, f)
         /\ HoldsPark(Unread') => HoldsPark(Unread)
         /\ HasStop(Unread') \/ HasStop(Batch) => HasStop(Unread)
         /\ ~HasStop(Batch) /\ EndsInHit(Unread) => EndsInHit(Unread')
<1>1. CASE events = <<>>
  <2>1. Unread' = <<>> /\ Batch = wire /\ Unread = wire /\ events' = <<>> /\ wire' = <<>>
    BY <1>1, ConcatEmpty, EmptyReadings DEF Unread, Batch, TakeBatch, EventsOK
  <2>2. EndsInHit(wire) => HasStop(wire)
    BY DEF EndsInHit, HasStop, EventsOK
  <2>3. QED
    BY <2>1, <2>2, EmptyReadings DEF EventsOK
<1>2. CASE events /= <<>>
  <2>1. Unread' = wire /\ Batch = events /\ events' = <<>> /\ wire' = wire
    BY <1>2, ConcatEmpty, EmptyReadings DEF Unread, Batch, TakeBatch, EventsOK
  <2>2. QED
    BY <2>1, TailReadings, EmptyReadings DEF EventsOK, Unread
<1>3. QED
  BY <1>1, <1>2

LEMMA HitReadings ==
  ASSUME EventsOK, NEW c \in Checkpoints, Hit(c)
  PROVE  EventsOK' /\ ~LastIs(Unread', "RESUMED") /\ EndsInHit(Unread')
<1> DEFINE w == Append(wire, c)
           u == Append(Unread, c)
<1>1. w \in Seq(Events) /\ u \in Seq(Events) /\ Unread \in Seq(Events)
  BY UnreadOK DEF EventsOK, Events
<1>2. wire' = Append(w, "STOPPED") /\ events' = events
  BY DEF Hit
<1>3. Unread' = Append(u, "STOPPED")
  <2>1. events \o w = u
    BY AppendToWire DEF EventsOK, Unread, Events
  <2>2. events \o Append(w, "STOPPED") = Append(events \o w, "STOPPED")
    BY <1>1, AppendToWire DEF EventsOK, Events
  <2>3. QED
    BY <1>2, <2>1, <2>2 DEF Unread
<1>4. EventsOK'
  BY <1>1, <1>2, AppendRunEvent DEF EventsOK
<1>5. ~LastIs(Append(u, "STOPPED"), "RESUMED")
  BY <1>1, AppendRunEvent
<1>6. EndsInHit(Append(u, "STOPPED"))
  BY <1>1 DEF EndsInHit
<1>7. QED
  BY <1>3, <1>4, <1>5, <1>6

LEMMA ReturnReadings ==
  ASSUME EventsOK, Return
  PROVE  EventsOK' /\ ~LastIs(Unread', "RESUMED")
<1>1. Unread' = Append(Unread, "STOPPED")
  BY AppendToWire DEF Return, EventsOK, Unread, Events
<1>2. QED
  BY <1>1, UnreadOK, AppendRunEvent DEF Return, EventsOK

-----------------------------------------------------------------------------
(* The inductive invariant.                                                  *)

LEMMA IInvInit == Init => IInv
BY EmptyReadings, ConcatEmpty
   DEF Init, LinkInit, IInv, TypeOK, LinkTypeOK, Machine, Parks, Places, Clients, Finishing,
       EventsAreTrue, BeliefIsTrue, WaitIsClean, Unread

LEMMA IInvStep == IInv /\ [Next]_vars => IInv'
<1> SUFFICES ASSUME IInv, [Next]_vars PROVE IInv'
  OBVIOUS
<1> USE DEF IInv, TypeOK, LinkTypeOK, Machine, Parks, Places, Clients, Finishing
<1>e. machine /= "dead" => EventsOK
  BY DEF EventsAreTrue, EventsOK
<1>1. CASE CheckpointFires
  BY <1>1, <1>e, HitReadings
     DEF CheckpointFires, Hit, daemonVars, EventsAreTrue, BeliefIsTrue, WaitIsClean, EventsOK
<1>2. CASE SubroutineReturns
  BY <1>2, <1>e, ReturnReadings
     DEF SubroutineReturns, Return, daemonVars, EventsAreTrue, BeliefIsTrue, WaitIsClean, EventsOK
<1>3. CASE EmulatorDies
  BY <1>3, <1>e
     DEF EmulatorDies, Die, daemonVars, EventsAreTrue, BeliefIsTrue, WaitIsClean, EventsOK
<1>4. CASE Accept
  BY <1>4, <1>e
     DEF Accept, linkVars, Unread, EventsAreTrue, BeliefIsTrue, WaitIsClean, EventsOK
<1>5. CASE Inspect
  BY <1>5, <1>e, CommandReadings
     DEF Inspect, Command, Serving, StaysServing, EventsAreTrue, BeliefIsTrue, WaitIsClean, EventsOK
<1>6. CASE Release
  BY <1>6, <1>e
     DEF Release, Serving, linkVars, Unread, EventsAreTrue, BeliefIsTrue, WaitIsClean, EventsOK
<1>7. CASE Resume
  BY <1>7, <1>e, ExitReadings
     DEF Resume, Exit, Serving, StaysServing, EventsAreTrue, BeliefIsTrue, WaitIsClean, EventsOK
<1>8. CASE Step
  BY <1>8, <1>e, AdvanceReadings
     DEF Step, Advance, Serving, StaysServing, EventsAreTrue, BeliefIsTrue, WaitIsClean, EventsOK
<1>9. CASE Finish
  BY <1>9, <1>e, ExecuteUntilReturnReadings
     DEF Finish, ExecuteUntilReturn, Serving, EventsAreTrue, BeliefIsTrue, WaitIsClean, EventsOK
<1>10. CASE Quit
  BY <1>10, <1>e
     DEF Quit, Die, Serving, EventsAreTrue, BeliefIsTrue, WaitIsClean, EventsOK
<1>11. CASE \E c \in Checkpoints : CheckpointSet(c)
  BY <1>11, <1>e, CommandReadings
     DEF CheckpointSet, Command, Serving, StaysServing, EventsAreTrue, BeliefIsTrue, WaitIsClean, EventsOK
<1>12. CASE \E c \in Checkpoints : CheckpointDelete(c)
  BY <1>12, <1>e, CommandReadings
     DEF CheckpointDelete, Command, Serving, StaysServing, EventsAreTrue, BeliefIsTrue, WaitIsClean, EventsOK
<1>13. CASE BreakList
  BY <1>13, <1>e, CommandReadings
     DEF BreakList, Command, EventsAreTrue, BeliefIsTrue, WaitIsClean, EventsOK
<1>14. CASE BreakResume
  BY <1>14, <1>e, ExitReadings
     DEF BreakResume, Exit, EventsAreTrue, BeliefIsTrue, WaitIsClean, EventsOK
<1>15. CASE BreakWait
  BY <1>15, <1>e
     DEF BreakWait, Serving, linkVars, Unread, EventsAreTrue, BeliefIsTrue, WaitIsClean, EventsOK
<1>16. CASE RequestFails
  BY <1>16, <1>e
     DEF RequestFails, QuitsOnError, linkVars, EventsAreTrue, BeliefIsTrue, WaitIsClean, EventsOK
<1>17. CASE Hangup
  BY <1>17, <1>e
     DEF Hangup, linkVars, Unread, EventsAreTrue, BeliefIsTrue, WaitIsClean, EventsOK
<1>18. CASE Pump
  BY <1>18, <1>e, UnreadOK, KeepReadings
     DEF Pump, PollAndKeep, EventsAreTrue, BeliefIsTrue, WaitIsClean, EventsOK
<1>19. CASE IdleExit
  BY <1>19, <1>e
     DEF IdleExit, linkVars, EventsAreTrue, BeliefIsTrue, WaitIsClean, EventsOK
<1>20. CASE WaitStopped
  BY <1>20, <1>e, BatchReadings
     DEF WaitStopped, TakeBatch, EventsAreTrue, BeliefIsTrue, WaitIsClean, EventsOK
<1>21. CASE WaitQuiet
  BY <1>21, <1>e, BatchReadings
     DEF WaitQuiet, TakeBatch, daemonVars, EventsAreTrue, BeliefIsTrue, WaitIsClean, EventsOK
<1>22. CASE WaitTimeout
  BY <1>22, <1>e
     DEF WaitTimeout, linkVars, Unread, EventsAreTrue, BeliefIsTrue, WaitIsClean, EventsOK
<1>23. CASE WaitFails
  BY <1>23, <1>e
     DEF WaitFails, QuitsOnError, linkVars, EventsAreTrue, BeliefIsTrue, WaitIsClean, EventsOK
<1>24. CASE FinishStopped
  BY <1>24, <1>e, BatchReadings
     DEF FinishStopped, TakeBatch, EventsAreTrue, BeliefIsTrue, WaitIsClean, EventsOK
<1>25. CASE FinishQuiet
  BY <1>25, <1>e, BatchReadings
     DEF FinishQuiet, TakeBatch, daemonVars, EventsAreTrue, BeliefIsTrue, WaitIsClean, EventsOK
<1>26. CASE FinishTimeout
  BY <1>26, <1>e
     DEF FinishTimeout, linkVars, Unread, EventsAreTrue, BeliefIsTrue, WaitIsClean, EventsOK
<1>27. CASE FinishRegisters
  BY <1>27, <1>e, CommandReadings
     DEF FinishRegisters, EventsAreTrue, BeliefIsTrue, WaitIsClean, EventsOK
<1>28. CASE RestorePoll
  BY <1>28, <1>e, UnreadOK, KeepReadings
     DEF RestorePoll, PollAndKeep, EventsAreTrue, BeliefIsTrue, WaitIsClean, EventsOK
<1>29. CASE RestoreExit
  BY <1>29, <1>e, ExitReadings
     DEF RestoreExit, Exit, EventsAreTrue, BeliefIsTrue, WaitIsClean, EventsOK
<1>30. CASE RestoreFails
  BY <1>30, <1>e
     DEF RestoreFails, linkVars, EventsAreTrue, BeliefIsTrue, WaitIsClean, EventsOK
<1>31. CASE UNCHANGED vars
  BY <1>31, <1>e
     DEF vars, linkVars, daemonVars, Unread, EventsAreTrue, BeliefIsTrue, WaitIsClean, EventsOK
<1>q. QED
  BY <1>1, <1>2, <1>3, <1>4, <1>5, <1>6, <1>7, <1>8, <1>9, <1>10, <1>11, <1>12, <1>13, <1>14, <1>15, <1>16, <1>17, <1>18, <1>19, <1>20, <1>21, <1>22, <1>23, <1>24, <1>25, <1>26, <1>27, <1>28, <1>29, <1>30, <1>31
     DEF Next, Vice, Request, Daemon

-----------------------------------------------------------------------------
(* The theorems.                                                             *)

\* Every reachable state satisfies the inductive invariant.
THEOREM Invariance == Spec => []IInv
<1>1. QED
  BY IInvInit, IInvStep, PTL DEF Spec

\* The daemon's fields and the connection keep their types.
THEOREM TypeCorrect == Spec => []TypeOK
<1>1. IInv => TypeOK
  BY DEF IInv
<1>2. QED
  BY <1>1, Invariance, PTL

\* PetDaemon.state is "stopped" only of a machine that a hit, a step or a finish
\* has stopped.
THEOREM StopTruth == Spec => []StopIsTrue
<1>1. IInv => StopIsTrue
  BY DEF IInv, BeliefIsTrue, StopIsTrue
<1>2. QED
  BY <1>1, Invariance, PTL

\* A checkpoint park is known, or its events still are where _restore and the
\* idle pump will find them, whatever was read and dropped meanwhile.
THEOREM ParkMemory == Spec => []ParkIsRemembered
<1>1. IInv => ParkIsRemembered
  <2> SUFFICES ASSUME IInv, machine = "hit", at \notin Finishing, state = "running"
               PROVE  HoldsPark(Unread)
    BY DEF IInv, TypeOK, ParkIsRemembered
  <2>1. EndsInHit(Unread)
    BY DEF IInv, EventsAreTrue
  <2>2. Unread \in Seq(Events)
    BY UnreadOK DEF IInv, EventsAreTrue, TypeOK, LinkTypeOK, EventsOK
  <2>3. Unread[Len(Unread)] /= "RESUMED"
    BY <2>1 DEF EndsInHit
  <2>4. QED
    BY <2>1, <2>2, <2>3 DEF EndsInHit, HoldsPark
<1>2. QED
  BY <1>1, Invariance, PTL

\* No idle session is left halted by an inspection.
THEOREM WedgeFreedom == Spec => []NoWedge
<1>1. IInv => NoWedge
  BY DEF IInv, BeliefIsTrue, NoWedge
<1>2. QED
  BY <1>1, Invariance, PTL

\* A halt the daemon knows of outlives everything but a client's own verb.
THEOREM HaltEndurance == Spec => HaltHolds
<1>1. IInv /\ [Next]_vars
        => [state = "stopped" /\ machine \in Parks /\ machine' = "running"
              => Resume \/ BreakResume \/ Finish]_vars
  <2> SUFFICES ASSUME IInv, Next, state = "stopped", machine \in Parks, machine' = "running"
               PROVE  Resume \/ BreakResume \/ Finish
    OBVIOUS
  <2>1. ~RestoreExit
    BY DEF RestoreExit, IInv, BeliefIsTrue
  <2>2. ~Vice
    BY DEF Vice, CheckpointFires, SubroutineReturns, EmulatorDies, Hit, Return, Die
  <2>3. Daemon => RestoreExit
    BY DEF Daemon, Parks, Pump, PollAndKeep, IdleExit, WaitStopped, WaitQuiet, WaitTimeout,
           WaitFails, QuitsOnError, FinishStopped, FinishQuiet, FinishTimeout,
           FinishRegisters, RestorePoll, RestoreFails, linkVars
  <2>4. Request => Resume \/ BreakResume \/ Finish
    BY DEF Request, Parks, Inspect, Command, Release, Step, Advance, Quit, Die,
           CheckpointSet, CheckpointDelete, BreakList, BreakWait, RequestFails,
           QuitsOnError, linkVars
  <2>5. QED
    BY <2>1, <2>2, <2>3, <2>4 DEF Next, Parks, Accept, Hangup, linkVars
<1>2. QED
  BY <1>1, Invariance, PTL DEF Spec, HaltHolds

\* What _restore finds parked it leaves parked.
THEOREM RestorePreservesPark == Spec => RestoreKeepsPark
<1>1. IInv /\ ParkIsRemembered /\ [Next]_vars
        => [RestorePoll /\ machine = "hit" => state' = "stopped"]_vars
  BY DEF IInv, TypeOK, ParkIsRemembered, RestorePoll, Finishing
<1>2. QED
  BY <1>1, Invariance, ParkMemory, PTL DEF Spec, RestoreKeepsPark

-----------------------------------------------------------------------------
(* The connection keeps its types, and a dead emulator stays dead.           *)

LEMMA NewestTyped ==
  ASSUME NEW s \in Seq(Events)
  PROVE  Newest(s) \in Seq(Events)
BY NewestReadings

LEMMA UnreadTyped ==
  ASSUME LinkTypeOK
  PROVE  /\ Unread \in Seq(Events) /\ Newest(Unread) \in Seq(Events)
         /\ Halted(Unread) \in Seq(Events) /\ Newest(Halted(Unread)) \in Seq(Events)
<1>1. Unread \in Seq(Events)
  BY DEF LinkTypeOK, Unread
<1>2. QED
  BY <1>1, HaltedReadings, NewestTyped

LEMMA CommandTyped ==
  ASSUME LinkTypeOK, Command, armed' \subseteq Checkpoints
  PROVE  LinkTypeOK' /\ machine /= "dead"
<1>1. /\ events' \in Seq(Events) /\ wire' \in Seq(Events)
  BY UnreadTyped, EmptyReadings DEF Command
<1>2. QED
  BY <1>1 DEF LinkTypeOK, Command, Machine, Parks

LEMMA ResumedTyped ==
  ASSUME NEW s \in Seq(Events),
         \/ events' = Newest(Append(s, "RESUMED")) /\ wire' = <<>>
         \/ events' = Newest(s) /\ wire' = <<"RESUMED">>
  PROVE  events' \in Seq(Events) /\ wire' \in Seq(Events)
<1>1. Append(s, "RESUMED") \in Seq(Events) /\ <<"RESUMED">> \in Seq(Events)
  BY AppendRunEvent DEF Events
<1>2. QED
  BY <1>1, NewestTyped, EmptyReadings

LEMMA ExitTyped ==
  ASSUME LinkTypeOK, Exit
  PROVE  LinkTypeOK' /\ machine /= "dead"
<1>1. Halted(wire) \in Seq(Events)
  BY HaltedReadings DEF LinkTypeOK
<1>2. events' \in Seq(Events) /\ wire' \in Seq(Events)
  BY <1>1, ResumedTyped DEF Exit
<1>3. QED
  BY <1>2 DEF LinkTypeOK, Exit, Machine

LEMMA FinishTyped ==
  ASSUME LinkTypeOK, ExecuteUntilReturn
  PROVE  LinkTypeOK' /\ machine /= "dead"
<1>1. events' \in Seq(Events) /\ wire' \in Seq(Events)
  BY UnreadTyped, ResumedTyped DEF ExecuteUntilReturn
<1>2. QED
  BY <1>1 DEF LinkTypeOK, ExecuteUntilReturn, Machine

LEMMA AdvanceTyped ==
  ASSUME LinkTypeOK, Advance
  PROVE  LinkTypeOK' /\ machine /= "dead"
<1> DEFINE r == Append(Halted(Unread), "RESUMED")
<1>1. r \in Seq(Events)
  BY UnreadTyped, AppendRunEvent
<1>2. Append(r, "STOPPED") \in Seq(Events)
  BY <1>1, AppendRunEvent
<1>3. \A c \in armed : Append(Append(r, c), "STOPPED") \in Seq(Events)
  <2> SUFFICES ASSUME NEW c \in armed
               PROVE  Append(Append(r, c), "STOPPED") \in Seq(Events)
    OBVIOUS
  <2>1. c \in Events
    BY DEF LinkTypeOK, Events
  <2> HIDE DEF r
  <2>2. Append(r, c) \in Seq(Events)
    BY <1>1, <2>1
  <2>3. QED
    BY <2>2, AppendRunEvent
<1>4. events' \in Seq(Events)
  BY <1>2, <1>3, NewestTyped DEF Advance
<1>5. QED
  BY <1>4, EmptyReadings DEF LinkTypeOK, Advance, Machine, Parks

LEMMA BatchTyped ==
  ASSUME LinkTypeOK, TakeBatch, UNCHANGED <<machine, armed>>
  PROVE  LinkTypeOK'
BY EmptyReadings DEF LinkTypeOK, TakeBatch

LEMMA KeepTyped ==
  ASSUME LinkTypeOK, PollAndKeep, UNCHANGED <<machine, armed>>
  PROVE  LinkTypeOK'
BY UnreadTyped, EmptyReadings DEF LinkTypeOK, PollAndKeep

LEMMA HitTyped ==
  ASSUME LinkTypeOK, NEW c \in Checkpoints, Hit(c)
  PROVE  LinkTypeOK' /\ machine = "running" /\ c \in armed
<1>1. Append(wire, c) \in Seq(Events)
  BY DEF LinkTypeOK, Events
<1>2. wire' \in Seq(Events)
  BY <1>1, AppendRunEvent DEF Hit
<1>3. QED
  BY <1>2 DEF LinkTypeOK, Hit, Machine, Parks

\* Each step of the daemon, a client or VICE outside a run_until.
LEMMA OtherStep ==
  ASSUME TypeOK, Next
  PROVE  TypeOK' /\ (machine = "dead" => machine' = "dead")
<1> USE DEF TypeOK, Places, Clients, Finishing
<1>1. CASE CheckpointFires
  BY <1>1, HitTyped DEF CheckpointFires, daemonVars
<1>2. CASE SubroutineReturns
  <2>1. wire' \in Seq(Events)
    BY <1>2, AppendRunEvent DEF SubroutineReturns, Return, LinkTypeOK
  <2>2. QED
    BY <1>2, <2>1 DEF SubroutineReturns, Return, daemonVars, LinkTypeOK, Machine, Parks
<1>3. CASE EmulatorDies
  BY <1>3 DEF EmulatorDies, Die, daemonVars, LinkTypeOK, Machine
<1>4. CASE Accept
  BY <1>4 DEF Accept, linkVars, LinkTypeOK
<1>5. CASE Inspect
  BY <1>5, CommandTyped DEF Inspect, StaysServing, LinkTypeOK
<1>6. CASE Release \/ BreakWait \/ Hangup
  BY <1>6 DEF Release, BreakWait, Hangup, linkVars, LinkTypeOK
<1>7. CASE Resume
  BY <1>7, ExitTyped DEF Resume, StaysServing
<1>8. CASE Step
  BY <1>8, AdvanceTyped DEF Step, StaysServing
<1>9. CASE Finish
  BY <1>9, FinishTyped DEF Finish
<1>10. CASE Quit
  BY <1>10 DEF Quit, Die, LinkTypeOK, Machine
<1>11. CASE \E c \in Checkpoints : CheckpointSet(c) \/ CheckpointDelete(c)
  <2>1. Command /\ armed' \subseteq Checkpoints
    BY <1>11 DEF CheckpointSet, CheckpointDelete, LinkTypeOK
  <2>2. QED
    BY <1>11, <2>1, CommandTyped DEF CheckpointSet, CheckpointDelete, StaysServing
<1>12. CASE BreakList
  BY <1>12, CommandTyped DEF BreakList, LinkTypeOK
<1>13. CASE BreakResume
  BY <1>13, ExitTyped DEF BreakResume
<1>14. CASE RequestFails \/ WaitFails
  BY <1>14 DEF RequestFails, WaitFails, QuitsOnError, linkVars, LinkTypeOK
<1>15. CASE Pump
  BY <1>15, KeepTyped DEF Pump
<1>16. CASE IdleExit \/ WaitTimeout \/ FinishTimeout \/ RestoreFails
  BY <1>16 DEF IdleExit, WaitTimeout, FinishTimeout, RestoreFails, linkVars, LinkTypeOK
<1>17. CASE WaitStopped
  BY <1>17, BatchTyped DEF WaitStopped
<1>18. CASE WaitQuiet \/ FinishStopped \/ FinishQuiet
  BY <1>18, BatchTyped DEF WaitQuiet, FinishStopped, FinishQuiet, daemonVars
<1>19. CASE FinishRegisters
  BY <1>19, UnreadTyped, EmptyReadings DEF FinishRegisters, LinkTypeOK, Machine, Parks
<1>20. CASE RestorePoll
  BY <1>20, KeepTyped DEF RestorePoll
<1>21. CASE RestoreExit
  BY <1>21, ExitTyped DEF RestoreExit
<1>22. QED
  BY <1>1, <1>2, <1>3, <1>4, <1>5, <1>6, <1>7, <1>8, <1>9, <1>10, <1>11, <1>12, <1>13,
     <1>14, <1>15, <1>16, <1>17, <1>18, <1>19, <1>20, <1>21
     DEF Next, Vice, Request, Daemon
-----------------------------------------------------------------------------
(* Which events name the loop's checkpoint.                                  *)

Names(s, c) == \E i \in 1..Len(s) : s[i] = c

LEMMA NatMin ==
  ASSUME NEW T, T \subseteq Nat, T /= {}
  PROVE  \E x \in T : \A y \in T : x <= y
<1>1. PICK x \in T : \A y \in T : ~(<<y, x>> \in OpToRel(<, Nat))
  BY WFMin, NatLessThanWellFounded
<1>2. \A y \in T : ~(y < x)
  BY <1>1 DEF OpToRel
<1>3. QED
  BY <1>2

LEMMA BoundedMax ==
  ASSUME NEW n \in Nat, NEW T, T \subseteq 1..n, T /= {}
  PROVE  \E x \in T : \A y \in T : y <= x
<1> DEFINE D == {n - x : x \in T}
<1>1. D \subseteq Nat /\ D /= {}
  <2>1. \A x \in T : n - x \in Nat
    OBVIOUS
  <2>2. PICK x \in T : TRUE
    OBVIOUS
  <2>3. n - x \in D
    BY <2>2
  <2>4. QED
    BY <2>1, <2>3
<1>2. PICK d \in D : \A e \in D : d <= e
  BY <1>1, NatMin
<1>3. PICK x \in T : d = n - x
  BY <1>2
<1>4. \A y \in T : n - x <= n - y
  BY <1>2, <1>3
<1>5. QED
  BY <1>4

\* wait_for_stop names a checkpoint only if it is among the events it read.
LEMMA StopInfoNames ==
  ASSUME NEW s \in Seq(Events), HasStop(s), NEW c \in Checkpoints, StopInfo(s) = c
  PROVE  Names(s, c)
<1> DEFINE stops == {k \in 1..Len(s) : s[k] = "STOPPED"}
           first == CHOOSE k \in 1..Len(s) :
                      s[k] = "STOPPED" /\ \A j \in 1..k-1 : s[j] /= "STOPPED"
           hits  == {i \in 1..first : s[i] \in Checkpoints}
<1>1. first \in 1..Len(s)
  <2>1. stops \subseteq Nat /\ stops /= {}
    BY DEF HasStop
  <2>2. PICK k \in stops : \A j \in stops : k <= j
    BY <2>1, NatMin
  <2>3. k \in 1..Len(s) /\ s[k] = "STOPPED" /\ \A j \in 1..k-1 : s[j] /= "STOPPED"
    BY <2>2
  <2>4. QED
    BY <2>3
<1> HIDE DEF first
<1>2. hits /= {}
  BY CheckpointsAssumption DEF StopInfo, first
<1>3. PICK x \in hits : \A y \in hits : y <= x
  <2>1. first \in Nat /\ hits \subseteq 1..first
    BY <1>1
  <2> HIDE DEF hits
  <2>2. QED
    BY <1>2, <2>1, BoundedMax
<1>4. (CHOOSE i \in hits : \A j \in hits : j <= i) \in hits
  BY <1>3
<1>5. s[CHOOSE i \in hits : \A j \in hits : j <= i] = c
  BY <1>2 DEF StopInfo, first
<1>6. QED
  BY <1>1, <1>4, <1>5 DEF Names

LEMMA NamesNewest ==
  ASSUME NEW s \in Seq(Events), NEW c, Names(Newest(s), c)
  PROVE  Names(s, c)
<1>1. CASE Len(s) <= MaxEvents
  BY <1>1 DEF Newest
<1>2. CASE ~(Len(s) <= MaxEvents)
  <2> DEFINE n == Len(s) - MaxEvents
  <2>1. n \in 0..Len(s) /\ Newest(s) = SubSeq(s, n + 1, Len(s))
    BY <1>2, MaxEventsAssumption DEF Newest
  <2>2. \A i \in 1..Len(Newest(s)) : n + i \in 1..Len(s) /\ Newest(s)[i] = s[n + i]
    BY <2>1
  <2>3. QED
    BY <2>2 DEF Names
<1>3. QED
  BY <1>1, <1>2

\* An EXIT on a halted machine whose events have all been read leaves none.
LEMMA ExitNames ==
  ASSUME Exit, machine /= "running", wire = <<>>, NEW c \in Checkpoints
  PROVE  ~Names(events', c) /\ ~Names(wire', c)
<1> DEFINE r == <<"RESUMED">>
<1>1. /\ <<>> \in Seq(Events) /\ r \in Seq(Events)
      /\ ~Names(<<>>, c) /\ ~Names(r, c)
  BY CheckpointsAssumption DEF Names, Events
<1>2. Halted(wire) = <<>> /\ Append(Halted(wire), "RESUMED") = r
  BY DEF Halted
<1>3. /\ events' \in {Newest(<<>>), Newest(r)}
      /\ wire' \in {<<>>, r}
  BY <1>2 DEF Exit
<1>4. QED
  BY <1>1, <1>3, NamesNewest

-----------------------------------------------------------------------------
(* The inductive invariant.                                                  *)

\* LoopInv in the words of Names.
LEMMA LoopInvNames ==
  LoopInv <=>
    /\ LoopTypeOK
    /\ at \in Looping => client \in {"free", "none"} /\ outcome = "none"
    /\ machine /= "dead" /\ at \notin Looping \ {"expired"}
         => Target \notin armed \/ outcome = "failed"
    /\ machine /= "dead" /\ at \in Halting => machine /= "running" /\ wire = <<>>
    /\ at \in Looping \ {"expired", "final registers", "final delete"} => reached < Count
    /\ at \in Halting => hitCount = reached
    /\ at \in {"deadline", "slice", "list", "look"} =>
         \/ hitCount = reached
         \/ hitCount = reached + 1 /\ machine \in {"hit", "dead"}
    /\ at \in {"deadline", "slice", "look"} =>
         /\ ~Names(events, Target)
         /\ Names(wire, Target) => hitCount = reached + 1
    /\ at \in {"final registers", "final delete"} =>
         reached = Count /\ hitCount = Count /\ (machine /= "dead" => machine = "hit")
BY DEF LoopInv, Names

\* The same of the next state.
LEMMA InvOfNames ==
  ASSUME LoopTypeOK',
         at' \in Looping => client' \in {"free", "none"} /\ outcome' = "none",
         machine' /= "dead" /\ at' \notin Looping \ {"expired"}
           => Target \notin armed' \/ outcome' = "failed",
         machine' /= "dead" /\ at' \in Halting => machine' /= "running" /\ wire' = <<>>,
         at' \in Looping \ {"expired", "final registers", "final delete"} => reached' < Count,
         at' \in Halting => hitCount' = reached',
         at' \in {"deadline", "slice", "list", "look"} =>
           \/ hitCount' = reached'
           \/ hitCount' = reached' + 1 /\ machine' \in {"hit", "dead"},
         at' \in {"deadline", "slice", "look"} =>
           /\ ~Names(events', Target)
           /\ Names(wire', Target) => hitCount' = reached' + 1,
         at' \in {"final registers", "final delete"} =>
           /\ reached' = Count /\ hitCount' = Count
           /\ machine' /= "dead" => machine' = "hit"
  PROVE  LoopInv'
BY DEF LoopInv, Names

LEMMA LoopInvInit == LoopInit => LoopInv
<1> SUFFICES ASSUME LoopInit PROVE LoopInv
  OBVIOUS
<1>1. LinkTypeOK
  BY EmptyReadings DEF LoopInit, Init, LinkInit, LinkTypeOK, Machine
<1>2. QED
  BY <1>1, LoopInvNames, CountAssumption
     DEF LoopInit, Init, LinkInit, LoopTypeOK, Places, Looping, Halting, Clients

\* A checkpoint fires, in the loop or outside of it.
LEMMA FiresStep ==
  ASSUME LoopInv, Fires
  PROVE  LoopInv'
<1>1. PICK c \in Checkpoints :
        /\ Hit(c)
        /\ hitCount' = IF c = Target /\ at \in Looping THEN hitCount + 1 ELSE hitCount
  BY DEF Fires
<1>2. LinkTypeOK' /\ machine = "running" /\ c \in armed /\ machine' = "hit"
  BY <1>1, HitTyped DEF LoopInv, LoopTypeOK, Hit
<1>3. UNCHANGED <<state, at, caller, client, reached, outcome, events, armed>>
  BY <1>1 DEF Fires, daemonVars, Hit
<1>4. /\ wire \in Seq(Events) /\ wire' = Append(Append(wire, c), "STOPPED")
      /\ c \in Events /\ Target \notin {"STOPPED"}
  BY <1>1, TargetAssumption, CheckpointsAssumption
     DEF Hit, LoopInv, LoopTypeOK, LinkTypeOK, Events
<1>5. Names(wire', Target) => Names(wire, Target) \/ c = Target
  BY <1>4 DEF Names
<1>6. at \notin Halting \cup {"final registers", "final delete"}
  BY <1>2, LoopInvNames
<1>7. c = Target /\ at \in Looping => at /= "expired" /\ hitCount = reached
  BY <1>2, <1>6, LoopInvNames DEF Looping, Halting
<1>8. /\ reached \in 0..Count /\ hitCount \in 0..Count /\ hitCount' \in 0..Count
  <2>1. Count \in Nat /\ reached \in 0..Count /\ hitCount \in 0..Count
    BY CountAssumption, LoopInvNames DEF LoopTypeOK
  <2>2. c = Target /\ at \in Looping => reached < Count
    BY <1>6, <1>7, LoopInvNames
  <2>3. QED
    BY <1>1, <1>7, <2>1, <2>2
<1>9. Names(wire, Target) => ~(at \in {"deadline", "slice", "look"})
  <2> SUFFICES ASSUME Names(wire, Target), at \in {"deadline", "slice", "look"} PROVE FALSE
    OBVIOUS
  <2>1. hitCount = reached + 1
    BY LoopInvNames
  <2>2. hitCount = reached
    BY <1>2, LoopInvNames
  <2>3. reached \in Int
    BY <1>8, CountAssumption
  <2>4. QED
    BY <2>1, <2>2, <2>3
<1>10. LoopTypeOK'
  BY <1>2, <1>3, <1>8 DEF LoopInv, LoopTypeOK
<1>11. Names(events, Target) <=> Names(events', Target)
  BY <1>3
<1>12. machine' /= "dead" /\ at' \notin Looping \ {"expired"}
         => Target \notin armed' \/ outcome' = "failed"
  BY <1>2, <1>3, LoopInvNames
<1>13. CASE at \notin Looping
  BY <1>3, <1>10, <1>12, <1>13, InvOfNames DEF Looping, Halting
<1>14. CASE at \in Looping
  <2>1. at' \in Looping /\ client' \in {"free", "none"} /\ outcome' = "none"
    BY <1>3, <1>14, LoopInvNames
  <2>2. c = Target => hitCount' = reached' + 1
    BY <1>1, <1>3, <1>7, <1>14
  <2>3. c /= Target => hitCount' = hitCount
    BY <1>1
  <2>4. at \in {"deadline", "slice", "list", "look"} => hitCount = reached
    BY <1>2, LoopInvNames
  <2>5. at' \in Looping \ {"expired", "final registers", "final delete"} => reached' < Count
    BY <1>3, LoopInvNames
  <2>6. QED
    BY <1>2, <1>3, <1>5, <1>6, <1>9, <1>10, <1>11, <1>12, <2>1, <2>2, <2>3, <2>4, <2>5,
       LoopInvNames, InvOfNames
<1>15. QED
  BY <1>13, <1>14

\* run_until's EXIT, before a slice or after a list.
LEMMA ResumeStep ==
  ASSUME LoopInv, LoopResume \/ LoopAgain
  PROVE  LoopInv'
<1>1. /\ at \in Halting /\ Exit /\ UNCHANGED <<caller, client, reached, hitCount, outcome>>
      /\ at' \in {"deadline", "look"} /\ state' \in {state, "running"}
  BY DEF LoopResume, LoopAgain, loopVars, Halting
<1>2. LinkTypeOK' /\ machine /= "dead" /\ machine' = "running"
  BY <1>1, ExitTyped DEF LoopInv, LoopTypeOK, Exit
<1>3. machine /= "running" /\ wire = <<>>
  BY <1>1, <1>2, LoopInvNames
<1>4. ~Names(events', Target) /\ ~Names(wire', Target)
  BY <1>1, <1>3, ExitNames, TargetAssumption
<1>5. /\ LoopTypeOK /\ reached < Count /\ hitCount = reached
      /\ client \in {"free", "none"} /\ outcome = "none"
  BY <1>1, LoopInvNames DEF Looping, Halting
<1>6. LoopTypeOK'
  BY <1>1, <1>2, <1>5 DEF LoopTypeOK, Looping
<1>7. QED
  BY <1>1, <1>2, <1>4, <1>5, <1>6, InvOfNames DEF Looping, Halting

\* What a request that is answered leaves.
LEMMA CommandLeaves ==
  ASSUME LoopInv, Command, armed' \subseteq armed \cup {Target}
  PROVE  /\ LinkTypeOK' /\ machine /= "dead" /\ wire' = <<>>
         /\ machine' \notin {"running", "dead"}
         /\ machine = "hit" => machine' = "hit"
         /\ ~Names(wire', Target)
<1>1. armed' \subseteq Checkpoints /\ LinkTypeOK
  BY TargetAssumption DEF LoopInv, LoopTypeOK, LinkTypeOK
<1>2. LinkTypeOK' /\ machine /= "dead"
  BY <1>1, CommandTyped
<1>3. QED
  BY <1>2 DEF Command, Names

\* Arming is a request like the others, whatever number VICE gives.
LEMMA ArmTargetLeaves ==
  ASSUME LoopInv, ArmTarget
  PROVE  LinkTypeOK' /\ machine' /= "running" /\ wire' = <<>>
<1>1. Command /\ armed' \subseteq Checkpoints
  <2>1. PICK c \in IF Target \in armed THEN Checkpoints \ {Target} ELSE {Target} :
          armed' = armed \cup {Target, c}
    BY DEF ArmTarget
  <2>2. c \in Checkpoints
    BY <2>1, TargetAssumption
  <2>3. armed \subseteq Checkpoints
    BY DEF LoopInv, LoopTypeOK, LinkTypeOK
  <2>4. QED
    BY <2>1, <2>2, <2>3, TargetAssumption DEF ArmTarget
<1>2. LinkTypeOK
  BY DEF LoopInv, LoopTypeOK
<1>3. LinkTypeOK' /\ machine /= "dead"
  BY <1>1, <1>2, CommandTyped
<1>4. QED
  BY <1>1, <1>3 DEF Command

\* The checkpoint is set and the counts begin.
LEMMA RunUntilStep ==
  ASSUME LoopInv, RunUntil
  PROVE  LoopInv'
<1>1. /\ LinkTypeOK' /\ machine' /= "running" /\ wire' = <<>>
  BY ArmTargetLeaves DEF RunUntil
<1>2. /\ at' = "resume" /\ reached' = 0 /\ hitCount' = 0 /\ outcome' = "none"
      /\ UNCHANGED <<state, caller, client>> /\ client = "free"
  BY DEF RunUntil, Serving
<1>a. LoopTypeOK
  BY DEF LoopInv
<1>b. 0 \in 0..Count
  BY CountAssumption
<1>3. LoopTypeOK'
  BY <1>1, <1>2, <1>a, <1>b DEF LoopTypeOK, Looping
<1>4. QED
  BY <1>1, <1>2, <1>3, CountAssumption, InvOfNames DEF Looping, Halting

\* An arrival noticed by its event or by the hit count.
LEMMA ArrivedStep ==
  ASSUME LoopInv, Arrived, at \in {"slice", "list"}, LinkTypeOK',
         hitCount = reached + 1, wire' = <<>>,
         machine' /= "dead" => machine' = "hit",
         UNCHANGED <<state, caller, client, hitCount, outcome>>
  PROVE  LoopInv'
<1>1. /\ Count \in Nat /\ reached \in 0..Count /\ reached < Count
      /\ LoopTypeOK /\ client \in {"free", "none"} /\ outcome = "none"
  BY CountAssumption, LoopInvNames DEF LoopTypeOK, Looping
<1>2. /\ reached' = reached + 1
      /\ at' = IF reached + 1 = Count THEN "final registers" ELSE "resume"
  BY DEF Arrived
<1>a. hitCount' = reached'
  BY <1>2
<1>b. reached + 1 \in 0..Count
  BY <1>1
<1>3. reached' \in 0..Count /\ hitCount' = reached'
  BY <1>2, <1>a, <1>b
<1>4. LoopTypeOK'
  BY <1>1, <1>2, <1>3 DEF LoopTypeOK, Looping
<1>5. at' = "resume" => reached' < Count
  BY <1>1, <1>2
<1>6. at' = "final registers" => reached' = Count
  BY <1>2
<1>7. QED
  BY <1>1, <1>2, <1>3, <1>4, <1>5, <1>6, InvOfNames DEF Looping, Halting

\* A wait that has read a stop.
LEMMA SliceStoppedStep ==
  ASSUME LoopInv, SliceStopped
  PROVE  LoopInv'
<1>1. /\ at = "slice" /\ HasStop(Batch) /\ TakeBatch
      /\ UNCHANGED <<machine, armed, state, caller, client, hitCount, outcome>>
  BY DEF SliceStopped
<1>2. LinkTypeOK /\ LoopTypeOK /\ LinkTypeOK'
  BY <1>1, BatchTyped DEF LoopInv, LoopTypeOK
<1>3. CASE StopInfo(Batch) = Target /\ Arrived
  <2>1. Batch \in Seq(Events)
    BY <1>2 DEF Batch, LinkTypeOK
  <2>2. Names(Batch, Target)
    BY <1>1, <1>3, <2>1, StopInfoNames, TargetAssumption
  <2>3. ~Names(events, Target)
    BY <1>1, LoopInvNames
  <2>4. events = <<>> /\ Names(wire, Target)
    BY <2>2, <2>3 DEF Batch
  <2>5. hitCount = reached + 1
    BY <1>1, <2>4, LoopInvNames
  <2>6. machine \in {"hit", "dead"}
    BY <1>1, <1>2, <2>5, LoopInvNames, CountAssumption DEF LoopTypeOK
  <2>7. wire' = <<>>
    BY <1>1, <2>4 DEF TakeBatch
  <2>8. QED
    BY <1>1, <1>2, <1>3, <2>5, <2>6, <2>7, ArrivedStep
<1>4. CASE at' = "list" /\ UNCHANGED reached
  <2>1. LoopTypeOK'
    BY <1>1, <1>2, <1>4 DEF LoopTypeOK, Looping
  <2>2. QED
    BY <1>1, <1>4, <2>1, LoopInvNames, InvOfNames DEF Looping, Halting
<1>5. QED
  BY <1>3, <1>4 DEF SliceStopped

\* The other steps of the loop that ask VICE for nothing.
LEMMA QuietStep ==
  ASSUME LoopInv, SliceBegins \/ SliceQuiet \/ SliceOver \/ ClientStays \/ Vanish
  PROVE  LoopInv'
<1>1. LoopTypeOK
  BY DEF LoopInv
<1>2. CASE SliceBegins \/ SliceOver \/ ClientStays
  <2>1. /\ UNCHANGED <<machine, wire, events, armed, state, caller, client, reached, hitCount,
                        outcome>>
        /\ at \in {"deadline", "slice", "look"} /\ at' \in {"deadline", "slice", "list"}
    BY <1>2 DEF SliceBegins, SliceOver, ClientStays, linkVars, loopVars
  <2>2. LoopTypeOK'
    BY <1>1, <2>1 DEF LoopTypeOK, LinkTypeOK, Looping
  <2>3. QED
    BY <2>1, <2>2, LoopInvNames, InvOfNames DEF Looping, Halting
<1>3. CASE SliceQuiet
  <2>1. /\ at = "slice" /\ TakeBatch
        /\ UNCHANGED <<machine, armed, state, at, caller, client, reached, hitCount, outcome>>
    BY <1>3 DEF SliceQuiet, daemonVars, loopVars
  <2>2. LinkTypeOK'
    BY <1>1, <2>1, BatchTyped DEF LoopTypeOK
  <2>3. LoopTypeOK'
    BY <1>1, <2>1, <2>2 DEF LoopTypeOK
  <2>4. ~Names(events', Target) /\ (Names(wire', Target) => Names(wire, Target))
    BY <2>1 DEF TakeBatch, Names
  <2>5. QED
    BY <2>1, <2>3, <2>4, LoopInvNames, InvOfNames DEF Looping, Halting
<1>4. CASE Vanish
  <2>1. /\ UNCHANGED <<machine, wire, events, armed, state, at, caller, reached, hitCount,
                        outcome>>
        /\ client' = "none"
    BY <1>4 DEF Vanish, linkVars, loopVars
  <2>2. LoopTypeOK'
    BY <1>1, <2>1 DEF LoopTypeOK, LinkTypeOK, Clients
  <2>3. QED
    BY <2>1, <2>2, LoopInvNames, InvOfNames
<1>5. QED
  BY <1>2, <1>3, <1>4

\* The list, which may tell of an arrival whose events are gone.
LEMMA ListStep ==
  ASSUME LoopInv, LoopList
  PROVE  LoopInv'
<1>1. /\ at = "list" /\ Command
      /\ UNCHANGED <<armed, state, caller, client, hitCount, outcome>>
  BY DEF LoopList
<1>2. /\ LinkTypeOK' /\ machine /= "dead" /\ wire' = <<>>
      /\ machine' \notin {"running", "dead"} /\ (machine = "hit" => machine' = "hit")
  BY <1>1, CommandLeaves
<1>a. LoopTypeOK
  BY DEF LoopInv
<1>3. LoopTypeOK /\ reached \in Nat /\ hitCount \in Nat
  BY <1>a, CountAssumption DEF LoopTypeOK
<1>4. hitCount = reached \/ (hitCount = reached + 1 /\ machine = "hit")
  BY <1>1, <1>2, LoopInvNames
<1>5. CASE hitCount > reached /\ Arrived
  <2>1. hitCount = reached + 1 /\ machine' = "hit"
    BY <1>2, <1>3, <1>4, <1>5
  <2>2. QED
    BY <1>1, <1>2, <1>5, <2>1, ArrivedStep
<1>6. CASE ~(hitCount > reached) /\ at' = "again" /\ UNCHANGED reached
  <2>1. hitCount' = reached'
    BY <1>1, <1>3, <1>4, <1>6
  <2>2. LoopTypeOK'
    BY <1>1, <1>2, <1>3, <1>6 DEF LoopTypeOK, Looping
  <2>3. reached < Count /\ client \in {"free", "none"} /\ outcome = "none"
    BY <1>1, LoopInvNames DEF Looping
  <2>4. QED
    BY <1>1, <1>2, <1>6, <2>1, <2>2, <2>3, InvOfNames DEF Looping, Halting
<1>7. QED
  BY <1>5, <1>6 DEF LoopList

\* The ways out, each with its delete, and the registers before one of them.
LEMMA WayOutStep ==
  ASSUME LoopInv, ClientGone \/ Expire \/ ExpiredResume \/ FinalRegisters \/ FinalDelete
  PROVE  LoopInv'
<1>1. LoopTypeOK
  BY DEF LoopInv
<1>2. CASE ClientGone \/ Expire \/ FinalDelete
  <2>1. /\ Command /\ armed' = armed \ {Target} /\ at' \in {"serve", "expired"}
        /\ state' \in {state, "stopped"} /\ UNCHANGED <<caller, client, reached, hitCount>>
        /\ outcome' \in {outcome, "gone", "reached"} /\ at \in Looping
        /\ at' = "expired" => outcome' = outcome
    BY <1>2 DEF ClientGone, Expire, FinalDelete, DeleteTarget, loopVars, Looping
  <2>2. LinkTypeOK' /\ Target \notin armed'
    BY <2>1, CommandLeaves
  <2>3. LoopTypeOK'
    BY <1>1, <2>1, <2>2 DEF LoopTypeOK, Looping, Places
  <2>4. QED
    BY <2>1, <2>2, <2>3, LoopInvNames, InvOfNames DEF Looping, Halting
<1>3. CASE ExpiredResume
  <2>1. /\ at = "expired" /\ Exit /\ UNCHANGED <<armed, caller, client, reached, hitCount>>
        /\ at' = "serve" /\ state' = "running" /\ outcome' = "timeout"
    BY <1>3 DEF ExpiredResume, Exit
  <2>2. LinkTypeOK' /\ machine /= "dead"
    BY <1>1, <2>1, ExitTyped DEF LoopTypeOK
  <2>3. LoopTypeOK'
    BY <1>1, <2>1, <2>2 DEF LoopTypeOK, Places
  <2>4. Target \notin armed'
    BY <2>1, <2>2, LoopInvNames DEF Looping
  <2>5. QED
    BY <2>1, <2>3, <2>4, InvOfNames DEF Looping, Halting
<1>4. CASE FinalRegisters
  <2>1. /\ at = "final registers" /\ Command /\ at' = "final delete"
        /\ UNCHANGED <<armed, state, caller, client, reached, hitCount, outcome>>
    BY <1>4 DEF FinalRegisters, loopVars
  <2>2. LinkTypeOK' /\ machine /= "dead" /\ (machine = "hit" => machine' = "hit")
    BY <2>1, CommandLeaves
  <2>3. LoopTypeOK'
    BY <1>1, <2>1, <2>2 DEF LoopTypeOK, Looping
  <2>4. QED
    BY <2>1, <2>2, <2>3, LoopInvNames, InvOfNames DEF Looping, Halting
<1>5. QED
  BY <1>2, <1>3, <1>4

LEMMA FailsStep ==
  ASSUME LoopInv, LoopFails
  PROVE  LoopInv'
<1>1. /\ machine' = "dead" /\ at' = "exited" /\ client' = "none"
      /\ UNCHANGED <<machine, wire, events, armed, state, caller, reached, hitCount, outcome>>
  BY DEF LoopFails, QuitsOnError, linkVars, loopVars
<1>2. LoopTypeOK'
  BY <1>1 DEF LoopInv, LoopTypeOK, LinkTypeOK, Places, Clients
<1>3. QED
  BY <1>1, <1>2, InvOfNames DEF Looping, Halting

\* A request without its answer leaves the connection well formed, and the
\* machine there.
LEMMA LostLeaves ==
  ASSUME LoopInv, NotServed \/ HaltOnly \/ DeleteTarget \/ ExitNotServed \/ Exit \/ ArmTarget
  PROVE  LinkTypeOK'
<1>1. LinkTypeOK
  BY DEF LoopInv, LoopTypeOK
<1>2. CASE NotServed
  BY <1>1, <1>2, KeepTyped DEF NotServed
<1>3. CASE HaltOnly \/ DeleteTarget
  <2>1. armed' \subseteq armed
    BY <1>3 DEF HaltOnly, DeleteTarget
  <2>2. QED
    BY <1>3, <2>1, CommandLeaves DEF HaltOnly, DeleteTarget
<1>4. CASE ExitNotServed
  <2>1. events' \in Seq(Events) /\ wire' \in Seq(Events)
    BY <1>1, <1>4, NewestTyped, EmptyReadings DEF ExitNotServed, LinkTypeOK
  <2>2. QED
    BY <1>1, <1>4, <2>1 DEF ExitNotServed, LinkTypeOK
<1>5. CASE Exit
  BY <1>1, <1>5, ExitTyped
<1>6. CASE ArmTarget
  BY <1>6, ArmTargetLeaves
<1>7. QED
  BY <1>2, <1>3, <1>4, <1>5, <1>6

\* run_until ends by what one of its requests raises.
LEMMA NoAnswerStep ==
  ASSUME LoopInv, NoAnswer \/ RunUntilFails
  PROVE  LoopInv'
<1>1. /\ NotServed \/ HaltOnly \/ DeleteTarget \/ ExitNotServed \/ Exit \/ ArmTarget
      /\ at' = "serve" /\ outcome' = "failed"
      /\ UNCHANGED <<state, caller, client>>
      /\ reached' \in {0, reached} /\ hitCount' \in {0, hitCount}
  <2>1. CASE NoAnswer
    BY <2>1 DEF NoAnswer
  <2>2. CASE RunUntilFails
    BY <2>2 DEF RunUntilFails, StaysServing, Serving
  <2>3. QED
    BY <2>1, <2>2
<1>2. LoopTypeOK /\ LinkTypeOK' /\ 0 \in 0..Count
  <2>1. NotServed \/ HaltOnly \/ DeleteTarget \/ ExitNotServed \/ Exit \/ ArmTarget
    BY <1>1
  <2>2. LinkTypeOK'
    BY <2>1, LostLeaves
  <2>3. LoopTypeOK
    BY DEF LoopInv
  <2>4. QED
    BY <2>2, <2>3, CountAssumption
<1>3. LoopTypeOK'
  BY <1>1, <1>2 DEF LoopTypeOK, Places
<1>4. QED
  BY <1>1, <1>3, InvOfNames DEF Looping, Halting

\* The daemon's other steps are taken outside of run_until.
LEMMA OtherPlaces ==
  ASSUME SubroutineReturns \/ Request \/ Hangup \/ Daemon
  PROVE  at \notin Looping
<1>1. CASE SubroutineReturns \/ Hangup
  BY <1>1 DEF SubroutineReturns, Hangup, Finishing, Looping
<1>2. CASE Request
  BY <1>2 DEF Request, Inspect, Release, Resume, Step, Finish, Quit, CheckpointSet,
              CheckpointDelete, BreakList, BreakResume, BreakWait, RequestFails, Serving,
              Looping
<1>3. CASE Daemon
  BY <1>3 DEF Daemon, Pump, IdleExit, WaitStopped, WaitQuiet, WaitTimeout, WaitFails,
              FinishStopped, FinishQuiet, FinishTimeout, FinishRegisters, RestorePoll,
              RestoreExit, RestoreFails, Finishing, Looping
<1>4. QED
  BY <1>1, <1>2, <1>3

\* VICE dies, or the daemon does something else.
LEMMA OtherwiseStep ==
  ASSUME LoopInv, Otherwise
  PROVE  LoopInv'
<1>1. LoopTypeOK /\ LinkTypeOK
  BY DEF LoopInv, LoopTypeOK
<1>2. CASE EmulatorDies /\ UNCHANGED loopVars
  <2>1. /\ machine' = "dead"
        /\ UNCHANGED <<wire, events, armed, state, at, caller, client, reached, hitCount,
                       outcome>>
    BY <1>2 DEF EmulatorDies, Die, daemonVars, loopVars
  <2>2. LoopTypeOK'
    BY <1>1, <2>1 DEF LoopTypeOK, LinkTypeOK, Machine
  <2>3. QED
    BY <2>1, <2>2, LoopInvNames, InvOfNames
<1>3. ASSUME Next, ~EmulatorDies, Target \in armed' => Target \in armed,
             at \notin Looping, reached' \in {0, reached}, hitCount' \in {0, hitCount},
             outcome' \in {"none", outcome}, outcome = "failed" => outcome' = "failed"
      PROVE  LoopInv'
  <2>1. TypeOK
    BY <1>1, <1>3 DEF LoopTypeOK, TypeOK
  <2>2. TypeOK' /\ (machine = "dead" => machine' = "dead")
    BY <1>3, <2>1, OtherStep
  <2>3. at' \notin Looping
    BY <2>2 DEF TypeOK, Places, Finishing, Looping
  <2>4. 0 \in 0..Count
    BY CountAssumption
  <2>5. LoopTypeOK'
    BY <1>1, <1>3, <2>2, <2>4 DEF LoopTypeOK, TypeOK
  <2>6. machine' /= "dead" => Target \notin armed' \/ outcome' = "failed"
    BY <1>3, <2>2, LoopInvNames
  <2>7. QED
    BY <2>3, <2>5, <2>6, InvOfNames DEF Looping, Halting
<1>4. CASE /\ SubroutineReturns \/ Request \/ Hangup \/ Daemon
           /\ Target \in armed' => Target \in armed
           /\ UNCHANGED loopVars
  <2>1. Next /\ UNCHANGED <<reached, hitCount, outcome>>
    BY <1>4 DEF Next, Vice, loopVars
  <2>2. at \notin Looping
    BY <1>4, OtherPlaces
  <2>3. CASE EmulatorDies
    BY <1>2, <1>4, <2>3
  <2>4. QED
    BY <1>3, <1>4, <2>1, <2>2, <2>3
<1>5. CASE /\ Accept /\ reached' = 0 /\ hitCount' = 0
           /\ outcome' = IF outcome = "failed" THEN "failed" ELSE "none"
  <2>1. Next /\ at \notin Looping /\ armed' = armed /\ ~EmulatorDies
    BY <1>5 DEF Next, Accept, linkVars, Looping, EmulatorDies, Die
  <2>2. QED
    BY <1>3, <1>5, <2>1
<1>6. QED
  BY <1>2, <1>4, <1>5 DEF Otherwise

LEMMA LoopInvStep == LoopInv /\ [LoopNext]_allVars => LoopInv'
<1> SUFFICES ASSUME LoopInv, [LoopNext]_allVars PROVE LoopInv'
  OBVIOUS
<1>1. CASE Loop
  BY <1>1, ResumeStep, SliceStoppedStep, QuietStep, ListStep, WayOutStep, FailsStep,
     NoAnswerStep DEF Loop
<1>2. CASE Fires \/ Vanish \/ RunUntil \/ RunUntilFails \/ Otherwise
  BY <1>2, FiresStep, QuietStep, RunUntilStep, NoAnswerStep, OtherwiseStep
<1>3. CASE UNCHANGED allVars
  <2>1. UNCHANGED <<machine, wire, events, armed, state, at, caller, client, reached,
                    hitCount, outcome>>
    BY <1>3 DEF allVars
  <2>2. LoopTypeOK
    BY DEF LoopInv
  <2>3. LoopTypeOK'
    BY <2>1, <2>2 DEF LoopTypeOK, LinkTypeOK
  <2>4. QED
    BY <2>1, <2>3, LoopInvNames, InvOfNames
<1>4. QED
  BY <1>1, <1>2, <1>3 DEF LoopNext

-----------------------------------------------------------------------------
(* The theorems.                                                             *)

\* What the wire, the counts and the machine have to do with one another at
\* each place of run_until.
THEOREM LoopInvariance == LoopSpec => []LoopInv
<1>1. QED
  BY LoopInvInit, LoopInvStep, PTL DEF LoopSpec

\* The daemon's fields, the connection and the loop's counts keep their types:
\* no more arrivals are counted than were asked for.
THEOREM LoopTypeCorrect == LoopSpec => []LoopTypeOK
<1>1. LoopInv => LoopTypeOK
  BY DEF LoopInv
<1>2. QED
  BY <1>1, LoopInvariance, PTL

\* Each arrival at run_until's checkpoint is counted once, by its event or by
\* VICE's hit_count.
THEOREM CountedOnce == LoopSpec => []ArrivalsAreCountedOnce
<1>1. LoopInv => ArrivalsAreCountedOnce
  BY LoopInvNames DEF ArrivalsAreCountedOnce, Looping, Halting
<1>2. QED
  BY <1>1, LoopInvariance, PTL

\* A run_until that tells how it ended has left no checkpoint of its own in
\* VICE; only one that a request without an answer has ended can.
THEOREM NothingLeaks == LoopSpec => []NoLeakedCheckpoint
<1>1. LoopInv => NoLeakedCheckpoint
  BY LoopInvNames DEF NoLeakedCheckpoint
<1>2. QED
  BY <1>1, LoopInvariance, PTL

\* Where run_until reports an arrival the machine has been parked on it since.
THEOREM ReachedAndParked == LoopSpec => ReachedIsParked
<1>1. LoopInv /\ [LoopNext]_allVars
        => [outcome' = "reached" /\ outcome /= "reached" => machine' = "hit"]_allVars
  <2> SUFFICES ASSUME LoopInv, LoopNext, outcome' = "reached", outcome /= "reached"
               PROVE  machine' = "hit"
    OBVIOUS
  <2>1. FinalDelete
    BY DEF LoopNext, Fires, Vanish, RunUntil, Loop, Otherwise, LoopResume, SliceBegins,
           SliceStopped, SliceQuiet, SliceOver, LoopList, LoopAgain, ClientStays, ClientGone,
           Expire, ExpiredResume, FinalRegisters, LoopFails, NoAnswer, RunUntilFails, loopVars
  <2>2. at = "final delete" /\ Command
    BY <2>1 DEF FinalDelete, DeleteTarget
  <2>3. machine = "hit"
    BY <2>2, LoopInvNames DEF Command
  <2>4. QED
    BY <2>2, <2>3 DEF Command
<1>2. QED
  BY <1>1, LoopInvariance, PTL DEF LoopSpec, ReachedIsParked

-----------------------------------------------------------------------------
(* The refinement of NthArrival.                                             *)

Phase == IF at \in Looping THEN "running"
         ELSE IF outcome = "reached" THEN "stopped" ELSE "idle"

LEMMA PromiseInit == LoopInit => Promise!Init
BY DEF LoopInit, Init, Promise!Init, Looping

LEMMA PromiseStep == LoopInv /\ [LoopNext]_allVars => [Promise!Next]_<<Phase, hitCount>>
<1> SUFFICES ASSUME LoopInv, [LoopNext]_allVars
             PROVE  Promise!Next \/ UNCHANGED <<Phase, hitCount>>
  BY DEF Phase
<1>1. CASE Fires
  <2>1. PICK c \in Checkpoints :
          /\ Hit(c)
          /\ hitCount' = IF c = Target /\ at \in Looping THEN hitCount + 1 ELSE hitCount
    BY <1>1 DEF Fires
  <2>2. machine = "running" /\ c \in armed
    BY <2>1 DEF Hit
  <2>3. UNCHANGED <<at, outcome, reached>>
    BY <1>1 DEF Fires, daemonVars
  <2>4. CASE c = Target /\ at \in Looping
    <3>1. at \in Looping /\ at \notin {"expired", "final registers", "final delete"}
      BY <2>2, <2>4, LoopInvNames DEF Looping
    <3>2. reached < Count
      BY <3>1, LoopInvNames DEF Looping
    <3>3. hitCount = reached
      BY <2>2, <3>1, LoopInvNames DEF Looping, Halting
    <3>4. Promise!Arrive
      BY <2>1, <2>3, <2>4, <3>1, <3>2, <3>3 DEF Promise!Arrive
    <3>5. QED
      BY <3>4 DEF Promise!Next
  <2>5. CASE ~(c = Target /\ at \in Looping)
    BY <2>1, <2>3, <2>5 DEF Phase
  <2>6. QED
    BY <2>4, <2>5
<1>2. CASE RunUntil
  <2>1. at = "serve" /\ at' = "resume" /\ hitCount' = 0
    BY <1>2 DEF RunUntil, Serving
  <2>2. Promise!Begin
    BY <2>1 DEF Promise!Begin, Looping
  <2>3. QED
    BY <2>2 DEF Promise!Next
<1>3. CASE FinalDelete
  <2>1. at = "final delete" /\ at' = "serve" /\ outcome' = "reached" /\ hitCount' = hitCount
    BY <1>3 DEF FinalDelete
  <2>2. hitCount = Count
    BY <2>1, LoopInvNames
  <2>3. Promise!Stop
    BY <2>1, <2>2 DEF Promise!Stop, Looping
  <2>4. QED
    BY <2>3 DEF Promise!Next
<1>4. CASE ClientGone \/ ExpiredResume \/ LoopFails
  <2>1. /\ at \in Looping /\ at' \in {"serve", "exited"} /\ hitCount' = hitCount
        /\ outcome' \in {outcome, "gone", "timeout"}
    BY <1>4 DEF ClientGone, ExpiredResume, LoopFails, QuitsOnError, loopVars, Looping
  <2>2. outcome' /= "reached"
    BY <2>1, LoopInvNames
  <2>3. Promise!End
    BY <2>1, <2>2 DEF Promise!End, Looping
  <2>4. QED
    BY <2>3 DEF Promise!Next
<1>5. CASE NoAnswer \/ RunUntilFails
  <2>1. at' = "serve" /\ outcome' = "failed" /\ hitCount' \in {0, hitCount}
    BY <1>5 DEF NoAnswer, RunUntilFails, StaysServing, Serving
  <2>2. Promise!End
    BY <2>1 DEF Promise!End, Looping
  <2>3. QED
    BY <2>2 DEF Promise!Next
<1>6. CASE \/ Vanish \/ LoopResume \/ SliceBegins \/ SliceStopped \/ SliceQuiet \/ SliceOver
           \/ LoopList \/ LoopAgain \/ ClientStays \/ Expire \/ FinalRegisters
  <2>1. at \in Looping /\ at' \in Looping /\ UNCHANGED <<hitCount, outcome>>
    BY <1>6 DEF Vanish, LoopResume, SliceBegins, SliceStopped, SliceQuiet, SliceOver, LoopList,
                LoopAgain, ClientStays, Expire, FinalRegisters, Arrived, daemonVars, loopVars,
                Looping
  <2>2. QED
    BY <2>1 DEF Phase
<1>7. CASE Otherwise
  <2>1. CASE /\ Accept /\ hitCount' = 0
             /\ outcome' = IF outcome = "failed" THEN "failed" ELSE "none"
    <3>1. at' = "serve" /\ outcome' /= "reached"
      BY <2>1 DEF Accept
    <3>2. Promise!End
      BY <2>1, <3>1 DEF Promise!End, Looping
    <3>3. QED
      BY <3>2 DEF Promise!Next
  <2>2. CASE EmulatorDies /\ UNCHANGED loopVars
    BY <2>2 DEF EmulatorDies, daemonVars, loopVars, Phase
  <2>3. CASE (SubroutineReturns \/ Request \/ Hangup \/ Daemon) /\ UNCHANGED loopVars
    <3>1. at \notin Looping
      BY <2>3, OtherPlaces
    <3>2. Next /\ TypeOK
      BY <2>3, <3>1, LoopInvNames DEF Next, Vice, LoopTypeOK, TypeOK
    <3>3. at' \notin Looping
      BY <3>2, OtherStep DEF TypeOK, Places, Finishing, Looping
    <3>4. QED
      BY <2>3, <3>1, <3>3 DEF Phase, loopVars
  <2>4. QED
    BY <1>7, <2>1, <2>2, <2>3 DEF Otherwise
<1>8. CASE UNCHANGED allVars
  BY <1>8 DEF allVars, Phase
<1>9. QED
  BY <1>1, <1>2, <1>3, <1>4, <1>5, <1>6, <1>7, <1>8 DEF LoopNext, Loop

\* run_until keeps what "stop at the Nth arrival" promises: it never reports an
\* earlier or a later arrival, however the arrivals are noticed.
THEOREM NthArrivalKept == LoopSpec => StopsAtNthArrival
<1>1. LoopSpec => Promise!Init /\ [][Promise!Next]_<<Phase, hitCount>>
  BY PromiseInit, PromiseStep, LoopInvariance, PTL DEF LoopSpec
<1>2. QED
  BY <1>1 DEF StopsAtNthArrival, Promise!Spec, Phase
=============================================================================
