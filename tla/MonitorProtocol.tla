--------------------------- MODULE MonitorProtocol ---------------------------
(***************************************************************************)
(* One connection of MonitorClient (monitor.py) down to the frames of the  *)
(* binary monitor protocol (protocol.py): the bytes of answers and events  *)
(* come in pieces of any size, FrameDecoder puts the frames together, and  *)
(* _transact picks its own answer among them by the request id.  A request *)
(* that times out is given up, not called back: VICE still works on it,    *)
(* and its answer comes in the midst of a later request.                   *)
(*                                                                         *)
(* A frame is a start byte, the rest of its header, and a body of at most  *)
(* one byte, which may look like a start byte.  ViceLink takes what is     *)
(* established here, an exchange with its own answer, for one step; the    *)
(* bound of the event deque is modelled there.                             *)
(***************************************************************************)
EXTENDS Naturals, Sequences

CONSTANTS
  MaxRequests,  \* bound on the requests of a connection
  MaxEvents,    \* bound on the events of a connection
  MaxInfos      \* bound on the checkpoints of a CHECKPOINT_LIST

ASSUME BoundsAssumption == MaxRequests \in Nat /\ MaxEvents \in Nat /\ MaxInfos \in Nat

VARIABLES
  inbox,    \* requests that VICE has not worked on
  wire,     \* bytes on their way from VICE
  running,  \* the emulated CPU runs
  told,     \* the number of events that VICE has sent
  dead,     \* x64sc is gone
  buf,      \* FrameDecoder._buf
  pending,  \* MonitorClient._pending
  events,   \* MonitorClient.events
  ids,      \* MonitorClient._ids: the request id handed out last
  call,     \* the request that _transact waits for
  collected,\* the intermediate answers it has collected
  result,   \* what the last request came to
  polling,  \* poll_events listens: "no", or "all" events, or until a "first"
  seen,     \* what it has in hand
  handed,   \* the events handed to callers so far
  dropped   \* the events that a resume, or a poll that failed, has dropped

vice == <<inbox, running, told, dead>>
client == <<pending, events, ids, call, collected, result>>
poll == <<polling, seen, handed, dropped>>
vars == <<wire, buf, vice, client, poll>>

-----------------------------------------------------------------------------
(* Frames.                                                                 *)

EVENT_REQUEST_ID == 0       \* no request has this id
HEADER == 2

NoCall == [rid |-> 0, command |-> "none", serial |-> 0]
NoHead == [rid |-> 0, type |-> "none", ok |-> FALSE, size |-> 0, serial |-> 0, infos |-> 0]

Byte(kind) == [kind |-> kind, head |-> NoHead]

\* A frame on the wire: its header names the size of the body.
Frame(head, body) == <<Byte("STX"), [kind |-> "rest", head |-> head]>> \o body
Bodies == {<<>>, <<Byte("STX")>>}

\* An answer, with the number of the request it answers, which is not on the
\* wire, and of the infos ahead of it.
Answer(request, type, ok, size, infos) ==
  [rid |-> request.rid, type |-> type, ok |-> ok, size |-> size,
   serial |-> request.serial, infos |-> infos]

Event(n) == [rid |-> EVENT_REQUEST_ID, type |-> "event", ok |-> TRUE, size |-> 0,
             serial |-> n, infos |-> 0]
EventFrame(n) == Frame(Event(n), <<>>)
is_event(r) == r.rid = EVENT_REQUEST_ID

\* What FrameDecoder.feed makes of b from each of its places on: the frames that
\* are whole, where it stops, and whether it met something else than a start
\* byte.
scan(b) ==
  LET from[k \in 0..Len(b)] ==
        IF Len(b) - k < HEADER THEN [out |-> <<>>, gone |-> k, bad |-> FALSE]
        ELSE IF b[k + 1].kind /= "STX" THEN [out |-> <<>>, gone |-> k, bad |-> TRUE]
        ELSE LET total == HEADER + b[k + 2].head.size
             IN  IF Len(b) - k < total THEN [out |-> <<>>, gone |-> k, bad |-> FALSE]
                 ELSE [out  |-> <<b[k + 2].head>> \o from[k + total].out,
                       gone |-> from[k + total].gone,
                       bad  |-> from[k + total].bad]
  IN  from

\* FrameDecoder.feed with all of b in the buffer.
feed(b) == scan(b)[0]

-----------------------------------------------------------------------------
(* VICE: external, what the code relies on.                                *)

Init ==
  /\ inbox = <<>> /\ wire = <<>> /\ running = TRUE /\ told = 0 /\ dead = FALSE
  /\ buf = <<>> /\ pending = <<>> /\ events = <<>>
  /\ ids = 0 /\ call = NoCall /\ collected = <<>>
  /\ result = [of |-> NoCall, kind |-> "none", serial |-> 0, infos |-> 0, got |-> 0]
  /\ polling = "no" /\ seen = <<>> /\ handed = <<>> /\ dropped = {}

Info(request) == Answer(request, "info", TRUE, 0, 0)

\* n frames of one header, without bodies.
Frames(head, n) ==
  [k \in 1..(HEADER * n) |->
     IF k % HEADER = 1 THEN Byte("STX") ELSE [kind |-> "rest", head |-> head]]

\* The next request: the halt it causes is told ahead of its answer, the
\* RESUMED of an EXIT after it.
Process ==
  /\ ~dead /\ inbox /= <<>>
  /\ LET request == Head(inbox)
         halts == running /\ told < MaxEvents
         stop  == IF halts THEN EventFrame(told + 1) ELSE <<>>
         now   == told + (IF halts THEN 1 ELSE 0)
         goes  == request.command = "EXIT" /\ now < MaxEvents
     IN  \E n \in IF request.command = "LIST" THEN 0..MaxInfos ELSE {0}, ok \in BOOLEAN :
          \E body \in IF ok /\ n = 0 THEN Bodies ELSE {<<>>} :
           /\ wire' = wire \o stop \o Frames(Info(request), n)
                      \o Frame(Answer(request, request.command, ok, Len(body), n), body)
                      \o (IF goes THEN EventFrame(now + 1) ELSE <<>>)
           /\ told' = IF goes THEN now + 1 ELSE now
           /\ running' = (request.command = "EXIT")
           /\ inbox' = Tail(inbox)
  /\ UNCHANGED <<dead, buf, client, poll>>

\* A checkpoint fires.
Hit ==
  /\ ~dead /\ running /\ told < MaxEvents
  /\ wire' = wire \o EventFrame(told + 1)
  /\ told' = told + 1 /\ running' = FALSE
  /\ UNCHANGED <<inbox, dead, buf, client, poll>>

Die ==
  /\ ~dead /\ dead' = TRUE /\ inbox' = <<>>
  /\ UNCHANGED <<wire, buf, running, told, client, poll>>

-----------------------------------------------------------------------------
(* The client.                                                             *)

Idle == call = NoCall /\ polling = "no"

\* Mutant of NextId: the ids start again with every request.
NextId_Same == 1

NextId == ids + 1

\* _transact up to its loop; resume() clears the events first.
Send(command) ==
  /\ Idle /\ ids < MaxRequests
  /\ LET request == [rid |-> NextId, command |-> command, serial |-> ids + 1]
     IN  /\ call' = request
         /\ inbox' = IF dead THEN inbox ELSE Append(inbox, request)
  /\ ids' = ids + 1 /\ collected' = <<>>
  /\ IF command = "EXIT"
     THEN events' = <<>> /\ dropped' = dropped \cup {events[i].serial : i \in DOMAIN events}
     ELSE UNCHANGED <<events, dropped>>
  /\ UNCHANGED <<wire, buf, running, told, dead, pending, result, polling, seen, handed>>

Mine == {i \in DOMAIN pending : pending[i].rid = call.rid}

Without(s, i) == SubSeq(s, 1, i - 1) \o SubSeq(s, i + 1, Len(s))

Ends(kind, r) ==
  /\ call' = NoCall
  /\ result' = [of |-> call, kind |-> kind, serial |-> r.serial, infos |-> r.infos,
                got |-> Len(collected)]

\* The first of the pending responses with this request's id: collected, or
\* the answer.
Take ==
  /\ call /= NoCall /\ Mine /= {}
  /\ LET i == CHOOSE i \in Mine : \A j \in Mine : i <= j
         r == pending[i]
     IN  /\ pending' = Without(pending, i)
         /\ IF call.command = "LIST" /\ r.type = "info"
            THEN collected' = Append(collected, r) /\ UNCHANGED <<call, result>>
            ELSE Ends(IF r.ok THEN "answer" ELSE "error", r) /\ UNCHANGED collected
  /\ UNCHANGED <<wire, buf, vice, events, ids, poll>>

\* recv: some of the bytes on the wire are added to the buffer and decoded.
Receive(n) ==
  /\ n \in 1..Len(wire)
  /\ wire' = SubSeq(wire, n + 1, Len(wire))

Got(n) == feed(buf \o SubSeq(wire, 1, n))
Buffered(n, f) == LET b == buf \o SubSeq(wire, 1, n) IN SubSeq(b, f.gone + 1, Len(b))

\* The frames of out that are events, or that are not.
Chosen(out, events_only) ==
  LET upto[n \in 0..Len(out)] ==
        IF n = 0 THEN <<>>
        ELSE IF is_event(out[n]) = events_only THEN Append(upto[n - 1], out[n])
        ELSE upto[n - 1]
  IN  upto[Len(out)]

Sorted(out) == Chosen(out, FALSE)

\* Mutant of Told: an event is not for the one who waits for an answer.
Told_Polling(out) == IF polling = "no" THEN <<>> ELSE Chosen(out, TRUE)

Told(out) == Chosen(out, TRUE)

\* _transact reads on: its own answer is not in hand.
Recv ==
  /\ call /= NoCall /\ Mine = {}
  /\ \E n \in 1..Len(wire) :
       LET f == Got(n)
       IN  /\ Receive(n) /\ buf' = Buffered(n, f)
           /\ IF f.bad
              THEN Ends("protocol", NoHead) /\ UNCHANGED <<pending, events>>
              ELSE /\ pending' = pending \o Sorted(f.out)
                   /\ events' = events \o Told(f.out)
                   /\ UNCHANGED <<call, result>>
  /\ UNCHANGED <<vice, ids, collected, poll>>

\* No response in time.
TimesOut ==
  /\ call /= NoCall /\ Mine = {}
  /\ Ends("timeout", NoHead)
  /\ UNCHANGED <<wire, buf, vice, pending, events, ids, collected, poll>>

\* VICE has closed the connection.
Closed ==
  /\ dead /\ wire = <<>> /\ call /= NoCall /\ Mine = {}
  /\ Ends("closed", NoHead)
  /\ UNCHANGED <<wire, buf, vice, pending, events, ids, collected, poll>>

\* poll_events.
Listen ==
  /\ Idle /\ polling' \in {"all", "first"}
  /\ seen' = events /\ events' = <<>>
  /\ UNCHANGED <<wire, buf, vice, pending, ids, call, collected, result, handed, dropped>>

Hear ==
  /\ polling /= "no" /\ ~(polling = "first" /\ seen /= <<>>)
  /\ \E n \in 1..Len(wire) :
       LET f == Got(n)
       IN  /\ ~f.bad
           /\ Receive(n) /\ buf' = Buffered(n, f)
           /\ pending' = pending \o Sorted(f.out)
           /\ seen' = seen \o Told(f.out)
  /\ UNCHANGED <<vice, events, ids, call, collected, result, polling, handed, dropped>>

Heard ==
  /\ polling /= "no"
  /\ polling' = "no" /\ seen' = <<>> /\ handed' = handed \o seen
  /\ UNCHANGED <<wire, buf, vice, client, dropped>>

\* VICE has closed the connection: what poll_events has in hand goes with it.
HearsEnd ==
  /\ dead /\ wire = <<>> /\ polling /= "no" /\ ~(polling = "first" /\ seen /= <<>>)
  /\ polling' = "no" /\ seen' = <<>>
  /\ dropped' = dropped \cup {seen[i].serial : i \in DOMAIN seen}
  /\ UNCHANGED <<wire, buf, vice, client, handed>>

Vice == Process \/ Hit \/ Die
Request == (\E command \in {"GET", "LIST", "EXIT"} : Send(command))
           \/ Take \/ Recv \/ TimesOut \/ Closed
Poll == Listen \/ Hear \/ Heard \/ HearsEnd

Next == Vice \/ Request \/ Poll

Spec == Init /\ [][Next]_vars

-----------------------------------------------------------------------------
(* What must hold.                                                         *)

\* What a request returns or raises is VICE's word on this very request, and a
\* list is all that VICE has listed for it, however the bytes were cut and
\* whatever came late; a frame is never taken for a broken one.
AnswersAreOwn ==
  /\ result.kind \in {"answer", "error"} =>
       /\ result.serial = result.of.serial
       /\ result.of.command = "LIST" => result.got = result.infos
  /\ result.kind /= "protocol"

Serials(s) == [i \in DOMAIN s |-> s[i].serial]
Flying == Chosen(feed(buf \o wire).out, TRUE)

\* Events reach callers in the order VICE has sent them, each of them once, and
\* none is lost but those that a resume drops, or a poll that loses its
\* connection with events in hand, answers in between or not.
EventsKeepOrder ==
  LET all == Serials(handed \o seen \o events \o Flying)
  IN  /\ \A i, j \in DOMAIN all : i < j => all[i] < all[j]
      /\ {all[i] : i \in DOMAIN all} \cup dropped = 1..told
=============================================================================
