------------------------------ MODULE ViceLink ------------------------------
(***************************************************************************)
(* One monitor connection between MonitorClient (monitor.py) and VICE.     *)
(*                                                                         *)
(* VICE itself is external: it is modelled by what the code relies on.     *)
(*   - Every monitor command halts the emulated CPU.  A halt of a running  *)
(*     CPU, whoever causes it, is announced by a bare STOPPED event sent   *)
(*     before the answer; EXIT lets the CPU run and is followed by RESUMED.*)
(*   - A checkpoint hit pushes CHECKPOINT_GET with its hit byte set, then  *)
(*     STOPPED, in one write.                                              *)
(* Requests and answers are synchronous (_transact reads until the answer  *)
(* with its request id arrives), so a command is one step that also moves  *)
(* everything VICE wrote before the answer into the client's event deque.  *)
(* What VICE writes after the answer stays on the wire until it is read.   *)
(***************************************************************************)
EXTENDS Naturals, Sequences

CONSTANTS
  Checkpoints,  \* the checkpoint numbers VICE can hand out
  MaxEvents     \* capacity of MonitorClient.events, 256 in the code

ASSUME CheckpointsAssumption ==
  Checkpoints \cap {"STOPPED", "RESUMED", "bare"} = {}
ASSUME MaxEventsAssumption == MaxEvents \in Nat /\ MaxEvents >= 2

VARIABLES
  machine,  \* the emulated CPU: running, halted by a command, by a checkpoint
            \* hit, or by a step/finish verb; "dead" once x64sc is gone
  wire,     \* events VICE has written and nobody has read
  events,   \* MonitorClient.events
  armed     \* the checkpoints VICE currently holds

linkVars == <<machine, wire, events, armed>>

\* An event is STOPPED, RESUMED, or a checkpoint: the CHECKPOINT_GET that says
\* this checkpoint has just been hit.
Events == {"STOPPED", "RESUMED"} \cup Checkpoints

Parks == {"hit", "step"}
Machine == {"running", "command", "dead"} \cup Parks

LinkTypeOK ==
  /\ machine \in Machine
  /\ wire \in Seq(Events)
  /\ events \in Seq(Events)
  /\ armed \subseteq Checkpoints

LinkInit ==
  /\ machine = "running"
  /\ wire = <<>>
  /\ events = <<>>
  /\ armed = {}

-----------------------------------------------------------------------------
(* Reading events.                                                         *)

\* A deque with maxlen drops its oldest entries.
Newest(s) ==
  IF Len(s) <= MaxEvents THEN s ELSE SubSeq(s, Len(s) - MaxEvents + 1, Len(s))

\* Mutant of Unread: poll_events reads the socket and forgets the deque.
Unread_SocketOnly == wire

\* Everything known of the machine's recent past, oldest first.
Unread == events \o wire

\* Mutant of HoldsPark: a bare STOPPED parks, too.
HoldsPark_AnyStop(s) ==
  \E i \in 1..Len(s) : /\ s[i] \in Checkpoints \cup {"STOPPED"}
                       /\ \A j \in i+1..Len(s) : s[j] /= "RESUMED"

\* The fold of _restore: a hit parks, a later RESUMED cancels it.
HoldsPark(s) ==
  \E i \in 1..Len(s) : /\ s[i] \in Checkpoints
                       /\ \A j \in i+1..Len(s) : s[j] /= "RESUMED"

\* The fold of _pump_vice_events: is e the last of the run/stop events of s?
LastIs(s, e) ==
  \E i \in 1..Len(s) : /\ s[i] = e
                       /\ \A j \in i+1..Len(s) : s[j] \notin {"STOPPED", "RESUMED"}

HasStop(s) == \E i \in 1..Len(s) : s[i] = "STOPPED"

\* wait_for_stop's answer for a batch with a STOPPED in it: the last hit
\* reported before the first STOPPED, or no checkpoint at all.
StopInfo(s) ==
  LET first == CHOOSE k \in 1..Len(s) :
                 s[k] = "STOPPED" /\ \A j \in 1..k-1 : s[j] /= "STOPPED"
      hits  == {i \in 1..first : s[i] \in Checkpoints}
  IN  IF hits = {} THEN "bare"
      ELSE s[CHOOSE i \in hits : \A j \in hits : j <= i]

\* poll_events(first=True) hands out the queued events if there are any and
\* reads the socket otherwise; wait_for_stop drops the rest of the batch.
Batch == IF events = <<>> THEN wire ELSE events
TakeBatch ==
  /\ events' = <<>>
  /\ wire' = IF events = <<>> THEN <<>> ELSE wire

\* poll_events(0.05): all queued events and all that VICE has written.  Both
\* callers put every one of them back into the deque.
PollAndKeep ==
  /\ events' = Newest(Unread)
  /\ wire' = <<>>

-----------------------------------------------------------------------------
(* Requests.                                                               *)

\* A halt is announced if the CPU was running.
Halted(s) == IF machine = "running" THEN Append(s, "STOPPED") ELSE s

\* Mutant of Command: _transact throws away the events it reads.
Command_DropsEvents ==
  /\ machine /= "dead"
  /\ machine' = IF machine = "running" THEN "command" ELSE machine
  /\ events' = events
  /\ wire' = <<>>

\* Any request that neither runs nor steps the CPU.
Command ==
  /\ machine /= "dead"
  /\ machine' = IF machine = "running" THEN "command" ELSE machine
  /\ events' = Newest(Halted(Unread))
  /\ wire' = <<>>

\* Mutant of Exit: resume() does not clear the deque.
Exit_KeepsDeque ==
  /\ machine /= "dead"
  /\ machine' = "running"
  /\ events' = Newest(Append(Halted(Unread), "RESUMED"))
  /\ wire' = <<>>
  /\ UNCHANGED armed

\* resume(): the deque is cleared BEFORE the EXIT is sent; the RESUMED that
\* follows the answer may or may not come in with it.
Exit ==
  /\ machine /= "dead"
  /\ machine' = "running"
  /\ \/ /\ events' = Newest(Append(Halted(wire), "RESUMED"))
        /\ wire' = <<>>
     \/ /\ events' = Newest(Halted(wire))
        /\ wire' = <<"RESUMED">>
  /\ UNCHANGED armed

\* step(): ADVANCE_INSTRUCTIONS, then registers().  The instructions run
\* between the two, possibly onto a checkpoint.
Advance ==
  /\ machine /= "dead"
  /\ machine' = "step"
  /\ LET stepping == Append(Halted(Unread), "RESUMED")
     IN  \/ events' = Newest(Append(stepping, "STOPPED"))
         \/ \E c \in armed :
              events' = Newest(Append(Append(stepping, c), "STOPPED"))
  /\ wire' = <<>>
  /\ UNCHANGED armed

\* The request half of finish(): EXECUTE_UNTIL_RETURN.  Nothing is cleared.
ExecuteUntilReturn ==
  /\ machine /= "dead"
  /\ machine' = "running"
  /\ \/ /\ events' = Newest(Append(Halted(Unread), "RESUMED"))
        /\ wire' = <<>>
     \/ /\ events' = Newest(Halted(Unread))
        /\ wire' = <<"RESUMED">>
  /\ UNCHANGED armed

-----------------------------------------------------------------------------
(* VICE on its own.                                                        *)

Hit(c) ==
  /\ machine = "running"
  /\ c \in armed
  /\ machine' = "hit"
  /\ wire' = Append(Append(wire, c), "STOPPED")
  /\ UNCHANGED <<events, armed>>

\* The subroutine of a finish() returns.
Return ==
  /\ machine = "running"
  /\ machine' = "step"
  /\ wire' = Append(wire, "STOPPED")
  /\ UNCHANGED <<events, armed>>

\* x64sc exits or crashes.
Die ==
  /\ machine /= "dead"
  /\ machine' = "dead"
  /\ UNCHANGED <<wire, events, armed>>
=============================================================================
