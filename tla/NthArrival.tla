----------------------------- MODULE NthArrival -----------------------------
(* What "run until the Count-th arrival" promises, whoever waits and however *)
(* the arrivals are noticed: it stops at that arrival, not an earlier or a   *)
(* later one, or it gives up.                                                *)
EXTENDS Naturals

CONSTANT Count  \* a positive number

VARIABLES phase, arrivals

Init == phase = "idle" /\ arrivals = 0

Begin == phase /= "running" /\ phase' = "running" /\ arrivals' = 0

Arrive ==
  /\ phase = "running"
  /\ arrivals < Count
  /\ arrivals' = arrivals + 1
  /\ UNCHANGED phase

Stop ==
  /\ phase = "running"
  /\ arrivals = Count
  /\ phase' = "stopped"
  /\ UNCHANGED arrivals

End == phase' = "idle" /\ arrivals' \in {0, arrivals}

Next == Begin \/ Arrive \/ Stop \/ End

Spec == Init /\ [][Next]_<<phase, arrivals>>
=============================================================================
