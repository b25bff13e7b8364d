--------------------------- MODULE MCSessionRegistry ---------------------------
(* Commands overlap on one name, or work one at a time on all of them.  What *)
(* follows a race is not explored: no property speaks of the record it hit.  *)
EXTENDS SessionRegistry, TLC

Interchangeable == Permutations(Commands) \cup Permutations(Pids)

OnlyDefault ==
  \A n \in Names \ {Default} :
    /\ record[n] = None
    /\ \A p \in Pids : holder[p] # n
    /\ \A c \in Commands : name[c] # n

Overlap ==
  /\ Cardinality({c \in Commands : at[c] # "idle"}) <= 1 \/ OnlyDefault
  /\ raced = {}
=============================================================================
