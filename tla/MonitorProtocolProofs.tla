------------------------- MODULE MonitorProtocolProofs -------------------------
(* Safety of one connection, for any number of requests, events and infos,   *)
(* however the bytes are cut and whatever comes late.                        *)
EXTENDS MonitorProtocol, TLAPS, SequenceTheorems, WellFoundedInduction

Types == {"none", "info", "event", "GET", "LIST", "EXIT"}
Heads == [rid : Nat, type : Types, ok : BOOLEAN, size : Nat, serial : Nat, infos : Nat]
Bytes == [kind : {"STX", "rest"}, head : Heads]
Scans == [out : Seq(Heads), gone : Nat, bad : BOOLEAN]

-----------------------------------------------------------------------------
(* Induction: a set of numbers that is not empty has a smallest member.      *)

LEMMA Smallest ==
  ASSUME NEW T, T \subseteq Nat, T # {}
  PROVE  \E x \in T : \A y \in T : x <= y
<1>1. PICK x \in T : \A y \in T : ~(<<y, x>> \in OpToRel(<, Nat))
  BY WFMin, NatLessThanWellFounded
<1>2. \A y \in T : ~(y < x)
  BY <1>1 DEF OpToRel
<1> QED
  BY <1>2

\* Upward from 0, and downward from n, for a set of the numbers that are fine.
LEMMA Upward ==
  ASSUME NEW G, 0 \in G, \A n \in Nat : n \in G => n + 1 \in G
  PROVE  Nat \subseteq G
<1>1. SUFFICES ASSUME Nat \ G # {} PROVE FALSE
  OBVIOUS
<1>2. PICK n \in Nat \ G : \A m \in Nat \ G : n <= m
  BY <1>1, Smallest
<1>3. n - 1 \in Nat /\ n - 1 \notin Nat \ G
  BY <1>2
<1>4. n - 1 + 1 \in G
  BY <1>3
<1> QED BY <1>4

LEMMA Downward ==
  ASSUME NEW n \in Nat, NEW G, n \in G, \A k \in 0..(n - 1) : k + 1 \in G => k \in G
  PROVE  \A k \in 0..n : k \in G
<1> DEFINE H == {d \in Nat : d <= n => n - d \in G}
<1>1. 0 \in H
  OBVIOUS
<1>2. ASSUME NEW d \in Nat, d \in H PROVE d + 1 \in H
  <2>1. SUFFICES ASSUME d + 1 <= n PROVE n - (d + 1) \in G
    OBVIOUS
  <2>2. n - d \in G /\ n - (d + 1) \in 0..(n - 1) /\ n - (d + 1) + 1 = n - d
    BY <1>2, <2>1
  <2> QED BY <2>2
<1>3. Nat \subseteq H
  <2> HIDE DEF H
  <2> QED BY <1>1, <1>2, Upward
<1>4. ASSUME NEW k \in 0..n PROVE k \in G
  <2>1. n - k \in H /\ n - (n - k) = k
    BY <1>3
  <2> QED BY <2>1
<1> QED BY <1>4

\* Downward, with every number above at hand.
LEMMA FromAbove ==
  ASSUME NEW n \in Nat, NEW G,
         \A k \in 0..n : (\A j \in (k + 1)..n : j \in G) => k \in G
  PROVE  \A k \in 0..n : k \in G
<1> DEFINE H == {k \in 0..n : \A j \in k..n : j \in G}
<1>1. n \in H
  BY n \in 0..n
<1>2. ASSUME NEW k \in 0..(n - 1), k + 1 \in H PROVE k \in H
  <2>1. k \in 0..n /\ \A j \in (k + 1)..n : j \in G
    BY <1>2
  <2>2. k \in G
    BY <2>1
  <2>3. \A j \in k..n : j = k \/ j \in (k + 1)..n
    OBVIOUS
  <2> QED BY <2>1, <2>2, <2>3
<1>3. \A k \in 0..n : k \in H
  <2> HIDE DEF H
  <2> QED BY <1>1, <1>2, Downward
<1> QED BY <1>3

-----------------------------------------------------------------------------
(* The decoder.                                                              *)

\* What the decoder makes of b from k on, when g says it for the places after k.
Step(b, g, k) ==
  IF Len(b) - k < HEADER THEN [out |-> <<>>, gone |-> k, bad |-> FALSE]
  ELSE IF b[k + 1].kind /= "STX" THEN [out |-> <<>>, gone |-> k, bad |-> TRUE]
  ELSE LET total == HEADER + b[k + 2].head.size
       IN  IF Len(b) - k < total THEN [out |-> <<>>, gone |-> k, bad |-> FALSE]
           ELSE [out  |-> <<b[k + 2].head>> \o g[k + total].out,
                 gone |-> g[k + total].gone,
                 bad  |-> g[k + total].bad]

LEMMA StepTyped ==
  ASSUME NEW b \in Seq(Bytes), NEW g \in [0..Len(b) -> Scans], NEW k \in 0..Len(b)
  PROVE  Step(b, g, k) \in Scans
<1>1. CASE Len(b) - k < HEADER
  BY <1>1 DEF Step, Scans
<1>2. CASE Len(b) - k >= HEADER /\ b[k + 1].kind /= "STX"
  BY <1>2 DEF Step, Scans, HEADER
<1>3. CASE Len(b) - k >= HEADER /\ b[k + 1].kind = "STX"
  <2> DEFINE total == HEADER + b[k + 2].head.size
  <2>1. b[k + 2].head \in Heads /\ total \in Nat /\ total >= 2
    <3>1. b[k + 2] \in Bytes
      BY <1>3 DEF HEADER
    <3>2. b[k + 2].head \in Heads
      BY <3>1 DEF Bytes
    <3> QED BY <3>2 DEF Heads, HEADER
  <2>2. CASE Len(b) - k < total
    BY <1>3, <2>2 DEF Step, Scans, HEADER
  <2>3. CASE Len(b) - k >= total
    <3>1. g[k + total] \in Scans
      BY <2>1, <2>3
    <3>2. Step(b, g, k) = [out |-> <<b[k + 2].head>> \o g[k + total].out,
                           gone |-> g[k + total].gone, bad |-> g[k + total].bad]
      BY <1>3, <2>1, <2>3 DEF Step, HEADER
    <3> HIDE DEF total
    <3> QED BY <3>1, <3>2, <2>1 DEF Scans
  <2> QED BY <2>1, <2>2, <2>3
<1> QED BY <1>1, <1>2, <1>3 DEF HEADER

\* Only the places after k matter.
LEMMA StepLocal ==
  ASSUME NEW b \in Seq(Bytes), NEW g, NEW h, NEW k \in 0..Len(b),
         \A j \in (k + 1)..Len(b) : g[j] = h[j]
  PROVE  Step(b, g, k) = Step(b, h, k)
<1>1. CASE Len(b) - k < HEADER \/ b[k + 1].kind /= "STX"
  BY <1>1 DEF Step
<1>2. CASE Len(b) - k >= HEADER /\ b[k + 1].kind = "STX"
  <2> DEFINE total == HEADER + b[k + 2].head.size
  <2>1. total \in Nat /\ total >= 2
    <3>1. b[k + 2] \in Bytes
      BY <1>2 DEF HEADER
    <3>2. b[k + 2].head \in Heads
      BY <3>1 DEF Bytes
    <3> QED BY <3>2 DEF Heads, HEADER
  <2>2. CASE Len(b) - k < total
    BY <1>2, <2>2 DEF Step
  <2>3. CASE Len(b) - k >= total
    <3>1. g[k + total] = h[k + total]
      BY <2>1, <2>3
    <3> QED BY <1>2, <3>1 DEF Step
  <2> QED BY <2>1, <2>2, <2>3
<1> QED BY <1>1, <1>2 DEF HEADER

\* The recursion of scan is sound: it has a solution, from the end of b down.
LEMMA ScanExists ==
  ASSUME NEW b \in Seq(Bytes)
  PROVE  \E g \in [0..Len(b) -> Scans] : \A k \in 0..Len(b) : g[k] = Step(b, g, k)
<1> DEFINE Solves(g, m) == \A k \in m..Len(b) : g[k] = Step(b, g, k)
           G == {m \in 0..(Len(b) + 1) : \E g \in [0..Len(b) -> Scans] : Solves(g, m)}
<1>1. Len(b) + 1 \in G
  <2> DEFINE g == [k \in 0..Len(b) |-> [out |-> <<>>, gone |-> 0, bad |-> FALSE]]
  <2>1. g \in [0..Len(b) -> Scans]
    BY DEF Scans
  <2>2. Solves(g, Len(b) + 1)
    OBVIOUS
  <2> HIDE DEF g, Solves
  <2> QED BY <2>1, <2>2
<1>2. ASSUME NEW p \in 0..Len(b), p + 1 \in G PROVE p \in G
  <2>1. PICK g \in [0..Len(b) -> Scans] : Solves(g, p + 1)
    BY <1>2
  <2> DEFINE h == [g EXCEPT ![p] = Step(b, g, p)]
  <2>2. h \in [0..Len(b) -> Scans]
    BY StepTyped
  <2>3. \A j \in (p + 1)..Len(b) : g[j] = h[j]
    OBVIOUS
  <2>4. h[p] = Step(b, g, p)
    OBVIOUS
  <2> HIDE DEF h
  <2>5. ASSUME NEW k \in p..Len(b) PROVE h[k] = Step(b, h, k)
    <3>1. \A j \in (k + 1)..Len(b) : g[j] = h[j]
      BY <2>3
    <3>2. Step(b, g, k) = Step(b, h, k)
      BY <3>1, StepLocal
    <3>3. CASE k = p
      BY <3>2, <3>3, <2>4
    <3>4. CASE k \in (p + 1)..Len(b)
      BY <3>2, <3>4, <2>3, <2>1
    <3> QED BY <3>3, <3>4
  <2>6. Solves(h, p)
    BY <2>5
  <2> HIDE DEF Solves
  <2> QED BY <2>2, <2>6
<1>3. 0 \in G
  <2> HIDE DEF G
  <2>1. Len(b) + 1 \in Nat /\ \A k \in 0..Len(b) : k + 1 \in G => k \in G
    BY <1>2
  <2> QED BY <1>1, <2>1, Downward
<1> QED BY <1>3

LEMMA ScanStep ==
  ASSUME NEW b \in Seq(Bytes)
  PROVE  /\ scan(b) \in [0..Len(b) -> Scans]
         /\ \A k \in 0..Len(b) : scan(b)[k] = Step(b, scan(b), k)
<1> DEFINE Solves(g) == g = [k \in 0..Len(b) |-> Step(b, g, k)]
<1>1. scan(b) = CHOOSE g : Solves(g)
  BY DEF scan, Step
<1>2. PICK g \in [0..Len(b) -> Scans] : \A k \in 0..Len(b) : g[k] = Step(b, g, k)
  BY ScanExists
<1>3. Solves(g)
  BY <1>2
<1>4. Solves(scan(b))
  BY <1>1, <1>3, Zenon
<1> DEFINE f == scan(b)
<1>5. f = [k \in 0..Len(b) |-> Step(b, f, k)]
  BY <1>4
<1> QED BY <1>5

\* A whole frame begins at place k of b, ends before place After, or the decoder
\* meets something else than a start byte.
Whole(b, k) == /\ Len(b) - k >= 2 /\ b[k + 1].kind = "STX"
               /\ Len(b) - k >= 2 + b[k + 2].head.size
After(b, k) == k + 2 + b[k + 2].head.size
Broken(b, k) == Len(b) - k >= 2 /\ b[k + 1].kind # "STX"

LEMMA ScanWhole ==
  ASSUME NEW b \in Seq(Bytes), NEW k \in 0..Len(b), Whole(b, k)
  PROVE  /\ b[k + 2].head \in Heads /\ After(b, k) \in (k + 2)..Len(b)
         /\ scan(b)[After(b, k)] \in Scans
         /\ scan(b)[k].out = <<b[k + 2].head>> \o scan(b)[After(b, k)].out
         /\ scan(b)[k].gone = scan(b)[After(b, k)].gone
         /\ scan(b)[k].bad = scan(b)[After(b, k)].bad
<1>1. b[k + 2] \in Bytes
  BY DEF Whole
<1>2. b[k + 2].head \in Heads
  BY <1>1 DEF Bytes
<1>3. b[k + 2].head.size \in Nat
  BY <1>2 DEF Heads
<1>4. After(b, k) \in (k + 2)..Len(b)
  BY <1>3 DEF After, Whole
<1>5. scan(b)[After(b, k)] \in Scans
  BY <1>4, ScanStep
<1>6. scan(b)[k] = Step(b, scan(b), k)
  BY ScanStep
<1>7. k + (2 + b[k + 2].head.size) = After(b, k)
  BY <1>3 DEF After
<1>8. ~(Len(b) - k < 2) /\ ~(Len(b) - k < 2 + b[k + 2].head.size)
  BY <1>3 DEF Whole
<1>9. Step(b, scan(b), k) = [out  |-> <<b[k + 2].head>> \o scan(b)[After(b, k)].out,
                             gone |-> scan(b)[After(b, k)].gone,
                             bad  |-> scan(b)[After(b, k)].bad]
  BY <1>7, <1>8 DEF Step, HEADER, Whole
<1> QED BY <1>2, <1>4, <1>5, <1>6, <1>9

LEMMA ScanStop ==
  ASSUME NEW b \in Seq(Bytes), NEW k \in 0..Len(b), ~Whole(b, k)
  PROVE  /\ scan(b)[k].out = <<>> /\ scan(b)[k].gone = k
         /\ scan(b)[k].bad \in BOOLEAN /\ (scan(b)[k].bad <=> Broken(b, k))
<1>1. scan(b)[k] = Step(b, scan(b), k)
  BY ScanStep
<1>2. CASE Len(b) - k < 2
  BY <1>1, <1>2 DEF Step, HEADER, Broken
<1>3. CASE Len(b) - k >= 2 /\ b[k + 1].kind # "STX"
  BY <1>1, <1>3 DEF Step, HEADER, Broken
<1>4. CASE Len(b) - k >= 2 /\ b[k + 1].kind = "STX"
  <2>1. b[k + 2] \in Bytes
    BY <1>4
  <2>2. b[k + 2].head.size \in Nat
    BY <2>1 DEF Bytes, Heads
  <2>3. Len(b) - k < 2 + b[k + 2].head.size
    BY <1>4, <2>2 DEF Whole
  <2> QED BY <1>1, <1>4, <2>3 DEF Step, HEADER, Broken
<1> QED BY <1>2, <1>3, <1>4

LEMMA ScanType ==
  ASSUME NEW b \in Seq(Bytes)
  PROVE  \A k \in 0..Len(b) : scan(b)[k] \in Scans /\ scan(b)[k].gone \in k..Len(b)
<1> DEFINE G == {k \in 0..Len(b) : scan(b)[k].gone \in k..Len(b)}
<1>1. ASSUME NEW k \in 0..Len(b), \A j \in (k + 1)..Len(b) : j \in G PROVE k \in G
  <2>1. CASE Whole(b, k)
    <3>1. After(b, k) \in (k + 2)..Len(b) /\ scan(b)[k].gone = scan(b)[After(b, k)].gone
      BY <2>1, ScanWhole
    <3>2. After(b, k) \in G
      BY <3>1, <1>1
    <3> QED BY <3>1, <3>2
  <2>2. CASE ~Whole(b, k)
    BY <2>2, ScanStop
  <2> QED BY <2>1, <2>2
<1>2. \A k \in 0..Len(b) : k \in G
  <2>1. Len(b) \in Nat
    OBVIOUS
  <2> HIDE DEF G
  <2> QED BY <1>1, <2>1, FromAbove
<1> QED BY <1>2, ScanStep

LEMMA FeedType ==
  ASSUME NEW b \in Seq(Bytes)
  PROVE  feed(b) \in Scans /\ feed(b).gone \in 0..Len(b)
BY ScanType, 0 \in 0..Len(b) DEF feed

\* More bytes do not change what has been decoded: the decoder goes on where it
\* stopped.
LEMMA ScanGoesOn ==
  ASSUME NEW a \in Seq(Bytes), NEW c \in Seq(Bytes)
  PROVE  LET b == a \o c
         IN \A k \in 0..Len(a) :
              ~scan(a)[k].bad =>
                LET r == scan(a)[k].gone
                IN /\ scan(b)[k].out = scan(a)[k].out \o scan(b)[r].out
                   /\ scan(b)[k].gone = scan(b)[r].gone
                   /\ scan(b)[k].bad = scan(b)[r].bad
<1> DEFINE b == a \o c
           Goes(k) == ~scan(a)[k].bad =>
                        /\ scan(b)[k].out = scan(a)[k].out \o scan(b)[scan(a)[k].gone].out
                        /\ scan(b)[k].gone = scan(b)[scan(a)[k].gone].gone
                        /\ scan(b)[k].bad = scan(b)[scan(a)[k].gone].bad
           G == {k \in 0..Len(a) : Goes(k)}
<1>1. b \in Seq(Bytes) /\ Len(b) = Len(a) + Len(c) /\ \A i \in 1..Len(a) : b[i] = a[i]
  OBVIOUS
<1> HIDE DEF b
<1>2. ASSUME NEW k \in 0..Len(a), \A j \in (k + 1)..Len(a) : j \in G PROVE Goes(k)
  <2>0. k \in 0..Len(b) /\ scan(b)[k] \in Scans
    BY <1>1, ScanType
  <2>1. CASE ~Whole(a, k)
    <3>1. scan(a)[k].gone = k /\ scan(a)[k].out = <<>>
      BY <2>1, ScanStop
    <3>2. scan(b)[k].out = <<>> \o scan(b)[k].out
      BY <2>0 DEF Scans
    <3> QED BY <3>1, <3>2
  <2>2. CASE Whole(a, k)
    <3> DEFINE n == After(a, k)
    <3>1. /\ a[k + 2].head \in Heads /\ n \in (k + 2)..Len(a) /\ scan(a)[n] \in Scans
          /\ scan(a)[k].out = <<a[k + 2].head>> \o scan(a)[n].out
          /\ scan(a)[k].gone = scan(a)[n].gone /\ scan(a)[k].bad = scan(a)[n].bad
      BY <2>2, ScanWhole
    <3>2. k + 1 \in 1..Len(a) /\ k + 2 \in 1..Len(a)
      BY <2>2 DEF Whole
    <3>3. b[k + 1] = a[k + 1] /\ b[k + 2] = a[k + 2]
      BY <3>2, <1>1
    <3>4. Whole(b, k)
      <4>1. a[k + 2].head.size \in Nat
        BY <3>1 DEF Heads
      <4> QED BY <2>2, <3>3, <1>1, <4>1 DEF Whole
    <3>5. After(b, k) = n
      BY <3>3 DEF After
    <3> HIDE DEF n
    <3>6. /\ scan(b)[k].out = <<a[k + 2].head>> \o scan(b)[n].out
          /\ scan(b)[k].gone = scan(b)[n].gone /\ scan(b)[k].bad = scan(b)[n].bad
      BY <3>3, <3>4, <3>5, <2>0, <1>1, ScanWhole
    <3>7. n \in G
      <4>1. n \in (k + 1)..Len(a)
        BY <3>1
      <4> HIDE DEF G
      <4> QED BY <4>1, <1>2
    <3>8. SUFFICES ASSUME ~scan(a)[k].bad
                   PROVE  /\ scan(b)[k].out = scan(a)[k].out \o scan(b)[scan(a)[k].gone].out
                          /\ scan(b)[k].gone = scan(b)[scan(a)[k].gone].gone
                          /\ scan(b)[k].bad = scan(b)[scan(a)[k].gone].bad
      OBVIOUS
    <3> DEFINE r == scan(a)[k].gone
    <3>9. r = scan(a)[n].gone /\ ~scan(a)[n].bad
      BY <3>1, <3>8
    <3>10. /\ scan(b)[n].out = scan(a)[n].out \o scan(b)[r].out
           /\ scan(b)[n].gone = scan(b)[r].gone /\ scan(b)[n].bad = scan(b)[r].bad
      BY <3>7, <3>9
    <3>11. scan(b)[r] \in Scans
      <4>1. r \in 0..Len(b)
        BY <3>9, <3>1, <1>1, ScanType
      <4> QED BY <4>1, <1>1, ScanType
    <3>12. (<<a[k + 2].head>> \o scan(a)[n].out) \o scan(b)[r].out
            = <<a[k + 2].head>> \o (scan(a)[n].out \o scan(b)[r].out)
      <4> DEFINE x == <<a[k + 2].head>>
                 y == scan(a)[n].out
                 z == scan(b)[r].out
      <4>1. x \in Seq(Heads) /\ y \in Seq(Heads) /\ z \in Seq(Heads)
        BY <3>1, <3>11 DEF Scans
      <4> HIDE DEF x, y, z
      <4>2. (x \o y) \o z = x \o (y \o z)
        BY <4>1, ConcatAssociative
      <4> QED BY <4>2 DEF x, y, z
    <3> QED BY <3>1, <3>6, <3>10, <3>12
  <2> QED BY <2>1, <2>2
<1>3. \A k \in 0..Len(a) : k \in G
  <2>1. \A k \in 0..Len(a) : (\A j \in (k + 1)..Len(a) : j \in G) => k \in G
    BY <1>2
  <2>2. Len(a) \in Nat
    OBVIOUS
  <2> HIDE DEF G
  <2> QED BY <2>1, <2>2, FromAbove
<1> QED BY <1>3 DEF b

\* A buffer that is fine with more bytes is fine without them.
LEMMA ScanPrefix ==
  ASSUME NEW a \in Seq(Bytes), NEW c \in Seq(Bytes)
  PROVE  \A k \in 0..Len(a) : ~scan(a \o c)[k].bad => ~scan(a)[k].bad
<1> DEFINE b == a \o c
           G == {k \in 0..Len(a) : ~scan(b)[k].bad => ~scan(a)[k].bad}
<1>1. b \in Seq(Bytes) /\ Len(b) = Len(a) + Len(c) /\ \A i \in 1..Len(a) : b[i] = a[i]
  OBVIOUS
<1> HIDE DEF b
<1>2. ASSUME NEW k \in 0..Len(a), \A j \in (k + 1)..Len(a) : j \in G,
             ~scan(b)[k].bad
      PROVE  ~scan(a)[k].bad
  <2>0. k \in 0..Len(b)
    BY <1>1
  <2>1. CASE Whole(a, k)
    <3> DEFINE n == After(a, k)
    <3>1. /\ a[k + 2].head \in Heads /\ n \in (k + 2)..Len(a)
          /\ scan(a)[k].bad = scan(a)[n].bad
      BY <2>1, ScanWhole
    <3>2. k + 1 \in 1..Len(a) /\ k + 2 \in 1..Len(a)
      BY <2>1 DEF Whole
    <3>3. b[k + 1] = a[k + 1] /\ b[k + 2] = a[k + 2]
      BY <3>2, <1>1
    <3>4. Whole(b, k)
      <4>1. a[k + 2].head.size \in Nat
        BY <3>1 DEF Heads
      <4> QED BY <2>1, <3>3, <1>1, <4>1 DEF Whole
    <3>5. After(b, k) = n
      BY <3>3 DEF After
    <3> HIDE DEF n
    <3>6. scan(b)[k].bad = scan(b)[n].bad
      BY <3>4, <3>5, <2>0, <1>1, ScanWhole
    <3>7. n \in G
      <4>1. n \in (k + 1)..Len(a)
        BY <3>1
      <4> HIDE DEF G
      <4> QED BY <4>1, <1>2
    <3> QED BY <3>1, <3>6, <3>7, <1>2
  <2>2. CASE ~Whole(a, k)
    <3>1. SUFFICES ASSUME Broken(a, k) PROVE FALSE
      BY <2>2, ScanStop
    <3>2. k + 1 \in 1..Len(a)
      BY <3>1 DEF Broken
    <3>3. Broken(b, k)
      BY <3>1, <3>2, <1>1 DEF Broken
    <3>4. ~Whole(b, k)
      BY <3>3 DEF Broken, Whole
    <3> QED BY <3>3, <3>4, <2>0, <1>1, <1>2, ScanStop
  <2> QED BY <2>1, <2>2
<1>3. \A k \in 0..Len(a) : k \in G
  <2>1. \A k \in 0..Len(a) : (\A j \in (k + 1)..Len(a) : j \in G) => k \in G
    BY <1>2
  <2>2. Len(a) \in Nat
    OBVIOUS
  <2> HIDE DEF G
  <2> QED BY <2>1, <2>2, FromAbove
<1> QED BY <1>3 DEF b

\* The decoder makes the same of what is behind place j, alone.
LEMMA ScanShift ==
  ASSUME NEW b \in Seq(Bytes), NEW j \in 0..Len(b)
  PROVE  LET d == SubSeq(b, j + 1, Len(b))
         IN \A k \in 0..Len(d) : /\ scan(b)[j + k].out = scan(d)[k].out
                                 /\ scan(b)[j + k].gone = j + scan(d)[k].gone
                                 /\ scan(b)[j + k].bad = scan(d)[k].bad
<1> DEFINE d == SubSeq(b, j + 1, Len(b))
           Same(k) == /\ scan(b)[j + k].out = scan(d)[k].out
                      /\ scan(b)[j + k].gone = j + scan(d)[k].gone
                      /\ scan(b)[j + k].bad = scan(d)[k].bad
           G == {k \in 0..Len(d) : Same(k)}
<1>1. d \in Seq(Bytes) /\ Len(d) = Len(b) - j /\ \A i \in 1..Len(d) : d[i] = b[j + i]
  <2>1. \A i \in (j + 1)..Len(b) : b[i] \in Bytes
    OBVIOUS
  <2>2. /\ d \in Seq(Bytes)
        /\ Len(d) = IF j + 1 <= Len(b) THEN Len(b) - (j + 1) + 1 ELSE 0
        /\ \A i \in 1..(Len(b) - (j + 1) + 1) : d[i] = b[j + 1 + i - 1]
    BY <2>1, SubSeqProperties
  <2> HIDE DEF d
  <2> QED BY <2>2
<1> HIDE DEF d
<1>2. ASSUME NEW k \in 0..Len(d), \A i \in (k + 1)..Len(d) : i \in G
      PROVE  Same(k)
  <2>1. j + k \in 0..Len(b) /\ Len(b) - (j + k) = Len(d) - k
    BY <1>1
  <2>2. Len(d) - k >= 2 => d[k + 1] = b[j + k + 1] /\ d[k + 2] = b[j + k + 2]
    <3>1. SUFFICES ASSUME Len(d) - k >= 2 PROVE d[k + 1] = b[j + k + 1] /\ d[k + 2] = b[j + k + 2]
      OBVIOUS
    <3>2. k + 1 \in 1..Len(d) /\ k + 2 \in 1..Len(d)
      BY <3>1
    <3>3. j + (k + 1) = j + k + 1 /\ j + (k + 2) = j + k + 2
      OBVIOUS
    <3> QED BY <3>2, <3>3, <1>1
  <2>3. CASE Whole(d, k)
    <3>1. Whole(b, j + k)
      BY <2>1, <2>2, <2>3 DEF Whole
    <3> DEFINE n == After(d, k)
    <3>2. /\ d[k + 2].head \in Heads /\ n \in (k + 2)..Len(d)
          /\ scan(d)[k].out = <<d[k + 2].head>> \o scan(d)[n].out
          /\ scan(d)[k].gone = scan(d)[n].gone /\ scan(d)[k].bad = scan(d)[n].bad
      BY <2>3, <1>1, ScanWhole
    <3>3. After(b, j + k) = j + n
      <4>1. d[k + 2].head.size \in Nat /\ d[k + 2] = b[j + k + 2]
        BY <3>2, <2>2, <2>3 DEF Heads, Whole
      <4> QED BY <4>1 DEF After
    <3>4. /\ scan(b)[j + k].out = <<b[j + k + 2].head>> \o scan(b)[After(b, j + k)].out
          /\ scan(b)[j + k].gone = scan(b)[After(b, j + k)].gone
          /\ scan(b)[j + k].bad = scan(b)[After(b, j + k)].bad
      BY <3>1, <2>1, ScanWhole
    <3>5. d[k + 2] = b[j + k + 2]
      BY <2>2, <2>3 DEF Whole
    <3>6. n \in G
      <4>1. n \in (k + 1)..Len(d)
        BY <3>2
      <4> HIDE DEF G
      <4> QED BY <4>1, <1>2
    <3> HIDE DEF n
    <3> QED BY <3>2, <3>3, <3>4, <3>5, <3>6
  <2>4. CASE ~Whole(d, k)
    <3>1. ~Whole(b, j + k)
      BY <2>1, <2>2, <2>4 DEF Whole
    <3>2. Broken(d, k) <=> Broken(b, j + k)
      BY <2>1, <2>2 DEF Broken
    <3>3. scan(d)[k].out = <<>> /\ scan(d)[k].gone = k /\ scan(d)[k].bad \in BOOLEAN
          /\ (scan(d)[k].bad <=> Broken(d, k))
      BY <2>4, <1>1, ScanStop
    <3>4. scan(b)[j + k].out = <<>> /\ scan(b)[j + k].gone = j + k /\ scan(b)[j + k].bad \in BOOLEAN
          /\ (scan(b)[j + k].bad <=> Broken(b, j + k))
      BY <3>1, <2>1, ScanStop
    <3> QED BY <3>2, <3>3, <3>4
  <2> QED BY <2>3, <2>4
<1>3. \A k \in 0..Len(d) : k \in G
  <2>1. \A k \in 0..Len(d) : (\A i \in (k + 1)..Len(d) : i \in G) => k \in G
    BY <1>2
  <2>2. Len(d) \in Nat
    BY <1>1
  <2> HIDE DEF G
  <2> QED BY <2>1, <2>2, FromAbove
<1> QED BY <1>3 DEF d

\* What is behind place r of a sequence.
LEMMA Behind ==
  ASSUME NEW S, NEW s \in Seq(S), NEW r \in 0..Len(s)
  PROVE  /\ SubSeq(s, r + 1, Len(s)) \in Seq(S)
         /\ Len(SubSeq(s, r + 1, Len(s))) = Len(s) - r
         /\ \A i \in 1..(Len(s) - r) : SubSeq(s, r + 1, Len(s))[i] = s[r + i]
<1> DEFINE d == SubSeq(s, r + 1, Len(s))
<1>1. r + 1 \in Int /\ Len(s) \in Int /\ \A i \in (r + 1)..Len(s) : s[i] \in S
  OBVIOUS
<1>2. /\ d \in Seq(S)
      /\ Len(d) = IF r + 1 <= Len(s) THEN Len(s) - (r + 1) + 1 ELSE 0
      /\ \A i \in 1..(Len(s) - (r + 1) + 1) : d[i] = s[r + 1 + i - 1]
  BY <1>1, SubSeqProperties
<1> HIDE DEF d
<1>3. Len(s) - (r + 1) + 1 = Len(s) - r /\ \A i \in 1..(Len(s) - r) : r + 1 + i - 1 = r + i
  OBVIOUS
<1>4. Len(d) = Len(s) - r
  BY <1>2
<1> QED BY <1>2, <1>3, <1>4 DEF d

LEMMA BehindConcat ==
  ASSUME NEW S, NEW s \in Seq(S), NEW t \in Seq(S), NEW r \in 0..Len(s)
  PROVE  SubSeq(s \o t, r + 1, Len(s \o t)) = SubSeq(s, r + 1, Len(s)) \o t
<1> DEFINE b == s \o t
           d == SubSeq(b, r + 1, Len(b))
           e == SubSeq(s, r + 1, Len(s))
<1>1. b \in Seq(S) /\ Len(b) = Len(s) + Len(t) /\ r \in 0..Len(b)
  OBVIOUS
<1>2. d \in Seq(S) /\ Len(d) = Len(b) - r /\ \A i \in 1..(Len(b) - r) : d[i] = b[r + i]
  <2> HIDE DEF b
  <2> QED BY <1>1, Behind
<1>3. e \in Seq(S) /\ Len(e) = Len(s) - r /\ \A i \in 1..(Len(s) - r) : e[i] = s[r + i]
  BY Behind
<1>4. \A i \in 1..Len(s) + Len(t) : b[i] = IF i <= Len(s) THEN s[i] ELSE t[i - Len(s)]
  OBVIOUS
<1> HIDE DEF b, d, e
<1>5. /\ e \o t \in Seq(S) /\ Len(e \o t) = Len(s) - r + Len(t)
      /\ \A i \in 1..(Len(s) - r + Len(t)) :
           (e \o t)[i] = IF i <= Len(s) - r THEN e[i] ELSE t[i - (Len(s) - r)]
  <2>1. /\ e \o t \in Seq(S) /\ Len(e \o t) = Len(e) + Len(t)
        /\ \A i \in 1..(Len(e) + Len(t)) :
             (e \o t)[i] = IF i <= Len(e) THEN e[i] ELSE t[i - Len(e)]
    BY <1>3, ConcatProperties
  <2> QED BY <2>1, <1>3
<1>6. ASSUME NEW i \in 1..Len(d) PROVE d[i] = (e \o t)[i]
  <2>1. i \in 1..(Len(s) - r + Len(t)) /\ r + i \in 1..(Len(s) + Len(t)) /\ d[i] = b[r + i]
    BY <1>1, <1>2
  <2>2. CASE i <= Len(s) - r
    BY <2>1, <2>2, <1>3, <1>4, <1>5
  <2>3. CASE i > Len(s) - r
    <3>1. b[r + i] = t[r + i - Len(s)]
      BY <2>1, <2>3, <1>4
    <3>2. (e \o t)[i] = t[i - (Len(s) - r)]
      BY <2>1, <2>3, <1>5
    <3>3. i - (Len(s) - r) = r + i - Len(s)
      OBVIOUS
    <3> QED BY <2>1, <3>1, <3>2, <3>3
  <2>4. i \in Int /\ Len(s) \in Int /\ r \in Int
    OBVIOUS
  <2> HIDE DEF b, d, e
  <2>5. i <= Len(s) - r \/ i > Len(s) - r
    BY <2>4
  <2> QED BY <2>2, <2>3, <2>5
<1>7. Len(d) = Len(e \o t)
  BY <1>1, <1>2, <1>5
<1> QED BY <1>2, <1>5, <1>6, <1>7, SeqEqual DEF b, d, e

\* The bytes the decoder leaves in its buffer.
Rest(b) == SubSeq(b, feed(b).gone + 1, Len(b))

LEMMA RestType ==
  ASSUME NEW b \in Seq(Bytes)
  PROVE  Rest(b) \in Seq(Bytes) /\ Len(Rest(b)) = Len(b) - feed(b).gone
BY FeedType, Behind DEF Rest

\* However the bytes are cut, the same frames come out (FrameDecoder.feed with
\* a, then with c, and with both at once).
THEOREM CutAnywhere ==
  ASSUME NEW a \in Seq(Bytes), NEW c \in Seq(Bytes), ~feed(a).bad
  PROVE  /\ feed(a \o c).out = feed(a).out \o feed(Rest(a) \o c).out
         /\ feed(a \o c).gone = feed(a).gone + feed(Rest(a) \o c).gone
         /\ feed(a \o c).bad = feed(Rest(a) \o c).bad
<1> DEFINE b == a \o c
           r == feed(a).gone
<1>1. b \in Seq(Bytes) /\ Len(b) = Len(a) + Len(c) /\ r \in 0..Len(a) /\ r \in 0..Len(b)
  BY FeedType
<1>2. SubSeq(b, r + 1, Len(b)) = Rest(a) \o c
  BY <1>1, BehindConcat DEF Rest
<1>3. /\ scan(b)[0].out = scan(a)[0].out \o scan(b)[r].out
      /\ scan(b)[0].gone = scan(b)[r].gone /\ scan(b)[0].bad = scan(b)[r].bad
  BY ScanGoesOn, 0 \in 0..Len(a) DEF feed
<1>4. /\ scan(b)[r].out = feed(Rest(a) \o c).out
      /\ scan(b)[r].gone = r + feed(Rest(a) \o c).gone
      /\ scan(b)[r].bad = feed(Rest(a) \o c).bad
  <2> DEFINE d == Rest(a) \o c
  <2>0. Rest(a) \in Seq(Bytes)
    BY RestType
  <2>1. d \in Seq(Bytes) /\ 0 \in 0..Len(d) /\ d = SubSeq(b, r + 1, Len(b))
    <3>1. d \in Seq(Bytes)
      BY <2>0
    <3>2. d = SubSeq(b, r + 1, Len(b))
      BY <1>2
    <3> HIDE DEF d, b, r
    <3> QED BY <3>1, <3>2
  <2>2. \A k \in 0..Len(d) : /\ scan(b)[r + k].out = scan(d)[k].out
                             /\ scan(b)[r + k].gone = r + scan(d)[k].gone
                             /\ scan(b)[r + k].bad = scan(d)[k].bad
    <3> HIDE DEF d, r, b
    <3> QED BY <1>1, <2>1, ScanShift
  <2>3. r + 0 = r
    BY <1>1
  <2> HIDE DEF d
  <2>4. /\ scan(b)[r + 0].out = scan(d)[0].out
        /\ scan(b)[r + 0].gone = r + scan(d)[0].gone
        /\ scan(b)[r + 0].bad = scan(d)[0].bad
    BY <2>1, <2>2
  <2> HIDE DEF b, r
  <2> QED BY <2>3, <2>4 DEF d, feed
<1> QED BY <1>3, <1>4 DEF feed

-----------------------------------------------------------------------------
(* Bytes that are whole frames, and nothing else.                            *)

Clean(b) == ~feed(b).bad /\ feed(b).gone = Len(b)

LEMMA CleanRest ==
  ASSUME NEW b \in Seq(Bytes), Clean(b)
  PROVE  Rest(b) = <<>>
<1>1. Rest(b) \in Seq(Bytes) /\ Len(Rest(b)) = 0
  BY RestType DEF Clean
<1> QED BY <1>1, EmptySeq

LEMMA CleanEmpty == Clean(<<>>) /\ feed(<<>>).out = <<>>
<1>1. <<>> \in Seq(Bytes) /\ Len(<<>>) = 0 /\ 0 \in 0..Len(<<>>)
  BY EmptySeq
<1>2. ~Whole(<<>>, 0) /\ ~Broken(<<>>, 0)
  BY <1>1 DEF Whole, Broken
<1> QED BY <1>1, <1>2, ScanStop DEF Clean, feed

\* Frames on top of frames.
LEMMA CleanConcat ==
  ASSUME NEW b \in Seq(Bytes), NEW c \in Seq(Bytes), Clean(b), Clean(c)
  PROVE  Clean(b \o c) /\ feed(b \o c).out = feed(b).out \o feed(c).out
<1>1. Rest(b) \o c = c
  BY CleanRest, ConcatEmptySeq
<1>2. /\ feed(b \o c).out = feed(b).out \o feed(c).out
      /\ feed(b \o c).gone = Len(b) + Len(c)
      /\ feed(b \o c).bad = feed(c).bad
  <2>1. ~feed(b).bad /\ feed(b).gone = Len(b) /\ feed(c).gone = Len(c)
    BY DEF Clean
  <2>2. /\ feed(b \o c).out = feed(b).out \o feed(Rest(b) \o c).out
        /\ feed(b \o c).gone = feed(b).gone + feed(Rest(b) \o c).gone
        /\ feed(b \o c).bad = feed(Rest(b) \o c).bad
    BY <2>1, CutAnywhere
  <2> QED BY <1>1, <2>1, <2>2
<1>3. Len(b \o c) = Len(b) + Len(c)
  OBVIOUS
<1> QED BY <1>2, <1>3 DEF Clean

LEMMA CleanFrame ==
  ASSUME NEW h \in Heads, NEW body \in Seq(Bytes), h.size = Len(body)
  PROVE  /\ Frame(h, body) \in Seq(Bytes)
         /\ Clean(Frame(h, body)) /\ feed(Frame(h, body)).out = <<h>>
<1> DEFINE x == Byte("STX")
           y == [kind |-> "rest", head |-> h]
           b == Frame(h, body)
<1>1. x \in Bytes /\ y \in Bytes /\ x.kind = "STX" /\ y.head = h
  <2>1. NoHead \in Heads
    BY DEF NoHead, Heads, Types
  <2> QED BY <2>1 DEF Byte, Bytes
<1> HIDE DEF x, y
<1>2. b = <<x, y>> \o body
  BY DEF Frame, x, y
<1> HIDE DEF b
<1>3. b \in Seq(Bytes) /\ Len(b) = 2 + Len(body) /\ b[1] = x /\ b[2] = y
  BY <1>1, <1>2
<1>4. Whole(b, 0) /\ After(b, 0) = Len(b)
  BY <1>3, <1>1 DEF Whole, After
<1>5. /\ scan(b)[0].out = <<h>> \o scan(b)[Len(b)].out
      /\ scan(b)[0].gone = scan(b)[Len(b)].gone /\ scan(b)[0].bad = scan(b)[Len(b)].bad
  <2>1. 0 \in 0..Len(b) /\ b[0 + 2].head = h
    BY <1>3, <1>1
  <2> QED BY <2>1, <1>3, <1>4, ScanWhole
<1>6. scan(b)[Len(b)].out = <<>> /\ scan(b)[Len(b)].gone = Len(b) /\ ~scan(b)[Len(b)].bad
  <2>1. Len(b) \in 0..Len(b) /\ ~Whole(b, Len(b)) /\ ~Broken(b, Len(b))
    BY <1>3 DEF Whole, Broken
  <2> QED BY <2>1, <1>3, ScanStop
<1>7. <<h>> \o <<>> = <<h>>
  <2>1. <<h>> \in Seq(Heads)
    OBVIOUS
  <2> QED BY <2>1, ConcatEmptySeq
<1> QED BY <1>3, <1>5, <1>6, <1>7 DEF Clean, feed, b

Copies(h, n) == [i \in 1..n |-> h]

LEMMA CopiesMore ==
  ASSUME NEW h \in Heads, NEW n \in Nat
  PROVE  /\ Copies(h, n) \in Seq(Heads) /\ Len(Copies(h, n)) = n
         /\ Copies(h, n + 1) = Copies(h, n) \o <<h>>
<1>1. ASSUME NEW m \in Nat PROVE Copies(h, m) \in Seq(Heads) /\ Len(Copies(h, m)) = m
  BY DEF Copies
<1>2. Copies(h, n) \o <<h>> \in Seq(Heads) /\ Len(Copies(h, n) \o <<h>>) = n + 1
  BY <1>1
<1>3. ASSUME NEW i \in 1..(n + 1) PROVE Copies(h, n + 1)[i] = (Copies(h, n) \o <<h>>)[i]
  BY <1>1 DEF Copies
<1>4. Copies(h, n + 1) \in Seq(Heads) /\ Len(Copies(h, n + 1)) = n + 1
  BY <1>1
<1>5. Copies(h, n + 1) = Copies(h, n) \o <<h>>
  BY <1>2, <1>3, <1>4, SeqEqual
<1> QED BY <1>1, <1>5

LEMMA FramesMore ==
  ASSUME NEW h \in Heads, NEW n \in Nat
  PROVE  /\ Frames(h, n) \in Seq(Bytes)
         /\ Frames(h, n + 1) = Frames(h, n) \o Frame(h, <<>>)
<1> DEFINE x == Byte("STX")
           y == [kind |-> "rest", head |-> h]
<1>1. x \in Bytes /\ y \in Bytes
  <2>1. NoHead \in Heads
    BY DEF NoHead, Heads, Types
  <2> QED BY <2>1 DEF Byte, Bytes
<1> HIDE DEF x, y
<1>2. ASSUME NEW m \in Nat
      PROVE  /\ Frames(h, m) \in Seq(Bytes) /\ Len(Frames(h, m)) = 2 * m
             /\ \A k \in 1..(2 * m) : Frames(h, m)[k] = IF k % 2 = 1 THEN x ELSE y
  <2>1. Frames(h, m) = [k \in 1..(2 * m) |-> IF k % 2 = 1 THEN x ELSE y]
    BY DEF Frames, HEADER, x, y
  <2>2. 2 * m \in Nat
    OBVIOUS
  <2> QED BY <1>1, <2>1, <2>2
<1>3. Frame(h, <<>>) = <<x, y>>
  <2>1. <<x, y>> \in Seq(Bytes)
    BY <1>1
  <2>2. <<x, y>> \o <<>> = <<x, y>>
    BY <2>1, ConcatEmptySeq
  <2> QED BY <2>2 DEF Frame, x, y
<1> DEFINE d == Frames(h, n) \o <<x, y>>
           e == Frames(h, n + 1)
<1>4. /\ d \in Seq(Bytes) /\ Len(d) = 2 * n + 2
      /\ \A k \in 1..(2 * n) : d[k] = Frames(h, n)[k]
      /\ d[2 * n + 1] = x /\ d[2 * n + 2] = y
  <2> DEFINE f == Frames(h, n)
             g == <<x, y>>
  <2>1. f \in Seq(Bytes) /\ Len(f) = 2 * n
    BY <1>2
  <2>2. g \in Seq(Bytes) /\ Len(g) = 2 /\ g[1] = x /\ g[2] = y
    BY <1>1
  <2> HIDE DEF f, g
  <2>3. /\ f \o g \in Seq(Bytes) /\ Len(f \o g) = Len(f) + Len(g)
        /\ \A i \in 1..(Len(f) + Len(g)) : (f \o g)[i] = IF i <= Len(f) THEN f[i] ELSE g[i - Len(f)]
    BY <2>1, <2>2, ConcatProperties
  <2>4. /\ f \o g \in Seq(Bytes) /\ Len(f \o g) = 2 * n + 2
        /\ \A i \in 1..(2 * n) : (f \o g)[i] = f[i]
    BY <2>1, <2>2, <2>3
  <2>5. (f \o g)[2 * n + 1] = g[1] /\ (f \o g)[2 * n + 2] = g[2]
    <3>1. 2 * n + 1 - 2 * n = 1 /\ 2 * n + 2 - 2 * n = 2
      OBVIOUS
    <3> QED BY <2>1, <2>2, <2>3, <3>1
  <2> QED BY <2>2, <2>4, <2>5 DEF f, g
<1>5. ASSUME NEW k \in 1..(2 * n + 2) PROVE d[k] = e[k]
  <2>1. e[k] = IF k % 2 = 1 THEN x ELSE y
    <3>1. n + 1 \in Nat /\ k \in 1..(2 * (n + 1))
      OBVIOUS
    <3> QED BY <3>1, <1>2
  <2>2. CASE k \in 1..(2 * n)
    BY <2>1, <2>2, <1>2, <1>4
  <2>3. CASE k = 2 * n + 1
    <3>1. k % 2 = 1
      BY <2>3
    <3> QED BY <2>1, <2>3, <3>1, <1>4
  <2>4. CASE k = 2 * n + 2
    <3>1. k % 2 = 0
      BY <2>4
    <3> QED BY <2>1, <2>4, <3>1, <1>4
  <2>5. k \in 1..(2 * n) \/ k = 2 * n + 1 \/ k = 2 * n + 2
    OBVIOUS
  <2> HIDE DEF d, e
  <2> QED BY <2>2, <2>3, <2>4, <2>5
<1>6. e \in Seq(Bytes) /\ Len(e) = 2 * n + 2
  <2>1. n + 1 \in Nat /\ 2 * (n + 1) = 2 * n + 2
    OBVIOUS
  <2> QED BY <2>1, <1>2
<1> HIDE DEF d, e
<1>7. d = e
  BY <1>4, <1>5, <1>6, SeqEqual
<1> QED BY <1>2, <1>3, <1>7 DEF d, e

LEMMA CleanFrames ==
  ASSUME NEW h \in Heads, h.size = 0
  PROVE  \A n \in Nat : /\ Frames(h, n) \in Seq(Bytes)
                        /\ Clean(Frames(h, n)) /\ feed(Frames(h, n)).out = Copies(h, n)
<1> DEFINE Fine(n) == Clean(Frames(h, n)) /\ feed(Frames(h, n)).out = Copies(h, n)
           G == {n \in Nat : Fine(n)}
<1>1. Fine(0)
  <2>1. Frames(h, 0) = <<>> /\ Copies(h, 0) = <<>>
    <3>1. Frames(h, 0) \in Seq(Bytes) /\ Copies(h, 0) \in Seq(Heads)
      BY FramesMore, CopiesMore, 0 \in Nat
    <3>2. Len(Frames(h, 0)) = 0 /\ Len(Copies(h, 0)) = 0
      BY DEF Frames, Copies, HEADER
    <3> QED BY <3>1, <3>2, EmptySeq
  <2> QED BY <2>1, CleanEmpty
<1>2. ASSUME NEW n \in Nat, Fine(n) PROVE Fine(n + 1)
  <2>1. Frames(h, n) \in Seq(Bytes) /\ Frames(h, n + 1) = Frames(h, n) \o Frame(h, <<>>)
    BY FramesMore
  <2>2. Frame(h, <<>>) \in Seq(Bytes) /\ Clean(Frame(h, <<>>)) /\ feed(Frame(h, <<>>)).out = <<h>>
    <3>1. <<>> \in Seq(Bytes) /\ Len(<<>>) = 0
      BY EmptySeq
    <3> QED BY <3>1, CleanFrame
  <2>3. Copies(h, n + 1) = Copies(h, n) \o <<h>>
    BY CopiesMore
  <2> QED BY <1>2, <2>1, <2>2, <2>3, CleanConcat
<1>3. Nat \subseteq G
  <2>1. 0 \in G /\ \A n \in Nat : n \in G => n + 1 \in G
    BY <1>1, <1>2
  <2> HIDE DEF G
  <2> QED BY <2>1, Upward
<1> QED BY <1>3, FramesMore

\* Frames that are added to the wire come out behind what is on their way.
LEMMA Added ==
  ASSUME NEW b \in Seq(Bytes), NEW w \in Seq(Bytes), Clean(b \o w),
         NEW x \in Seq(Bytes), Clean(x)
  PROVE  Clean(b \o (w \o x)) /\ feed(b \o (w \o x)).out = feed(b \o w).out \o feed(x).out
<1>1. b \o (w \o x) = (b \o w) \o x
  BY ConcatAssociative
<1>2. b \o w \in Seq(Bytes)
  OBVIOUS
<1> QED BY <1>1, <1>2, CleanConcat

\* recv: what came out now, and what will come.
LEMMA Received ==
  ASSUME NEW b \in Seq(Bytes), NEW w \in Seq(Bytes), Clean(b \o w), NEW n \in 1..Len(w)
  PROVE  LET a == b \o SubSeq(w, 1, n)
             v == SubSeq(w, n + 1, Len(w))
         IN  /\ a \in Seq(Bytes) /\ v \in Seq(Bytes) /\ Rest(a) \in Seq(Bytes)
             /\ ~feed(a).bad
             /\ Clean(Rest(a) \o v)
             /\ feed(b \o w).out = feed(a).out \o feed(Rest(a) \o v).out
<1> DEFINE u == SubSeq(w, 1, n)
           v == SubSeq(w, n + 1, Len(w))
           a == b \o u
<1>1. u \in Seq(Bytes) /\ v \in Seq(Bytes) /\ w = u \o v
  <2>1. u \in Seq(Bytes)
    <3>1. \A i \in 1..n : w[i] \in Bytes
      OBVIOUS
    <3> QED BY <3>1, SubSeqProperties
  <2>2. v \in Seq(Bytes)
    BY Behind
  <2>3. u \o v = SubSeq(w, 1, Len(w))
    BY ConcatAdjacentSubSeq
  <2> QED BY <2>1, <2>2, <2>3, SubSeqFull
<1> HIDE DEF u, v
<1>2. a \in Seq(Bytes) /\ b \o w = a \o v
  BY <1>1, ConcatAssociative
<1> HIDE DEF a
<1>3. ~feed(a).bad
  BY <1>1, <1>2, ScanPrefix, 0 \in 0..Len(a) DEF Clean, feed
<1>4. /\ feed(a \o v).out = feed(a).out \o feed(Rest(a) \o v).out
      /\ feed(a \o v).gone = feed(a).gone + feed(Rest(a) \o v).gone
      /\ feed(a \o v).bad = feed(Rest(a) \o v).bad
  BY <1>1, <1>2, <1>3, CutAnywhere
<1>5. Rest(a) \in Seq(Bytes) /\ Len(Rest(a)) = Len(a) - feed(a).gone
  BY <1>2, RestType
<1>6. feed(Rest(a) \o v).gone = Len(Rest(a) \o v)
  <2>1. Len(Rest(a) \o v) = Len(Rest(a)) + Len(v) /\ Len(a \o v) = Len(a) + Len(v)
    BY <1>1, <1>2, <1>5, ConcatProperties
  <2>2. feed(a).gone \in Nat /\ feed(Rest(a) \o v).gone \in Nat
    <3>1. Rest(a) \o v \in Seq(Bytes)
      BY <1>1, <1>5
    <3> QED BY <1>2, <3>1, FeedType DEF Scans
  <2>3. feed(a \o v).gone = Len(a) + Len(v)
    BY <1>2, <2>1 DEF Clean
  <2>4. Len(a) \in Nat /\ Len(v) \in Nat
    BY <1>1, <1>2
  <2>5. feed(a \o v).gone = feed(a).gone + feed(Rest(a) \o v).gone
    BY <1>4
  <2> QED BY <1>5, <2>1, <2>2, <2>3, <2>4, <2>5
<1>7. Clean(Rest(a) \o v)
  BY <1>2, <1>4, <1>6 DEF Clean
<1> QED BY <1>1, <1>2, <1>3, <1>4, <1>5, <1>7 DEF a, u, v

-----------------------------------------------------------------------------
(* The events of some frames, and the others.                                *)

\* What Chosen has after one frame more.
Sift(sofar, x, e) == IF is_event(x) = e THEN Append(sofar, x) ELSE sofar

LEMMA SiftTyped ==
  ASSUME NEW sofar \in Seq(Heads), NEW x \in Heads, NEW e
  PROVE  Sift(sofar, x, e) \in Seq(Heads)
BY DEF Sift

LEMMA ChosenUnfolds ==
  ASSUME NEW s \in Seq(Heads), NEW e
  PROVE  \E g \in [0..Len(s) -> Seq(Heads)] :
           /\ g[0] = <<>> /\ Chosen(s, e) = g[Len(s)]
           /\ \A n \in 1..Len(s) : g[n] = Sift(g[n - 1], s[n], e)
<1> DEFINE Rule(g, n) == IF n = 0 THEN <<>> ELSE Sift(g[n - 1], s[n], e)
           Solves(g) == g = [n \in 0..Len(s) |-> Rule(g, n)]
           To(m) == {g \in [0..Len(s) -> Seq(Heads)] : \A n \in 0..m : n <= Len(s) => g[n] = Rule(g, n)}
           G == {m \in Nat : To(m) # {}}
<1>1. 0 \in G
  <2> DEFINE g == [n \in 0..Len(s) |-> <<>>]
  <2>1. g \in [0..Len(s) -> Seq(Heads)] /\ g[0] = <<>>
    BY EmptySeq
  <2> HIDE DEF g
  <2>2. g \in To(0)
    BY <2>1
  <2> HIDE DEF To
  <2> QED BY <2>2
<1>2. ASSUME NEW m \in Nat, m \in G PROVE m + 1 \in G
  <2>1. PICK g : g \in To(m)
    <3> HIDE DEF To
    <3> QED BY <1>2
  <2>2. g \in [0..Len(s) -> Seq(Heads)] /\ \A n \in 0..m : n <= Len(s) => g[n] = Rule(g, n)
    BY <2>1
  <2>3. CASE m + 1 > Len(s)
    <3>1. \A n \in 0..(m + 1) : n <= Len(s) => n \in 0..m
      BY <2>3
    <3>2. g \in To(m + 1)
      <4> HIDE DEF Rule
      <4> QED BY <2>2, <3>1
    <3> HIDE DEF To
    <3> QED BY <3>2
  <2>4. CASE m + 1 \in 1..Len(s)
    <3> DEFINE y == Sift(g[m], s[m + 1], e)
               h == [g EXCEPT ![m + 1] = y]
    <3>1. y \in Seq(Heads)
      <4>1. g[m] \in Seq(Heads) /\ s[m + 1] \in Heads
        BY <2>2, <2>4
      <4> QED BY <4>1, SiftTyped
    <3> HIDE DEF y
    <3>2. h \in [0..Len(s) -> Seq(Heads)] /\ h[m + 1] = y /\ \A n \in 0..m : h[n] = g[n]
      BY <2>2, <2>4, <3>1
    <3> HIDE DEF h
    <3>3. ASSUME NEW n \in 0..(m + 1), n <= Len(s) PROVE h[n] = Rule(h, n)
      <4>1. CASE n = 0
        <5>1. g[0] = Rule(g, 0)
          BY <2>2
        <5> QED BY <4>1, <5>1, <3>2
      <4>2. CASE n \in 1..m
        <5>1. n - 1 \in 0..m /\ n \in 0..m /\ n # 0
          BY <4>2
        <5>2. g[n] = Rule(g, n)
          <6> HIDE DEF Rule
          <6> QED BY <5>1, <2>2, <3>3
        <5>3. Rule(g, n) = Rule(h, n)
          <6>1. h[n - 1] = g[n - 1]
            BY <5>1, <3>2
          <6> QED BY <6>1
        <5> HIDE DEF Rule
        <5> QED BY <5>1, <5>2, <5>3, <3>2
      <4>3. CASE n = m + 1
        <5>1. n - 1 = m /\ n # 0 /\ h[m] = g[m]
          BY <4>3, <3>2
        <5> QED BY <5>1, <4>3, <3>2 DEF y
      <4> QED BY <4>1, <4>2, <4>3
    <3>4. h \in To(m + 1)
      <4> HIDE DEF Rule
      <4> QED BY <3>2, <3>3
    <3> HIDE DEF To
    <3> QED BY <3>4
  <2> QED BY <2>3, <2>4
<1>3. Len(s) \in G
  <2>1. Nat \subseteq G
    <3> HIDE DEF G
    <3> QED BY <1>1, <1>2, Upward
  <2>2. Len(s) \in Nat
    OBVIOUS
  <2> HIDE DEF G
  <2> QED BY <2>1, <2>2
<1>4. PICK g : g \in To(Len(s))
  <2> HIDE DEF To
  <2> QED BY <1>3
<1>5. g \in [0..Len(s) -> Seq(Heads)] /\ \A n \in 0..Len(s) : g[n] = Rule(g, n)
  <2> HIDE DEF Rule
  <2> QED BY <1>4
<1>6. Solves(g)
  <2> HIDE DEF Rule
  <2> QED BY <1>5
<1> DEFINE f == CHOOSE h : Solves(h)
<1>7. Solves(f)
  <2> HIDE DEF Solves
  <2> QED BY <1>6
<1>8. Chosen(s, e) = f[Len(s)]
  BY DEF Chosen, Sift
<1>9. \A n \in 0..Len(s) : f[n] = Rule(f, n)
  <2> HIDE DEF f, Rule
  <2> QED BY <1>7
<1> HIDE DEF f
<1>10. f[0] = <<>> /\ \A n \in 1..Len(s) : f[n] = Sift(f[n - 1], s[n], e)
  BY <1>9
<1>11. \A n \in 0..Len(s) : f[n] \in Seq(Heads)
  <2> DEFINE T == {n \in Nat : n <= Len(s) => f[n] \in Seq(Heads)}
  <2>1. 0 \in T
    BY <1>10, EmptySeq
  <2>2. ASSUME NEW n \in Nat, n \in T PROVE n + 1 \in T
    <3>1. CASE n + 1 <= Len(s)
      <4>1. f[n] \in Seq(Heads) /\ n + 1 \in 1..Len(s) /\ s[n + 1] \in Heads
        BY <2>2, <3>1
      <4>2. f[n + 1] = Sift(f[n], s[n + 1], e)
        <5>1. (n + 1) - 1 = n
          OBVIOUS
        <5> QED BY <4>1, <5>1, <1>10
      <4> QED BY <4>1, <4>2, SiftTyped
    <3>2. CASE ~(n + 1 <= Len(s))
      BY <3>2
    <3> QED BY <3>1, <3>2
  <2>3. Nat \subseteq T
    <3> HIDE DEF T
    <3> QED BY <2>1, <2>2, Upward
  <2> QED BY <2>3
<1>12. f = [n \in 0..Len(s) |-> f[n]]
  <2>1. f = [n \in 0..Len(s) |-> Rule(f, n)]
    BY <1>7
  <2> HIDE DEF Rule
  <2> QED BY <2>1
<1>13. f \in [0..Len(s) -> Seq(Heads)]
  BY <1>11, <1>12
<1> QED BY <1>8, <1>10, <1>13

LEMMA ChosenType ==
  ASSUME NEW s \in Seq(Heads), NEW e
  PROVE  Chosen(s, e) \in Seq(Heads)
<1>1. PICK g \in [0..Len(s) -> Seq(Heads)] : Chosen(s, e) = g[Len(s)]
  BY ChosenUnfolds
<1>2. Len(s) \in 0..Len(s)
  OBVIOUS
<1> QED BY <1>1, <1>2

LEMMA ChosenEmpty ==
  ASSUME NEW e
  PROVE  Chosen(<<>>, e) = <<>>
<1>1. <<>> \in Seq(Heads) /\ Len(<<>>) = 0
  BY EmptySeq
<1> QED BY <1>1, ChosenUnfolds

LEMMA ChosenAppend ==
  ASSUME NEW s \in Seq(Heads), NEW x \in Heads, NEW e
  PROVE  Chosen(Append(s, x), e) = Sift(Chosen(s, e), x, e)
<1> DEFINE t == Append(s, x)
<1>1. t \in Seq(Heads) /\ Len(t) = Len(s) + 1 /\ t[Len(s) + 1] = x /\ \A i \in 1..Len(s) : t[i] = s[i]
  OBVIOUS
<1> HIDE DEF t
<1>2. PICK g \in [0..Len(s) -> Seq(Heads)] :
        /\ g[0] = <<>> /\ Chosen(s, e) = g[Len(s)]
        /\ \A n \in 1..Len(s) : g[n] = Sift(g[n - 1], s[n], e)
  BY ChosenUnfolds
<1>3. PICK h \in [0..Len(t) -> Seq(Heads)] :
        /\ h[0] = <<>> /\ Chosen(t, e) = h[Len(t)]
        /\ \A n \in 1..Len(t) : h[n] = Sift(h[n - 1], t[n], e)
  BY <1>1, ChosenUnfolds
<1> DEFINE T == {n \in Nat : n <= Len(s) => h[n] = g[n]}
<1>4. 0 \in T
  BY <1>2, <1>3
<1>5. ASSUME NEW n \in Nat, n \in T PROVE n + 1 \in T
  <2>1. CASE n + 1 <= Len(s)
    <3>1. h[n] = g[n] /\ n + 1 \in 1..Len(s) /\ n + 1 \in 1..Len(t) /\ (n + 1) - 1 = n
      BY <1>5, <2>1, <1>1
    <3>2. g[n + 1] = Sift(g[n], s[n + 1], e)
      BY <3>1, <1>2
    <3>3. h[n + 1] = Sift(h[n], t[n + 1], e)
      BY <3>1, <1>3
    <3> QED BY <3>1, <3>2, <3>3, <1>1
  <2>2. CASE ~(n + 1 <= Len(s))
    BY <2>2
  <2> QED BY <2>1, <2>2
<1>6. Nat \subseteq T
  <2> HIDE DEF T
  <2> QED BY <1>4, <1>5, Upward
<1>7. h[Len(s)] = g[Len(s)]
  <2>1. Len(s) \in Nat
    OBVIOUS
  <2> QED BY <2>1, <1>6
<1>8. h[Len(t)] = Sift(h[Len(s)], x, e)
  <2>1. Len(t) \in 1..Len(t) /\ Len(t) - 1 = Len(s) /\ t[Len(t)] = x
    BY <1>1
  <2> QED BY <2>1, <1>3
<1> QED BY <1>2, <1>3, <1>7, <1>8 DEF t

\* A sequence is the one before its last element, and that.
LEMMA Front ==
  ASSUME NEW S, NEW s \in Seq(S), s # <<>>
  PROVE  \E t \in Seq(S), x \in S : s = Append(t, x) /\ Len(t) = Len(s) - 1
<1>1. Len(s) \in Nat \ {0}
  BY EmptySeq
<1> DEFINE t == [i \in 1..(Len(s) - 1) |-> s[i]]
           x == s[Len(s)]
<1>2. x \in S
  BY <1>1
<1>3. Len(s) - 1 \in Nat /\ \A i \in 1..(Len(s) - 1) : s[i] \in S
  BY <1>1
<1>4. t \in Seq(S) /\ Len(t) = Len(s) - 1 /\ \A i \in 1..(Len(s) - 1) : t[i] = s[i]
  BY <1>3
<1> HIDE DEF t, x
<1>5. /\ Append(t, x) \in Seq(S) /\ Len(Append(t, x)) = Len(s)
      /\ \A i \in 1..Len(s) : Append(t, x)[i] = IF i <= Len(s) - 1 THEN t[i] ELSE x
  BY <1>1, <1>2, <1>4
<1>6. \A i \in 1..Len(s) : s[i] = Append(t, x)[i]
  BY <1>1, <1>4, <1>5 DEF x
<1>7. s = Append(t, x)
  BY <1>5, <1>6, SeqEqual
<1> QED BY <1>2, <1>4, <1>7

LEMMA SiftConcat ==
  ASSUME NEW s \in Seq(Heads), NEW t \in Seq(Heads), NEW x \in Heads, NEW e
  PROVE  Sift(s \o t, x, e) = s \o Sift(t, x, e)
<1> DEFINE u == Append(t, x)
<1>1. u \in Seq(Heads) /\ s \o t \in Seq(Heads)
  OBVIOUS
<1>2. s \o u = Append(s \o t, x)
  OBVIOUS
<1> HIDE DEF is_event
<1> QED BY <1>2 DEF Sift

LEMMA ChosenConcat ==
  ASSUME NEW s \in Seq(Heads), NEW e
  PROVE  \A t \in Seq(Heads) : Chosen(s \o t, e) = Chosen(s, e) \o Chosen(t, e)
<1> DEFINE Splits(t) == Chosen(s \o t, e) = Chosen(s, e) \o Chosen(t, e)
           G == {n \in Nat : \A t \in Seq(Heads) : Len(t) = n => Splits(t)}
<1>1. ASSUME NEW t \in Seq(Heads), Len(t) = 0 PROVE Splits(t)
  <2>1. t = <<>>
    BY <1>1, EmptySeq
  <2>2. s \o <<>> = s /\ Chosen(s, e) \o <<>> = Chosen(s, e)
    BY ChosenType, ConcatEmptySeq
  <2> QED BY <2>1, <2>2, ChosenEmpty
<1>2. ASSUME NEW n \in Nat, \A t \in Seq(Heads) : Len(t) = n => Splits(t),
             NEW t \in Seq(Heads), Len(t) = n + 1
      PROVE  Splits(t)
  <2>1. t # <<>>
    BY <1>2, EmptySeq
  <2>2. PICK u \in Seq(Heads), x \in Heads : t = Append(u, x) /\ Len(u) = Len(t) - 1
    BY <2>1, Front
  <2>3. Chosen(s \o u, e) = Chosen(s, e) \o Chosen(u, e)
    BY <1>2, <2>2
  <2>4. s \o t = Append(s \o u, x)
    BY <2>2
  <2>5. Chosen(s \o t, e) = Sift(Chosen(s, e) \o Chosen(u, e), x, e)
    <3>1. s \o u \in Seq(Heads)
      OBVIOUS
    <3> QED BY <2>3, <2>4, <3>1, ChosenAppend
  <2>6. Chosen(t, e) = Sift(Chosen(u, e), x, e)
    BY <2>2, ChosenAppend
  <2>7. Sift(Chosen(s, e) \o Chosen(u, e), x, e) = Chosen(s, e) \o Sift(Chosen(u, e), x, e)
    <3> DEFINE p == Chosen(s, e)
               q == Chosen(u, e)
    <3>1. p \in Seq(Heads) /\ q \in Seq(Heads)
      BY ChosenType
    <3> HIDE DEF p, q
    <3> QED BY <3>1, SiftConcat DEF p, q
  <2> QED BY <2>5, <2>6, <2>7
<1>3. Nat \subseteq G
  <2>1. 0 \in G
    BY <1>1
  <2>2. \A n \in Nat : n \in G => n + 1 \in G
    BY <1>2
  <2> HIDE DEF G
  <2> QED BY <2>1, <2>2, Upward
<1>4. ASSUME NEW t \in Seq(Heads) PROVE Splits(t)
  <2>1. Len(t) \in Nat
    OBVIOUS
  <2> HIDE DEF Splits
  <2> QED BY <2>1, <1>3
<1> QED BY <1>4

-----------------------------------------------------------------------------
(* The answers to a list.                                                    *)

\* A list of n infos taken has those of request r left in s, behind each other,
\* and then its answer.
Batch(s, r, n, first, last) ==
  /\ \A i \in 1..Len(s) : s[i].rid = r <=> i \in first..last
  /\ \A i \in first..(last - 1) : s[i].type = "info"
  /\ s[last].type # "info" /\ s[last].infos = n + (last - first)

\* The answers to request r in s, when n infos of it have been taken: none as
\* long as VICE has not worked on it, then a batch.
Listed(s, r, n) ==
  \/ n = 0 /\ \A i \in 1..Len(s) : s[i].rid # r
  \/ \E first \in 1..Len(s) : \E last \in first..Len(s) : Batch(s, r, n, first, last)

LEMMA WithoutElements ==
  ASSUME NEW s \in Seq(Heads), NEW i \in 1..Len(s)
  PROVE  /\ Without(s, i) \in Seq(Heads) /\ Len(Without(s, i)) = Len(s) - 1
         /\ \A j \in 1..(Len(s) - 1) : Without(s, i)[j] = IF j < i THEN s[j] ELSE s[j + 1]
<1> DEFINE p == SubSeq(s, 1, i - 1)
           q == SubSeq(s, i + 1, Len(s))
<1>1. p \in Seq(Heads) /\ Len(p) = i - 1 /\ \A j \in 1..(i - 1) : p[j] = s[j]
  <2>1. \A j \in 1..(i - 1) : s[j] \in Heads
    OBVIOUS
  <2>2. /\ p \in Seq(Heads) /\ Len(p) = IF 1 <= i - 1 THEN i - 1 - 1 + 1 ELSE 0
        /\ \A j \in 1..(i - 1 - 1 + 1) : p[j] = s[1 + j - 1]
    BY <2>1, SubSeqProperties
  <2> HIDE DEF p
  <2> QED BY <2>2
<1>2. q \in Seq(Heads) /\ Len(q) = Len(s) - i /\ \A j \in 1..(Len(s) - i) : q[j] = s[i + j]
  <2>1. i \in 0..Len(s)
    OBVIOUS
  <2> QED BY <2>1, Behind
<1> HIDE DEF p, q
<1>3. /\ p \o q \in Seq(Heads) /\ Len(p \o q) = Len(p) + Len(q)
      /\ \A j \in 1..(Len(p) + Len(q)) : (p \o q)[j] = IF j <= Len(p) THEN p[j] ELSE q[j - Len(p)]
  BY <1>1, <1>2, ConcatProperties
<1>4. Len(p \o q) = Len(s) - 1
  BY <1>1, <1>2, <1>3
<1>5. ASSUME NEW j \in 1..(Len(s) - 1) PROVE (p \o q)[j] = IF j < i THEN s[j] ELSE s[j + 1]
  <2>1. j \in 1..(Len(p) + Len(q))
    BY <1>1, <1>2
  <2>2. CASE j < i
    BY <2>1, <2>2, <1>1, <1>3
  <2>3. CASE j >= i
    <3>1. (p \o q)[j] = q[j - (i - 1)]
      BY <2>1, <2>3, <1>1, <1>3
    <3>2. j - (i - 1) \in 1..(Len(s) - i) /\ i + (j - (i - 1)) = j + 1
      BY <2>3
    <3> QED BY <2>3, <3>1, <3>2, <1>2
  <2>4. j < i \/ j >= i
    OBVIOUS
  <2> QED BY <2>2, <2>3, <2>4
<1>6. Without(s, i) = p \o q
  BY DEF Without, p, q
<1> QED BY <1>3, <1>4, <1>5, <1>6

LEMMA WithoutConcat ==
  ASSUME NEW s \in Seq(Heads), NEW t \in Seq(Heads), NEW i \in 1..Len(s)
  PROVE  Without(s \o t, i) = Without(s, i) \o t
<1> DEFINE u == s \o t
           v == Without(s, i)
<1>1. /\ u \in Seq(Heads) /\ Len(u) = Len(s) + Len(t)
      /\ \A j \in 1..(Len(s) + Len(t)) : u[j] = IF j <= Len(s) THEN s[j] ELSE t[j - Len(s)]
  BY ConcatProperties
<1>2. /\ v \in Seq(Heads) /\ Len(v) = Len(s) - 1
      /\ \A j \in 1..(Len(s) - 1) : v[j] = IF j < i THEN s[j] ELSE s[j + 1]
  BY WithoutElements
<1> HIDE DEF u, v
<1> DEFINE x == Without(u, i)
           y == v \o t
<1>3. /\ x \in Seq(Heads) /\ Len(x) = Len(s) - 1 + Len(t)
      /\ \A j \in 1..(Len(s) - 1 + Len(t)) : x[j] = IF j < i THEN u[j] ELSE u[j + 1]
  <2>1. i \in 1..Len(u)
    BY <1>1
  <2>2. /\ x \in Seq(Heads) /\ Len(x) = Len(u) - 1
        /\ \A j \in 1..(Len(u) - 1) : x[j] = IF j < i THEN u[j] ELSE u[j + 1]
    BY <1>1, <2>1, WithoutElements
  <2>3. Len(u) - 1 = Len(s) - 1 + Len(t)
    BY <1>1
  <2> QED BY <2>2, <2>3
<1>4. /\ y \in Seq(Heads) /\ Len(y) = Len(s) - 1 + Len(t)
      /\ \A j \in 1..(Len(s) - 1 + Len(t)) : y[j] = IF j <= Len(s) - 1 THEN v[j] ELSE t[j - (Len(s) - 1)]
  <2>1. /\ y \in Seq(Heads) /\ Len(y) = Len(v) + Len(t)
        /\ \A j \in 1..(Len(v) + Len(t)) : y[j] = IF j <= Len(v) THEN v[j] ELSE t[j - Len(v)]
    BY <1>2, ConcatProperties
  <2> QED BY <2>1, <1>2
<1> HIDE DEF x, y
<1>5. ASSUME NEW j \in 1..Len(x) PROVE x[j] = y[j]
  <2>0. j \in 1..(Len(s) - 1 + Len(t)) /\ Len(s) \in Nat /\ Len(t) \in Nat /\ j \in Nat
    BY <1>3
  <2>1. CASE j < i
    <3>1. x[j] = u[j] /\ u[j] = s[j]
      BY <2>0, <2>1, <1>1, <1>3
    <3>2. y[j] = v[j] /\ v[j] = s[j]
      BY <2>0, <2>1, <1>2, <1>4
    <3> QED BY <3>1, <3>2
  <2>2. CASE j >= i /\ j <= Len(s) - 1
    <3>1. x[j] = u[j + 1] /\ u[j + 1] = s[j + 1]
      BY <2>0, <2>2, <1>1, <1>3
    <3>2. y[j] = v[j] /\ v[j] = s[j + 1]
      BY <2>0, <2>2, <1>2, <1>4
    <3> QED BY <3>1, <3>2
  <2>3. CASE j > Len(s) - 1
    <3>1. x[j] = u[j + 1] /\ u[j + 1] = t[j + 1 - Len(s)]
      BY <2>0, <2>3, <1>1, <1>3
    <3>2. y[j] = t[j - (Len(s) - 1)] /\ j - (Len(s) - 1) = j + 1 - Len(s)
      BY <2>0, <2>3, <1>4
    <3> QED BY <3>1, <3>2
  <2> QED BY <2>0, <2>1, <2>2, <2>3
<1>6. x = y
  BY <1>3, <1>4, <1>5, SeqEqual
<1> QED BY <1>6 DEF x, y, u, v

\* Answers to others do not matter.
LEMMA ListedMore ==
  ASSUME NEW s \in Seq(Heads), NEW t \in Seq(Heads), NEW r \in Nat, NEW n \in Nat,
         Listed(s, r, n), \A i \in 1..Len(t) : t[i].rid # r
  PROVE  Listed(s \o t, r, n)
<1> DEFINE u == s \o t
<1>1. /\ u \in Seq(Heads) /\ Len(u) = Len(s) + Len(t)
      /\ \A j \in 1..(Len(s) + Len(t)) : u[j] = IF j <= Len(s) THEN s[j] ELSE t[j - Len(s)]
  BY ConcatProperties
<1> HIDE DEF u
<1>2. ASSUME NEW i \in 1..Len(u), i > Len(s) PROVE u[i].rid # r
  <2>1. i - Len(s) \in 1..Len(t) /\ u[i] = t[i - Len(s)]
    BY <1>1, <1>2
  <2> QED BY <2>1
<1>3. \A i \in 1..Len(s) : i \in 1..Len(u) /\ u[i] = s[i]
  BY <1>1
<1>4. CASE n = 0 /\ \A i \in 1..Len(s) : s[i].rid # r
  <2>1. ASSUME NEW i \in 1..Len(u) PROVE u[i].rid # r
    <3>1. CASE i > Len(s)
      BY <3>1, <1>2
    <3>2. CASE i \in 1..Len(s)
      BY <3>2, <1>3, <1>4
    <3> QED BY <3>1, <3>2
  <2> QED BY <1>4, <2>1 DEF Listed, u
<1>5. CASE \E first \in 1..Len(s) : \E last \in first..Len(s) : Batch(s, r, n, first, last)
  <2>0. PICK first \in 1..Len(s) : \E last \in first..Len(s) : Batch(s, r, n, first, last)
    BY <1>5
  <2>1. PICK last \in first..Len(s) : Batch(s, r, n, first, last)
    BY <2>0
  <2>2. ASSUME NEW i \in 1..Len(u) PROVE u[i].rid = r <=> i \in first..last
    <3>1. CASE i > Len(s)
      BY <3>1, <1>2
    <3>2. CASE i \in 1..Len(s)
      BY <3>2, <1>3, <2>1 DEF Batch
    <3> QED BY <3>1, <3>2
  <2>3. ASSUME NEW i \in first..(last - 1) PROVE u[i].type = "info"
    <3>1. i \in 1..Len(s) /\ s[i].type = "info"
      BY <2>1 DEF Batch
    <3> QED BY <3>1, <1>3
  <2>4. u[last].type # "info" /\ u[last].infos = n + (last - first)
    <3>1. last \in 1..Len(s)
      OBVIOUS
    <3> QED BY <3>1, <2>1, <1>3 DEF Batch
  <2>5. Batch(u, r, n, first, last)
    BY <2>2, <2>3, <2>4 DEF Batch
  <2>6. first \in 1..Len(u) /\ last \in first..Len(u)
    BY <1>1
  <2> QED BY <2>5, <2>6 DEF Listed, u
<1> QED BY <1>4, <1>5 DEF Listed

\* VICE has worked on the request.
LEMMA ListedBatch ==
  ASSUME NEW s \in Seq(Heads), NEW r \in Nat, NEW n \in Nat, NEW h \in Heads, NEW x \in Heads,
         \A i \in 1..Len(s) : s[i].rid # r,
         h.rid = r, h.type = "info", x.rid = r, x.type # "info", x.infos = n
  PROVE  Listed(s \o (Copies(h, n) \o <<x>>), r, 0)
<1> DEFINE t == Copies(h, n) \o <<x>>
           u == s \o t
           first == Len(s) + 1
           last == Len(s) + 1 + n
<1>1. /\ t \in Seq(Heads) /\ Len(t) = n + 1
      /\ \A j \in 1..n : t[j] = h
      /\ t[n + 1] = x
  <2>1. /\ Copies(h, n) \in Seq(Heads) /\ Len(Copies(h, n)) = n
        /\ \A j \in 1..n : Copies(h, n)[j] = h
    BY CopiesMore DEF Copies
  <2> QED BY <2>1
<1> HIDE DEF t
<1>2. /\ u \in Seq(Heads) /\ Len(u) = Len(s) + (n + 1)
      /\ \A j \in 1..(Len(s) + (n + 1)) : u[j] = IF j <= Len(s) THEN s[j] ELSE t[j - Len(s)]
  <2>1. /\ u \in Seq(Heads) /\ Len(u) = Len(s) + Len(t)
        /\ \A j \in 1..(Len(s) + Len(t)) : u[j] = IF j <= Len(s) THEN s[j] ELSE t[j - Len(s)]
    BY <1>1, ConcatProperties
  <2> QED BY <1>1, <2>1
<1> HIDE DEF u
<1>3. Len(s) \in Nat /\ first \in 1..Len(u) /\ last \in first..Len(u) /\ Len(u) = last
  BY <1>2
<1>4. ASSUME NEW i \in first..(last - 1) PROVE u[i] = h
  <2>1. i - Len(s) \in 1..n /\ i \in 1..(Len(s) + (n + 1)) /\ ~(i <= Len(s))
    OBVIOUS
  <2> QED BY <2>1, <1>1, <1>2
<1>5. u[last] = x
  <2>1. last - Len(s) = n + 1 /\ last \in 1..(Len(s) + (n + 1)) /\ ~(last <= Len(s))
    OBVIOUS
  <2> QED BY <2>1, <1>1, <1>2
<1>6. ASSUME NEW i \in 1..Len(u) PROVE u[i].rid = r <=> i \in first..last
  <2>1. CASE i \in 1..Len(s)
    <3>1. u[i] = s[i]
      BY <2>1, <1>2
    <3>2. ~(i \in first..last)
      BY <2>1
    <3> QED BY <3>1, <3>2, <2>1
  <2>2. CASE i \in first..(last - 1)
    <3>1. i \in first..last
      BY <2>2
    <3> QED BY <3>1, <2>2, <1>4
  <2>3. CASE i = last
    BY <2>3, <1>3, <1>5
  <2>4. i \in 1..Len(s) \/ i \in first..(last - 1) \/ i = last
    BY <1>3
  <2> QED BY <2>1, <2>2, <2>3, <2>4
<1>7. x.infos = 0 + (last - first)
  OBVIOUS
<1>8. Batch(u, r, 0, first, last)
  <2> HIDE DEF first, last
  <2> QED BY <1>4, <1>5, <1>6, <1>7 DEF Batch
<1> HIDE DEF first, last
<1> QED BY <1>3, <1>8 DEF Listed, u, t

\* _transact takes the first answer to its request: where the batch begins.
LEMMA ListedFirst ==
  ASSUME NEW s \in Seq(Heads), NEW r \in Nat, NEW n \in Nat, Listed(s, r, n),
         NEW i \in 1..Len(s), s[i].rid = r, \A j \in 1..(i - 1) : s[j].rid # r
  PROVE  \E last \in i..Len(s) : Batch(s, r, n, i, last)
<1>1. PICK first \in 1..Len(s) : \E last \in first..Len(s) : Batch(s, r, n, first, last)
  BY DEF Listed
<1>2. PICK last \in first..Len(s) : Batch(s, r, n, first, last)
  BY <1>1
<1>3. i \in first..last
  BY <1>2 DEF Batch
<1>4. ASSUME first < i PROVE FALSE
  <2>1. first \in 1..(i - 1) /\ first \in 1..Len(s) /\ first \in first..last
    BY <1>4
  <2>2. s[first].rid = r
    BY <2>1, <1>2 DEF Batch
  <2> QED BY <2>1, <2>2
<1>5. first = i
  BY <1>3, <1>4
<1> QED BY <1>2, <1>5

\* An info is taken.
LEMMA ListedInfo ==
  ASSUME NEW s \in Seq(Heads), NEW r \in Nat, NEW n \in Nat, Listed(s, r, n),
         NEW i \in 1..Len(s), s[i].rid = r, \A j \in 1..(i - 1) : s[j].rid # r,
         s[i].type = "info"
  PROVE  Listed(Without(s, i), r, n + 1)
<1>1. PICK last \in i..Len(s) : Batch(s, r, n, i, last)
  BY ListedFirst
<1>2. i \in 1..(last - 1) /\ last \in 2..Len(s)
  <2>1. i # last
    BY <1>1 DEF Batch
  <2> QED BY <2>1
<1> DEFINE w == Without(s, i)
<1>3. /\ w \in Seq(Heads) /\ Len(w) = Len(s) - 1
      /\ \A j \in 1..(Len(s) - 1) : w[j] = IF j < i THEN s[j] ELSE s[j + 1]
  BY WithoutElements
<1> HIDE DEF w
<1>4. ASSUME NEW j \in 1..Len(w) PROVE w[j].rid = r <=> j \in i..(last - 1)
  <2>1. CASE j < i
    <3>1. w[j] = s[j] /\ j \in 1..(i - 1) /\ ~(j \in i..(last - 1))
      BY <2>1, <1>3
    <3> QED BY <3>1
  <2>2. CASE j >= i
    <3>1. w[j] = s[j + 1] /\ j + 1 \in 1..Len(s)
      BY <2>2, <1>3
    <3>2. s[j + 1].rid = r <=> j + 1 \in i..last
      BY <3>1, <1>1 DEF Batch
    <3>3. j + 1 \in i..last <=> j \in i..(last - 1)
      BY <2>2
    <3> QED BY <3>1, <3>2, <3>3
  <2>3. j < i \/ j >= i
    BY <1>3
  <2> QED BY <2>1, <2>2, <2>3
<1>5. ASSUME NEW j \in i..(last - 1 - 1) PROVE w[j].type = "info"
  <2>1. w[j] = s[j + 1]
    BY <1>2, <1>3
  <2>2. j + 1 \in i..(last - 1)
    OBVIOUS
  <2> QED BY <2>1, <2>2, <1>1 DEF Batch
<1>6. w[last - 1] = s[last]
  <2>1. last - 1 \in 1..(Len(s) - 1) /\ ~(last - 1 < i) /\ last - 1 + 1 = last
    BY <1>2
  <2> QED BY <2>1, <1>3
<1>7. s[last].type # "info" /\ s[last].infos = n + 1 + (last - 1 - i)
  <2>1. n + (last - i) = n + 1 + (last - 1 - i)
    OBVIOUS
  <2> QED BY <2>1, <1>1 DEF Batch
<1>8. Batch(w, r, n + 1, i, last - 1)
  BY <1>4, <1>5, <1>6, <1>7 DEF Batch
<1>9. i \in 1..Len(w) /\ last - 1 \in i..Len(w)
  BY <1>2, <1>3
<1> QED BY <1>8, <1>9 DEF Listed, w

\* The answer itself is taken: all its infos have been.
LEMMA ListedAnswer ==
  ASSUME NEW s \in Seq(Heads), NEW r \in Nat, NEW n \in Nat, Listed(s, r, n),
         NEW i \in 1..Len(s), s[i].rid = r, \A j \in 1..(i - 1) : s[j].rid # r,
         s[i].type # "info"
  PROVE  s[i].infos = n
<1>1. PICK last \in i..Len(s) : Batch(s, r, n, i, last)
  BY ListedFirst
<1>2. last = i
  <2>1. SUFFICES ASSUME i < last PROVE FALSE
    OBVIOUS
  <2>2. i \in i..(last - 1)
    BY <2>1
  <2> QED BY <2>2, <1>1 DEF Batch
<1> QED BY <1>1, <1>2 DEF Batch

-----------------------------------------------------------------------------
(* The order of the events.                                                  *)

Increasing(s) == \A i, j \in 1..Len(s) : i < j => s[i].serial < s[j].serial
Numbers(s) == {s[i].serial : i \in 1..Len(s)}

LEMMA NumbersConcat ==
  ASSUME NEW s \in Seq(Heads), NEW t \in Seq(Heads)
  PROVE  Numbers(s \o t) = Numbers(s) \cup Numbers(t)
<1> DEFINE u == s \o t
<1>1. /\ u \in Seq(Heads) /\ Len(u) = Len(s) + Len(t)
      /\ \A j \in 1..(Len(s) + Len(t)) : u[j] = IF j <= Len(s) THEN s[j] ELSE t[j - Len(s)]
  BY ConcatProperties
<1>2. Len(s) \in Nat /\ Len(t) \in Nat
  OBVIOUS
<1> HIDE DEF u
<1>3. ASSUME NEW x \in Numbers(u) PROVE x \in Numbers(s) \cup Numbers(t)
  <2>1. PICK i \in 1..Len(u) : x = u[i].serial
    BY DEF Numbers
  <2>2. CASE i <= Len(s)
    <3>1. i \in 1..Len(s) /\ u[i] = s[i]
      BY <2>2, <1>1, <1>2
    <3> QED BY <2>1, <3>1 DEF Numbers
  <2>3. CASE i > Len(s)
    <3>1. i - Len(s) \in 1..Len(t) /\ u[i] = t[i - Len(s)]
      BY <2>3, <1>1, <1>2
    <3> QED BY <2>1, <3>1 DEF Numbers
  <2> QED BY <2>2, <2>3, <1>2
<1>4. ASSUME NEW x \in Numbers(s) PROVE x \in Numbers(u)
  <2>1. PICK i \in 1..Len(s) : x = s[i].serial
    BY DEF Numbers
  <2>2. i \in 1..Len(u) /\ u[i] = s[i]
    BY <1>1, <1>2
  <2> QED BY <2>1, <2>2 DEF Numbers
<1>5. ASSUME NEW x \in Numbers(t) PROVE x \in Numbers(u)
  <2>1. PICK i \in 1..Len(t) : x = t[i].serial
    BY DEF Numbers
  <2>2. Len(s) + i \in 1..Len(u) /\ Len(s) + i - Len(s) = i /\ ~(Len(s) + i <= Len(s))
    BY <1>1, <1>2
  <2>3. u[Len(s) + i] = t[i]
    BY <2>2, <1>1
  <2> QED BY <2>1, <2>2, <2>3 DEF Numbers
<1> QED BY <1>3, <1>4, <1>5 DEF u

LEMMA IncreasingConcat ==
  ASSUME NEW s \in Seq(Heads), NEW t \in Seq(Heads)
  PROVE  Increasing(s \o t) <=> /\ Increasing(s) /\ Increasing(t)
                                /\ \A x \in Numbers(s), y \in Numbers(t) : x < y
<1> DEFINE u == s \o t
<1>1. /\ u \in Seq(Heads) /\ Len(u) = Len(s) + Len(t)
      /\ \A j \in 1..(Len(s) + Len(t)) : u[j] = IF j <= Len(s) THEN s[j] ELSE t[j - Len(s)]
  BY ConcatProperties
<1>2. Len(s) \in Nat /\ Len(t) \in Nat
  OBVIOUS
<1> HIDE DEF u
<1>3. \A i \in 1..Len(s) : i \in 1..Len(u) /\ u[i] = s[i]
  BY <1>1, <1>2
<1>4. ASSUME NEW i \in 1..Len(t)
      PROVE  Len(s) + i \in (Len(s) + 1)..Len(u) /\ Len(s) + i \in 1..Len(u) /\ u[Len(s) + i] = t[i]
  <2>1. Len(s) + i \in (Len(s) + 1)..Len(u) /\ Len(s) + i - Len(s) = i /\ ~(Len(s) + i <= Len(s))
    BY <1>1, <1>2
  <2> QED BY <2>1, <1>1, <1>2
<1>5. ASSUME Increasing(u)
      PROVE  /\ Increasing(s) /\ Increasing(t)
             /\ \A x \in Numbers(s), y \in Numbers(t) : x < y
  <2>1. Increasing(s)
    BY <1>3, <1>5 DEF Increasing
  <2>2. ASSUME NEW i \in 1..Len(t), NEW j \in 1..Len(t), i < j PROVE t[i].serial < t[j].serial
    <3>1. Len(s) + i < Len(s) + j
      BY <2>2, <1>2
    <3> QED BY <3>1, <1>4, <1>5 DEF Increasing
  <2>3. ASSUME NEW i \in 1..Len(s), NEW j \in 1..Len(t) PROVE s[i].serial < t[j].serial
    <3>1. i < Len(s) + j
      BY <1>2
    <3> QED BY <3>1, <1>3, <1>4, <1>5 DEF Increasing
  <2> QED BY <2>1, <2>2, <2>3 DEF Increasing, Numbers
<1>6. ASSUME Increasing(s), Increasing(t), \A x \in Numbers(s), y \in Numbers(t) : x < y,
             NEW i \in 1..Len(u), NEW j \in 1..Len(u), i < j
      PROVE  u[i].serial < u[j].serial
  <2>1. CASE j <= Len(s)
    <3>1. i \in 1..Len(s) /\ j \in 1..Len(s)
      BY <2>1, <1>2, <1>6
    <3> QED BY <3>1, <1>3, <1>6 DEF Increasing
  <2>2. CASE i <= Len(s) /\ j > Len(s)
    <3>1. i \in 1..Len(s) /\ j - Len(s) \in 1..Len(t) /\ u[j] = t[j - Len(s)]
      BY <2>2, <1>1, <1>2
    <3>2. u[i].serial \in Numbers(s) /\ u[j].serial \in Numbers(t)
      BY <3>1, <1>3 DEF Numbers
    <3> QED BY <3>2, <1>6
  <2>3. CASE i > Len(s)
    <3>1. /\ i - Len(s) \in 1..Len(t) /\ u[i] = t[i - Len(s)]
          /\ j - Len(s) \in 1..Len(t) /\ u[j] = t[j - Len(s)]
          /\ i - Len(s) < j - Len(s)
      BY <2>3, <1>1, <1>2, <1>6
    <3> QED BY <3>1, <1>6 DEF Increasing
  <2> QED BY <2>1, <2>2, <2>3, <1>2
<1>7. (/\ Increasing(s) /\ Increasing(t)
       /\ \A x \in Numbers(s), y \in Numbers(t) : x < y) => Increasing(u)
  BY <1>6 DEF Increasing
<1> QED BY <1>5, <1>7 DEF u

\* Events 1 to n, in this order, but those that are dropped.
InOrder(s, lost, n) == Increasing(s) /\ Numbers(s) \cup lost = 1..n

LEMMA InOrderOneMore ==
  ASSUME NEW s \in Seq(Heads), NEW lost, NEW n \in Nat, InOrder(s, lost, n)
  PROVE  /\ Event(n + 1) \in Heads /\ <<Event(n + 1)>> \in Seq(Heads)
         /\ InOrder(s \o <<Event(n + 1)>>, lost, n + 1)
<1> DEFINE x == Event(n + 1)
           t == <<x>>
<1>1. x \in Heads /\ x.serial = n + 1
  BY DEF Event, Heads, Types, EVENT_REQUEST_ID
<1> HIDE DEF x
<1>2. t \in Seq(Heads) /\ Numbers(t) = {n + 1} /\ Increasing(t)
  BY <1>1 DEF Numbers, Increasing
<1> HIDE DEF t
<1>3. \A y \in Numbers(s) : y < n + 1
  <2>1. Numbers(s) \subseteq 1..n
    BY DEF InOrder
  <2> QED BY <2>1
<1>4. Increasing(s \o t)
  BY <1>2, <1>3, IncreasingConcat DEF InOrder
<1>5. Numbers(s \o t) \cup lost = 1..(n + 1)
  <2>1. Numbers(s \o t) = Numbers(s) \cup {n + 1}
    BY <1>2, NumbersConcat
  <2>2. 1..(n + 1) = (1..n) \cup {n + 1}
    OBVIOUS
  <2> QED BY <2>1, <2>2 DEF InOrder
<1> QED BY <1>1, <1>2, <1>4, <1>5 DEF InOrder, t, x

LEMMA InOrderDrop ==
  ASSUME NEW s \in Seq(Heads), NEW t \in Seq(Heads), NEW u \in Seq(Heads),
         NEW lost, NEW n \in Nat, InOrder((s \o t) \o u, lost, n)
  PROVE  InOrder(s \o u, lost \cup Numbers(t), n)
<1>1. s \o t \in Seq(Heads) /\ (s \o t) \o u \in Seq(Heads)
  OBVIOUS
<1>2. /\ Increasing(s \o t) /\ Increasing(u)
      /\ \A x \in Numbers(s \o t), y \in Numbers(u) : x < y
  BY <1>1, IncreasingConcat DEF InOrder
<1>3. Increasing(s) /\ Numbers(s \o t) = Numbers(s) \cup Numbers(t)
  BY <1>2, IncreasingConcat, NumbersConcat
<1>4. Increasing(s \o u)
  BY <1>2, <1>3, IncreasingConcat
<1>5. Numbers((s \o t) \o u) = (Numbers(s) \cup Numbers(t)) \cup Numbers(u)
  BY <1>1, <1>3, NumbersConcat
<1>6. Numbers(s \o u) = Numbers(s) \cup Numbers(u)
  BY NumbersConcat
<1> QED BY <1>4, <1>5, <1>6 DEF InOrder

-----------------------------------------------------------------------------
(* The inductive invariant.                                                  *)

Requests == [rid : Nat, command : {"none", "GET", "LIST", "EXIT"}, serial : Nat]
Results == [of : Requests, kind : {"none", "answer", "error", "protocol", "timeout", "closed"},
            serial : Nat, infos : Nat, got : Nat]

TypeOK ==
  /\ inbox \in Seq(Requests) /\ wire \in Seq(Bytes) /\ told \in Nat
  /\ buf \in Seq(Bytes) /\ pending \in Seq(Heads) /\ events \in Seq(Heads)
  /\ ids \in Nat /\ call \in Requests /\ collected \in Seq(Heads) /\ result \in Results
  /\ polling \in {"no", "all", "first"} /\ seen \in Seq(Heads) /\ handed \in Seq(Heads)

\* What is on its way from VICE is whole frames.
WholeFrames == Clean(buf \o wire)

\* The answers on their way to _transact, and the events on theirs to callers.
Flown == feed(buf \o wire).out
Coming == pending \o Chosen(Flown, FALSE)
Heard3 == (handed \o seen) \o events
Everything == Heard3 \o Chosen(Flown, TRUE)

\* An answer has the id of the request it answers; VICE answers in order, so
\* that what is on its way is older than what it has not worked on; the request
\* that _transact waits for is the newest, and all of its answers are still to
\* come but those that are collected.
Owned ==
  /\ \A i \in 1..Len(Coming) : Coming[i].rid = Coming[i].serial /\ Coming[i].rid \in 1..ids
  /\ \A i \in 1..Len(inbox) : /\ inbox[i].rid = inbox[i].serial /\ inbox[i].rid \in 1..ids
                              /\ inbox[i].rid = call.rid => inbox[i] = call
  /\ \A i, j \in 1..Len(inbox) : i < j => inbox[i].rid < inbox[j].rid
  /\ \A i \in 1..Len(Coming), j \in 1..Len(inbox) : Coming[i].rid < inbox[j].rid
  /\ call = NoCall \/ (call.rid = ids /\ call.serial = ids /\ ids # 0)
  /\ call.command = "LIST" => Listed(Coming, call.rid, Len(collected))

\* Who listens waits for no answer, and has taken the deque over.
OneReader ==
  /\ polling = "no" => seen = <<>>
  /\ polling # "no" => events = <<>> /\ call = NoCall

IInv == /\ TypeOK /\ WholeFrames /\ Owned /\ OneReader
        /\ InOrder(Everything, dropped, told)
        /\ AnswersAreOwn

LEMMA FlownType ==
  ASSUME TypeOK
  PROVE  /\ buf \o wire \in Seq(Bytes) /\ Flown \in Seq(Heads)
         /\ Chosen(Flown, FALSE) \in Seq(Heads) /\ Chosen(Flown, TRUE) \in Seq(Heads)
         /\ Coming \in Seq(Heads) /\ Heard3 \in Seq(Heads) /\ Everything \in Seq(Heads)
<1>1. buf \o wire \in Seq(Bytes)
  BY DEF TypeOK
<1>2. Flown \in Seq(Heads)
  BY <1>1, FeedType DEF Flown, Scans
<1>3. Chosen(Flown, FALSE) \in Seq(Heads) /\ Chosen(Flown, TRUE) \in Seq(Heads)
  BY <1>2, ChosenType
<1>4. Heard3 \in Seq(Heads)
  BY DEF TypeOK, Heard3
<1>5. Coming \in Seq(Heads)
  BY <1>3, ConcatProperties DEF TypeOK, Coming
<1>6. Everything \in Seq(Heads)
  BY <1>3, <1>4, ConcatProperties DEF Everything
<1> QED BY <1>1, <1>2, <1>3, <1>4, <1>5, <1>6

LEMMA Initial == Init => IInv
<1> SUFFICES ASSUME Init PROVE IInv
  OBVIOUS
<1>0. /\ <<>> \in Seq(Bytes) /\ <<>> \in Seq(Heads) /\ <<>> \in Seq(Requests) /\ Len(<<>>) = 0
  BY EmptySeq
<1>1. buf \o wire = <<>> /\ Flown = <<>> /\ WholeFrames
  <2>1. buf \o wire = <<>>
    BY <1>0, ConcatEmptySeq DEF Init
  <2> QED BY <2>1, CleanEmpty DEF Flown, WholeFrames
<1>2. Coming = <<>> /\ Everything = <<>>
  <2>1. <<>> \o <<>> = <<>>
    BY <1>0, ConcatEmptySeq
  <2> QED BY <1>1, <2>1, ChosenEmpty DEF Init, Coming, Heard3, Everything
<1>3. NoCall \in Requests
  BY DEF NoCall, Requests
<1>4. TypeOK
  <2>1. result \in Results
    BY <1>3 DEF Init, Results
  <2> QED BY <1>0, <1>3, <2>1 DEF Init, TypeOK
<1>5. Owned
  BY <1>0, <1>2 DEF Init, Owned, NoCall
<1>6. OneReader
  BY DEF Init, OneReader
<1>7. InOrder(Everything, dropped, told)
  <2>1. Increasing(<<>>) /\ Numbers(<<>>) = {}
    BY <1>0 DEF Increasing, Numbers
  <2> QED BY <1>2, <2>1 DEF Init, InOrder
<1>8. AnswersAreOwn
  BY DEF Init, AnswersAreOwn
<1> QED BY <1>1, <1>4, <1>5, <1>6, <1>7, <1>8 DEF IInv

-----------------------------------------------------------------------------
(* What each step does to what is on its way.                                *)

LEMMA ChosenOne ==
  ASSUME NEW x \in Heads
  PROVE  /\ is_event(x) => Chosen(<<x>>, TRUE) = <<x>> /\ Chosen(<<x>>, FALSE) = <<>>
         /\ ~is_event(x) => Chosen(<<x>>, FALSE) = <<x>> /\ Chosen(<<x>>, TRUE) = <<>>
<1>1. <<>> \in Seq(Heads) /\ Append(<<>>, x) = <<x>>
  BY EmptySeq
<1>2. /\ Chosen(<<x>>, TRUE) = Sift(<<>>, x, TRUE)
      /\ Chosen(<<x>>, FALSE) = Sift(<<>>, x, FALSE)
  BY <1>1, ChosenEmpty, ChosenAppend
<1>3. is_event(x) \in BOOLEAN
  BY DEF is_event
<1> QED BY <1>1, <1>2, <1>3 DEF Sift

\* Copies of an answer are all of them answers.
LEMMA ChosenCopies ==
  ASSUME NEW h \in Heads, ~is_event(h)
  PROVE  \A n \in Nat : Chosen(Copies(h, n), FALSE) = Copies(h, n) /\ Chosen(Copies(h, n), TRUE) = <<>>
<1> DEFINE Fine(n) == Chosen(Copies(h, n), FALSE) = Copies(h, n) /\ Chosen(Copies(h, n), TRUE) = <<>>
           G == {n \in Nat : Fine(n)}
<1>1. Fine(0)
  <2>1. Copies(h, 0) \in Seq(Heads) /\ Len(Copies(h, 0)) = 0
    BY CopiesMore
  <2>2. Copies(h, 0) = <<>>
    BY <2>1, EmptySeq
  <2> QED BY <2>2, ChosenEmpty
<1>2. ASSUME NEW n \in Nat, Fine(n) PROVE Fine(n + 1)
  <2>0. <<h>> \in Seq(Heads)
    OBVIOUS
  <2>1. Copies(h, n) \in Seq(Heads) /\ Copies(h, n + 1) = Copies(h, n) \o <<h>>
    BY CopiesMore
  <2>2. Chosen(<<h>>, FALSE) = <<h>> /\ Chosen(<<h>>, TRUE) = <<>>
    BY ChosenOne
  <2>3. <<>> \o <<>> = <<>>
    BY EmptySeq, ConcatEmptySeq
  <2>4. \A e \in BOOLEAN : Chosen(Copies(h, n + 1), e) = Chosen(Copies(h, n), e) \o Chosen(<<h>>, e)
    BY <2>0, <2>1, ChosenConcat
  <2> QED BY <1>2, <2>1, <2>2, <2>3, <2>4
<1>3. Nat \subseteq G
  <2> HIDE DEF Fine
  <2>1. 0 \in G /\ \A n \in Nat : n \in G => n + 1 \in G
    BY <1>1, <1>2
  <2> HIDE DEF G
  <2> QED BY <2>1, Upward
<1> QED BY <1>3

LEMMA HeadsAssociative ==
  ASSUME NEW s \in Seq(Heads), NEW t \in Seq(Heads), NEW u \in Seq(Heads)
  PROVE  (s \o t) \o u = s \o (t \o u)
BY ConcatAssociative

\* VICE tells an event, or does not.
Told1(c, n) == IF c THEN <<Event(n + 1)>> ELSE <<>>

LEMMA MaybeEvent ==
  ASSUME NEW c \in BOOLEAN, NEW n \in Nat,
         NEW f, f = IF c THEN EventFrame(n + 1) ELSE <<>>
  PROVE  /\ f \in Seq(Bytes) /\ Clean(f) /\ feed(f).out = Told1(c, n)
         /\ Told1(c, n) \in Seq(Heads)
         /\ Chosen(Told1(c, n), FALSE) = <<>> /\ Chosen(Told1(c, n), TRUE) = Told1(c, n)
         /\ \A s \in Seq(Heads) : \A lost :
              InOrder(s, lost, n) => InOrder(s \o Told1(c, n), lost, IF c THEN n + 1 ELSE n)
<1>1. CASE c
  <2>1. Event(n + 1) \in Heads /\ Event(n + 1).size = 0 /\ is_event(Event(n + 1))
    BY DEF Event, Heads, Types, EVENT_REQUEST_ID, is_event
  <2>2. f = Frame(Event(n + 1), <<>>) /\ Told1(c, n) = <<Event(n + 1)>>
    BY <1>1 DEF EventFrame, Told1
  <2>3. <<>> \in Seq(Bytes) /\ Len(<<>>) = 0 /\ <<Event(n + 1)>> \in Seq(Heads)
    BY <2>1, EmptySeq
  <2>4. f \in Seq(Bytes) /\ Clean(f) /\ feed(f).out = Told1(c, n)
    BY <2>1, <2>2, <2>3, CleanFrame
  <2>5. Chosen(Told1(c, n), FALSE) = <<>> /\ Chosen(Told1(c, n), TRUE) = Told1(c, n)
    BY <2>1, <2>2, ChosenOne
  <2>6. \A s \in Seq(Heads) : \A lost :
          InOrder(s, lost, n) => InOrder(s \o <<Event(n + 1)>>, lost, n + 1)
    BY InOrderOneMore
  <2> QED BY <1>1, <2>2, <2>3, <2>4, <2>5, <2>6
<1>2. CASE ~c
  <2>1. f = <<>> /\ Told1(c, n) = <<>>
    BY <1>2 DEF Told1
  <2>2. <<>> \in Seq(Bytes) /\ <<>> \in Seq(Heads)
    BY EmptySeq
  <2>3. \A s \in Seq(Heads) : s \o <<>> = s
    BY ConcatEmptySeq
  <2> QED BY <1>2, <2>1, <2>2, <2>3, CleanEmpty, ChosenEmpty
<1> QED BY <1>1, <1>2

\* The answers to a request are on their way, behind the others; the events keep
\* their order.
LEMMA ProcessSends ==
  ASSUME TypeOK, WholeFrames, Process, Head(inbox).rid # 0
  PROVE  /\ wire' \in Seq(Bytes) /\ told' \in Nat /\ WholeFrames'
         /\ \E n \in Nat, h \in Heads, x \in Heads :
              /\ h.rid = Head(inbox).rid /\ h.serial = Head(inbox).serial /\ h.type = "info"
              /\ x.rid = Head(inbox).rid /\ x.serial = Head(inbox).serial
              /\ x.type = Head(inbox).command /\ x.infos = n
              /\ Coming' = Coming \o (Copies(h, n) \o <<x>>)
         /\ InOrder(Everything, dropped, told) => InOrder(Everything', dropped, told')
<1> DEFINE request == Head(inbox)
           halts == running /\ told < MaxEvents
           stop  == IF halts THEN EventFrame(told + 1) ELSE <<>>
           now   == told + (IF halts THEN 1 ELSE 0)
           goes  == request.command = "EXIT" /\ now < MaxEvents
           exit  == IF goes THEN EventFrame(now + 1) ELSE <<>>
           h     == Info(request)
<1>1. request \in Requests /\ request.rid # 0
  BY HeadTailProperties DEF TypeOK, Process
<1>2. PICK n \in (IF request.command = "LIST" THEN 0..MaxInfos ELSE {0}), ok \in BOOLEAN :
        \E body \in IF ok /\ n = 0 THEN Bodies ELSE {<<>>} :
          /\ wire' = wire \o stop \o Frames(h, n)
                     \o Frame(Answer(request, request.command, ok, Len(body), n), body)
                     \o exit
          /\ told' = IF goes THEN now + 1 ELSE now
          /\ running' = (request.command = "EXIT")
          /\ inbox' = Tail(inbox)
  BY DEF Process
<1>3. PICK body \in IF ok /\ n = 0 THEN Bodies ELSE {<<>>} :
          /\ wire' = wire \o stop \o Frames(h, n)
                     \o Frame(Answer(request, request.command, ok, Len(body), n), body)
                     \o exit
          /\ told' = IF goes THEN now + 1 ELSE now
  BY <1>2
<1> DEFINE x == Answer(request, request.command, ok, Len(body), n)
<1>4. n \in Nat
  BY BoundsAssumption
<1>5. body \in Seq(Bytes)
  <2>1. Byte("STX") \in Bytes
    BY DEF Byte, Bytes, NoHead, Heads, Types
  <2>2. <<>> \in Seq(Bytes) /\ <<Byte("STX")>> \in Seq(Bytes)
    BY <2>1, EmptySeq
  <2> QED BY <2>2 DEF Bodies
<1>6. /\ h \in Heads /\ h.size = 0 /\ ~is_event(h) /\ h.rid = request.rid
      /\ h.serial = request.serial /\ h.type = "info"
  BY <1>1 DEF Info, Answer, Heads, Types, Requests, is_event, EVENT_REQUEST_ID
<1>7. /\ x \in Heads /\ x.size = Len(body) /\ ~is_event(x) /\ x.rid = request.rid
      /\ x.serial = request.serial /\ x.type = request.command /\ x.infos = n
  <2>1. Len(body) \in Nat
    BY <1>5
  <2> QED BY <1>1, <1>4, <2>1 DEF Answer, Heads, Types, Requests, is_event, EVENT_REQUEST_ID
<1>8. told \in Nat /\ now \in Nat /\ halts \in BOOLEAN /\ goes \in BOOLEAN
  BY DEF TypeOK
<1> DEFINE so == Told1(halts, told)
           eo == Told1(goes, now)
           f  == Frames(h, n)
           g  == Frame(x, body)
           c  == Copies(h, n)
<1>9. /\ stop \in Seq(Bytes) /\ Clean(stop) /\ feed(stop).out = so /\ so \in Seq(Heads)
      /\ Chosen(so, FALSE) = <<>> /\ Chosen(so, TRUE) = so
      /\ \A s \in Seq(Heads) : \A lost : InOrder(s, lost, told) => InOrder(s \o so, lost, now)
  <2>1. now = IF halts THEN told + 1 ELSE told
    BY <1>8
  <2> HIDE DEF halts, now
  <2> QED BY <1>8, <2>1, MaybeEvent
<1>10. /\ exit \in Seq(Bytes) /\ Clean(exit) /\ feed(exit).out = eo /\ eo \in Seq(Heads)
       /\ Chosen(eo, FALSE) = <<>> /\ Chosen(eo, TRUE) = eo
       /\ \A s \in Seq(Heads) : \A lost : InOrder(s, lost, now) => InOrder(s \o eo, lost, told')
  <2> HIDE DEF goes, now
  <2> QED BY <1>3, <1>8, MaybeEvent
<1>11. /\ f \in Seq(Bytes) /\ Clean(f) /\ feed(f).out = c /\ c \in Seq(Heads)
       /\ Chosen(c, FALSE) = c /\ Chosen(c, TRUE) = <<>>
  <2> HIDE DEF h
  <2> QED BY <1>4, <1>6, CleanFrames, ChosenCopies, CopiesMore
<1>12. /\ g \in Seq(Bytes) /\ Clean(g) /\ feed(g).out = <<x>> /\ <<x>> \in Seq(Heads)
       /\ Chosen(<<x>>, FALSE) = <<x>> /\ Chosen(<<x>>, TRUE) = <<>>
  <2> HIDE DEF x
  <2>1. <<x>> \in Seq(Heads)
    BY <1>7
  <2>2. g \in Seq(Bytes) /\ Clean(g) /\ feed(g).out = <<x>>
    BY <1>5, <1>7, CleanFrame
  <2>3. Chosen(<<x>>, FALSE) = <<x>> /\ Chosen(<<x>>, TRUE) = <<>>
    BY <1>7, ChosenOne
  <2> QED BY <2>1, <2>2, <2>3
<1>13. wire' = (((wire \o stop) \o f) \o g) \o exit /\ buf' = buf
  BY <1>3 DEF Process
<1> HIDE DEF x, h, stop, exit, f, g, c, so, eo
<1> DEFINE w1 == wire \o stop
           w2 == w1 \o f
           w3 == w2 \o g
           w4 == w3 \o exit
           o1 == Flown \o so
           o2 == o1 \o c
           o3 == o2 \o <<x>>
           o4 == o3 \o eo
<1>14. buf \in Seq(Bytes) /\ wire \in Seq(Bytes) /\ Clean(buf \o wire) /\ feed(buf \o wire).out = Flown
  BY DEF TypeOK, WholeFrames, Flown
<1>15. w1 \in Seq(Bytes) /\ Clean(buf \o w1) /\ feed(buf \o w1).out = o1
  BY <1>9, <1>14, Added, ConcatProperties
<1> HIDE DEF w1
<1>16. w2 \in Seq(Bytes) /\ Clean(buf \o w2) /\ feed(buf \o w2).out = o2
  <2>1. w2 \in Seq(Bytes)
    BY <1>11, <1>15, ConcatProperties
  <2>2. Clean(buf \o w2) /\ feed(buf \o w2).out = feed(buf \o w1).out \o feed(f).out
    BY <1>11, <1>14, <1>15, Added
  <2> QED BY <2>1, <2>2, <1>11, <1>15
<1> HIDE DEF w2
<1>17. w3 \in Seq(Bytes) /\ Clean(buf \o w3) /\ feed(buf \o w3).out = o3
  <2>1. w3 \in Seq(Bytes)
    BY <1>12, <1>16, ConcatProperties
  <2>2. Clean(buf \o w3) /\ feed(buf \o w3).out = feed(buf \o w2).out \o feed(g).out
    BY <1>12, <1>14, <1>16, Added
  <2> QED BY <2>1, <2>2, <1>12, <1>16
<1> HIDE DEF w3
<1>18. w4 \in Seq(Bytes) /\ Clean(buf \o w4) /\ feed(buf \o w4).out = o4
  <2>1. w4 \in Seq(Bytes)
    BY <1>10, <1>17, ConcatProperties
  <2>2. Clean(buf \o w4) /\ feed(buf \o w4).out = feed(buf \o w3).out \o feed(exit).out
    BY <1>10, <1>14, <1>17, Added
  <2> QED BY <2>1, <2>2, <1>10, <1>17
<1>19. wire' = w4
  BY <1>13 DEF w1, w2, w3
<1> HIDE DEF w4
<1>20. wire' \in Seq(Bytes) /\ WholeFrames' /\ Flown' = o4
  BY <1>13, <1>18, <1>19 DEF WholeFrames, Flown
<1>21. /\ Flown \in Seq(Heads) /\ Coming \in Seq(Heads) /\ Heard3 \in Seq(Heads)
       /\ Everything \in Seq(Heads)
       /\ Chosen(Flown, FALSE) \in Seq(Heads) /\ Chosen(Flown, TRUE) \in Seq(Heads)
  BY FlownType
<1>22. o1 \in Seq(Heads) /\ o2 \in Seq(Heads) /\ o3 \in Seq(Heads)
  <2>1. o1 \in Seq(Heads)
    BY <1>9, <1>21, ConcatProperties
  <2>2. o2 \in Seq(Heads)
    <3> HIDE DEF o1
    <3> QED BY <1>11, <2>1, ConcatProperties
  <2> HIDE DEF o2
  <2> QED BY <1>12, <2>1, <2>2, ConcatProperties
<1>23. \A e \in BOOLEAN :
         Chosen(o4, e) = (((Chosen(Flown, e) \o Chosen(so, e)) \o Chosen(c, e)) \o Chosen(<<x>>, e))
                         \o Chosen(eo, e)
  <2> TAKE e \in BOOLEAN
  <2>1. Chosen(o1, e) = Chosen(Flown, e) \o Chosen(so, e)
    BY <1>9, <1>21, ChosenConcat
  <2> HIDE DEF o1
  <2>2. Chosen(o2, e) = Chosen(o1, e) \o Chosen(c, e)
    BY <1>11, <1>22, ChosenConcat
  <2> HIDE DEF o2
  <2>3. Chosen(o3, e) = Chosen(o2, e) \o Chosen(<<x>>, e)
    BY <1>12, <1>22, ChosenConcat
  <2> HIDE DEF o3
  <2>4. Chosen(o4, e) = Chosen(o3, e) \o Chosen(eo, e)
    BY <1>10, <1>22, ChosenConcat
  <2> QED BY <2>1, <2>2, <2>3, <2>4
<1>24. Coming' = Coming \o (c \o <<x>>)
  <2> DEFINE p == Chosen(Flown, FALSE)
  <2>1. p \in Seq(Heads)
    BY <1>21
  <2>2. Chosen(o4, FALSE) = (((p \o <<>>) \o c) \o <<x>>) \o <<>>
    BY <1>9, <1>10, <1>11, <1>12, <1>23
  <2>3. Coming' = pending \o Chosen(o4, FALSE)
    BY <1>20 DEF Coming, Process, client
  <2> HIDE DEF p, o4
  <2>4. p \o <<>> = p /\ (p \o c) \o <<x>> = p \o (c \o <<x>>)
    BY <2>1, <1>11, <1>12, ConcatEmptySeq, ConcatAssociative
  <2>5. p \o (c \o <<x>>) \in Seq(Heads) /\ c \o <<x>> \in Seq(Heads)
    BY <2>1, <1>11, <1>12, ConcatProperties
  <2>6. Chosen(o4, FALSE) = p \o (c \o <<x>>)
    BY <2>2, <2>4, <2>5, ConcatEmptySeq
  <2>7. pending \o (p \o (c \o <<x>>)) = (pending \o p) \o (c \o <<x>>)
    <3>1. pending \in Seq(Heads)
      BY DEF TypeOK
    <3> DEFINE q == c \o <<x>>
    <3>2. q \in Seq(Heads)
      BY <2>5
    <3> HIDE DEF q
    <3>3. pending \o (p \o q) = (pending \o p) \o q
      BY <2>1, <3>1, <3>2, ConcatAssociative
    <3> QED BY <3>3 DEF q
  <2> QED BY <2>3, <2>6, <2>7 DEF Coming, p
<1>25. Everything' = (Everything \o so) \o eo
  <2> DEFINE p == Chosen(Flown, TRUE)
  <2>1. p \in Seq(Heads)
    BY <1>21
  <2>2. Chosen(o4, TRUE) = (((p \o so) \o <<>>) \o <<>>) \o eo
    BY <1>9, <1>10, <1>11, <1>12, <1>23
  <2>3. Everything' = Heard3 \o Chosen(o4, TRUE)
    BY <1>20 DEF Everything, Heard3, Process, client, poll
  <2> HIDE DEF p, o4
  <2>4. p \o so \in Seq(Heads)
    BY <2>1, <1>9, ConcatProperties
  <2>5. Chosen(o4, TRUE) = (p \o so) \o eo
    BY <2>2, <2>4, ConcatEmptySeq
  <2>6. Heard3 \o ((p \o so) \o eo) = (Heard3 \o (p \o so)) \o eo
    <3> DEFINE q == p \o so
    <3>1. q \in Seq(Heads)
      BY <2>4
    <3> HIDE DEF q
    <3>2. Heard3 \in Seq(Heads) /\ eo \in Seq(Heads)
      BY <1>10, <1>21
    <3>3. (Heard3 \o q) \o eo = Heard3 \o (q \o eo)
      BY <3>1, <3>2, HeadsAssociative
    <3> QED BY <3>3 DEF q
  <2>7. Heard3 \o (p \o so) = (Heard3 \o p) \o so
    <3>1. Heard3 \in Seq(Heads) /\ so \in Seq(Heads)
      BY <1>9, <1>21
    <3> QED BY <2>1, <3>1, ConcatAssociative
  <2> QED BY <2>3, <2>5, <2>6, <2>7 DEF Everything, p
<1>26. InOrder(Everything, dropped, told) => InOrder(Everything', dropped, told')
  <2>1. Everything \o so \in Seq(Heads)
    BY <1>9, <1>21, ConcatProperties
  <2> QED BY <2>1, <1>9, <1>10, <1>21, <1>25
<1>27. told' \in Nat
  BY <1>3, <1>8
<1> HIDE DEF request
<1> QED BY <1>4, <1>6, <1>7, <1>20, <1>24, <1>26, <1>27 DEF c, request

LEMMA HitSends ==
  ASSUME TypeOK, WholeFrames, Hit
  PROVE  /\ wire' \in Seq(Bytes) /\ told' \in Nat /\ WholeFrames' /\ Coming' = Coming
         /\ InOrder(Everything, dropped, told) => InOrder(Everything', dropped, told')
<1> DEFINE f == EventFrame(told + 1)
           so == Told1(TRUE, told)
<1>1. told \in Nat /\ told' = told + 1
  BY DEF TypeOK, Hit
<1>2. f = IF TRUE THEN EventFrame(told + 1) ELSE <<>>
  OBVIOUS
<1> HIDE DEF f, so
<1>3. /\ f \in Seq(Bytes) /\ Clean(f) /\ feed(f).out = so /\ so \in Seq(Heads)
      /\ Chosen(so, FALSE) = <<>> /\ Chosen(so, TRUE) = so
      /\ \A s \in Seq(Heads) : \A lost : InOrder(s, lost, told) => InOrder(s \o so, lost, told + 1)
  <2>1. TRUE \in BOOLEAN
    OBVIOUS
  <2> QED BY <1>1, <1>2, <2>1, MaybeEvent DEF so
<1>4. wire' = wire \o f /\ buf' = buf
  BY DEF Hit, f
<1>5. buf \in Seq(Bytes) /\ wire \in Seq(Bytes) /\ Clean(buf \o wire) /\ feed(buf \o wire).out = Flown
  BY DEF TypeOK, WholeFrames, Flown
<1>6. wire' \in Seq(Bytes) /\ Clean(buf \o wire') /\ feed(buf \o wire').out = Flown \o so
  <2>1. wire \o f \in Seq(Bytes)
    BY <1>3, <1>5, ConcatProperties
  <2>2. Clean(buf \o (wire \o f)) /\ feed(buf \o (wire \o f)).out = feed(buf \o wire).out \o feed(f).out
    BY <1>3, <1>5, Added
  <2> QED BY <1>3, <1>4, <1>5, <2>1, <2>2
<1>7. WholeFrames' /\ Flown' = Flown \o so
  BY <1>4, <1>6 DEF WholeFrames, Flown
<1>8. /\ Flown \in Seq(Heads) /\ Coming \in Seq(Heads) /\ Heard3 \in Seq(Heads)
      /\ Everything \in Seq(Heads)
      /\ Chosen(Flown, FALSE) \in Seq(Heads) /\ Chosen(Flown, TRUE) \in Seq(Heads)
  BY FlownType
<1>9. /\ Chosen(Flown', FALSE) = Chosen(Flown, FALSE)
      /\ Chosen(Flown', TRUE) = Chosen(Flown, TRUE) \o so
  <2>1. \A e \in BOOLEAN : Chosen(Flown \o so, e) = Chosen(Flown, e) \o Chosen(so, e)
    BY <1>3, <1>8, ChosenConcat
  <2> QED BY <1>3, <1>7, <1>8, <2>1, ConcatEmptySeq
<1>10. Coming' = Coming
  BY <1>9 DEF Coming, Hit, client
<1>11. Everything' = Everything \o so
  <2>1. Everything' = Heard3 \o (Chosen(Flown, TRUE) \o so)
    BY <1>9 DEF Everything, Heard3, Hit, client, poll
  <2>2. (Heard3 \o Chosen(Flown, TRUE)) \o so = Heard3 \o (Chosen(Flown, TRUE) \o so)
    <3> DEFINE q == Chosen(Flown, TRUE)
    <3>1. q \in Seq(Heads) /\ Heard3 \in Seq(Heads) /\ so \in Seq(Heads)
      BY <1>3, <1>8
    <3> HIDE DEF q
    <3>2. (Heard3 \o q) \o so = Heard3 \o (q \o so)
      BY <3>1, HeadsAssociative
    <3> QED BY <3>2 DEF q
  <2> QED BY <2>1, <2>2 DEF Everything
<1>12. InOrder(Everything, dropped, told) => InOrder(Everything', dropped, told')
  BY <1>1, <1>3, <1>8, <1>11
<1> QED BY <1>1, <1>6, <1>7, <1>10, <1>12

\* Bytes arrive: what has come out is no longer on its way.
LEMMA BytesArrive ==
  ASSUME TypeOK, WholeFrames, NEW n \in 1..Len(wire),
         wire' = SubSeq(wire, n + 1, Len(wire)), buf' = Buffered(n, Got(n))
  PROVE  /\ wire' \in Seq(Bytes) /\ buf' \in Seq(Bytes) /\ WholeFrames'
         /\ ~Got(n).bad
         /\ Sorted(Got(n).out) \in Seq(Heads) /\ Told(Got(n).out) \in Seq(Heads)
         /\ Chosen(Flown', FALSE) \in Seq(Heads) /\ Chosen(Flown', TRUE) \in Seq(Heads)
         /\ Chosen(Flown, FALSE) = Sorted(Got(n).out) \o Chosen(Flown', FALSE)
         /\ Chosen(Flown, TRUE) = Told(Got(n).out) \o Chosen(Flown', TRUE)
<1> DEFINE a == buf \o SubSeq(wire, 1, n)
           v == SubSeq(wire, n + 1, Len(wire))
<1>1. buf \in Seq(Bytes) /\ wire \in Seq(Bytes) /\ Clean(buf \o wire)
  BY DEF TypeOK, WholeFrames
<1>2. /\ a \in Seq(Bytes) /\ v \in Seq(Bytes) /\ Rest(a) \in Seq(Bytes)
      /\ ~feed(a).bad /\ Clean(Rest(a) \o v)
      /\ feed(buf \o wire).out = feed(a).out \o feed(Rest(a) \o v).out
  BY <1>1, Received
<1>3. Got(n) = feed(a) /\ buf' = Rest(a) /\ wire' = v
  BY DEF Got, Buffered, Rest
<1> HIDE DEF a, v
<1>4. WholeFrames' /\ Flown' = feed(Rest(a) \o v).out
  BY <1>2, <1>3 DEF WholeFrames, Flown
<1>5. feed(a).out \in Seq(Heads) /\ Flown' \in Seq(Heads)
  <2>1. Rest(a) \o v \in Seq(Bytes)
    BY <1>2, ConcatProperties
  <2> QED BY <1>2, <1>4, <2>1, FeedType DEF Scans
<1>6. Flown = feed(a).out \o Flown'
  BY <1>2, <1>4 DEF Flown
<1>7. \A e \in BOOLEAN : Chosen(Flown, e) = Chosen(feed(a).out, e) \o Chosen(Flown', e)
  BY <1>5, <1>6, ChosenConcat
<1>8. \A e \in BOOLEAN : Chosen(feed(a).out, e) \in Seq(Heads) /\ Chosen(Flown', e) \in Seq(Heads)
  BY <1>5, ChosenType
<1> QED BY <1>2, <1>3, <1>4, <1>7, <1>8 DEF Sorted, Told

\* No byte moves.
LEMMA BytesStay ==
  ASSUME WholeFrames, UNCHANGED <<wire, buf>>
  PROVE  WholeFrames' /\ Flown' = Flown
BY DEF WholeFrames, Flown

-----------------------------------------------------------------------------
(* Each step keeps the invariant.                                            *)

LEMMA Owners ==
  ASSUME IInv
  PROVE  /\ TypeOK /\ WholeFrames /\ Owned /\ OneReader /\ AnswersAreOwn
         /\ InOrder(Everything, dropped, told)
         /\ Coming \in Seq(Heads) /\ Len(Coming) \in Nat /\ Len(inbox) \in Nat /\ ids \in Nat
         /\ \A i \in 1..Len(Coming) : Coming[i] \in Heads /\ Coming[i].rid \in Nat
         /\ \A i \in 1..Len(inbox) : inbox[i] \in Requests /\ inbox[i].rid \in Nat
<1>1. TypeOK /\ WholeFrames /\ Owned /\ OneReader /\ AnswersAreOwn
      /\ InOrder(Everything, dropped, told)
  BY DEF IInv
<1>2. Coming \in Seq(Heads)
  BY <1>1, FlownType
<1>3. inbox \in Seq(Requests) /\ ids \in Nat
  BY <1>1 DEF TypeOK
<1>4. \A i \in 1..Len(Coming) : Coming[i] \in Heads
  BY <1>2
<1>5. \A i \in 1..Len(inbox) : inbox[i] \in Requests
  BY <1>3
<1> QED BY <1>1, <1>2, <1>3, <1>4, <1>5 DEF Heads, Requests

\* Whatever does not touch the answers leaves them owned.
LEMMA OwnedStays ==
  ASSUME Owned, Coming' = Coming, UNCHANGED <<inbox, ids, call, collected>>
  PROVE  Owned'
BY DEF Owned

\* No request waits: its answers are as good as anyone's.
LEMMA OwnedEnds ==
  ASSUME IInv, UNCHANGED <<inbox, ids>>, call' = NoCall,
         Coming' \in Seq(Heads),
         \A i \in 1..Len(Coming') : \E j \in 1..Len(Coming) : Coming'[i] = Coming[j]
  PROVE  Owned'
<1>1. \A i \in 1..Len(Coming') : Coming'[i].rid = Coming'[i].serial /\ Coming'[i].rid \in 1..ids'
  BY DEF IInv, Owned
<1>2. \A i \in 1..Len(inbox') : /\ inbox'[i].rid = inbox'[i].serial /\ inbox'[i].rid \in 1..ids'
                                /\ inbox'[i].rid = call'.rid => inbox'[i] = call'
  <2>1. \A i \in 1..Len(inbox) : inbox[i].rid = inbox[i].serial /\ inbox[i].rid \in 1..ids
    BY DEF IInv, Owned
  <2>2. call'.rid = 0
    BY DEF NoCall
  <2> QED BY <2>1, <2>2
<1>3. \A i, j \in 1..Len(inbox') : i < j => inbox'[i].rid < inbox'[j].rid
  BY DEF IInv, Owned
<1>4. \A i \in 1..Len(Coming'), j \in 1..Len(inbox') : Coming'[i].rid < inbox'[j].rid
  <2>1. \A i \in 1..Len(Coming), j \in 1..Len(inbox) : Coming[i].rid < inbox[j].rid
    BY DEF IInv, Owned
  <2> QED BY <2>1
<1>5. call' = NoCall /\ call'.command # "LIST"
  BY DEF NoCall
<1> QED BY <1>1, <1>2, <1>3, <1>4, <1>5 DEF Owned

LEMMA ProcessKeeps ==
  ASSUME IInv, Process
  PROVE  IInv'
<1>0. /\ TypeOK /\ WholeFrames /\ Owned /\ OneReader /\ AnswersAreOwn
      /\ InOrder(Everything, dropped, told)
      /\ Coming \in Seq(Heads) /\ Len(Coming) \in Nat /\ Len(inbox) \in Nat /\ ids \in Nat
      /\ \A i \in 1..Len(Coming) : Coming[i] \in Heads /\ Coming[i].rid \in Nat
      /\ \A i \in 1..Len(inbox) : inbox[i] \in Requests /\ inbox[i].rid \in Nat
  BY Owners
<1> DEFINE req == inbox[1]
<1>1. /\ Head(inbox) = req /\ 1 \in 1..Len(inbox) /\ req \in Requests
      /\ req.rid = req.serial /\ req.rid \in 1..ids
  <2>1. inbox # <<>> /\ inbox \in Seq(Requests)
    BY <1>0 DEF Process, TypeOK
  <2>2. Len(inbox) \in Nat \ {0}
    BY <2>1, EmptySeq
  <2>3. 1 \in 1..Len(inbox)
    BY <2>2
  <2>4. req \in Requests /\ req.rid = req.serial /\ req.rid \in 1..ids
    BY <1>0, <2>3 DEF Owned
  <2>5. Head(inbox) = req
    BY <2>1
  <2> QED BY <2>3, <2>4, <2>5
<1>2. /\ inbox' = Tail(inbox) /\ inbox' \in Seq(Requests) /\ Len(inbox') = Len(inbox) - 1
      /\ \A i \in 1..Len(inbox') : inbox'[i] = inbox[i + 1] /\ i + 1 \in 1..Len(inbox) /\ i \in Int
      /\ UNCHANGED <<dead, buf, client, poll>>
  <2>1. inbox # <<>> /\ inbox \in Seq(Requests) /\ inbox' = Tail(inbox)
    BY <1>0 DEF Process, TypeOK
  <2>2. /\ inbox' \in Seq(Requests) /\ Len(inbox') = Len(inbox) - 1
        /\ \A i \in 1..Len(inbox') : inbox'[i] = inbox[i + 1]
    BY <2>1, HeadTailProperties
  <2> QED BY <1>0, <2>1, <2>2 DEF Process
<1>3. Head(inbox).rid # 0
  BY <1>0, <1>1
<1>4. /\ wire' \in Seq(Bytes) /\ told' \in Nat /\ WholeFrames'
      /\ InOrder(Everything', dropped, told')
  BY <1>0, <1>3, ProcessSends
<1>5. PICK n \in Nat, h \in Heads, x \in Heads :
        /\ h.rid = req.rid /\ h.serial = req.serial /\ h.type = "info"
        /\ x.rid = req.rid /\ x.serial = req.serial
        /\ x.type = req.command /\ x.infos = n
        /\ Coming' = Coming \o (Copies(h, n) \o <<x>>)
  BY <1>0, <1>1, <1>3, ProcessSends
<1> DEFINE t == Copies(h, n) \o <<x>>
<1>6. t \in Seq(Heads) /\ \A i \in 1..Len(t) : t[i].rid = req.rid /\ t[i].serial = req.serial
  <2>1. /\ Copies(h, n) \in Seq(Heads) /\ Len(Copies(h, n)) = n
        /\ \A j \in 1..n : Copies(h, n)[j] = h
    BY CopiesMore DEF Copies
  <2>2. t \in Seq(Heads) /\ Len(t) = n + 1 /\ \A i \in 1..n : t[i] = h
    BY <2>1
  <2>3. t[n + 1] = x
    BY <2>1
  <2> HIDE DEF t
  <2>4. ASSUME NEW i \in 1..Len(t) PROVE t[i] = h \/ t[i] = x
    BY <2>2, <2>3
  <2> QED BY <2>2, <2>4, <1>5
<1>7. Coming' = Coming \o t
  BY <1>5
<1> HIDE DEF t
<1>8. /\ Coming' \in Seq(Heads) /\ Len(Coming') = Len(Coming) + Len(t)
      /\ \A i \in 1..Len(Coming') : \/ i \in 1..Len(Coming) /\ Coming'[i] = Coming[i]
                                    \/ \E k \in 1..Len(t) : Coming'[i] = t[k]
  <2>1. /\ Coming' \in Seq(Heads) /\ Len(Coming') = Len(Coming) + Len(t)
        /\ \A i \in 1..(Len(Coming) + Len(t)) :
             Coming'[i] = IF i <= Len(Coming) THEN Coming[i] ELSE t[i - Len(Coming)]
    BY <1>0, <1>6, <1>7, ConcatProperties
  <2>2. ASSUME NEW i \in 1..Len(Coming')
        PROVE  \/ i \in 1..Len(Coming) /\ Coming'[i] = Coming[i]
               \/ \E k \in 1..Len(t) : Coming'[i] = t[k]
    <3>0. Len(t) \in Nat
      BY <1>6
    <3>1. CASE i <= Len(Coming)
      BY <3>0, <3>1, <2>1, <1>0
    <3>2. CASE i > Len(Coming)
      <4>1. i - Len(Coming) \in 1..Len(t) /\ Coming'[i] = t[i - Len(Coming)]
        BY <3>0, <3>2, <2>1, <1>0
      <4> QED BY <4>1
    <3> QED BY <3>1, <3>2, <1>0
  <2> QED BY <2>1, <2>2
<1>9. UNCHANGED <<ids, call, collected>>
  BY <1>2 DEF client
<1>10. Owned'
  <2>1. \A i \in 1..Len(Coming') : Coming'[i].rid = Coming'[i].serial /\ Coming'[i].rid \in 1..ids'
    <3>1. ASSUME NEW i \in 1..Len(Coming')
          PROVE  Coming'[i].rid = Coming'[i].serial /\ Coming'[i].rid \in 1..ids
      <4>1. CASE i \in 1..Len(Coming) /\ Coming'[i] = Coming[i]
        BY <4>1, <1>0 DEF Owned
      <4>2. CASE \E k \in 1..Len(t) : Coming'[i] = t[k]
        BY <4>2, <1>1, <1>6
      <4> QED BY <4>1, <4>2, <1>8
    <3> QED BY <3>1, <1>9
  <2>2. \A i \in 1..Len(inbox') : /\ inbox'[i].rid = inbox'[i].serial /\ inbox'[i].rid \in 1..ids'
                                  /\ inbox'[i].rid = call'.rid => inbox'[i] = call'
    BY <1>0, <1>2, <1>9 DEF Owned
  <2>3. \A i, j \in 1..Len(inbox') : i < j => inbox'[i].rid < inbox'[j].rid
    <3>1. \A i, j \in 1..Len(inbox) : i < j => inbox[i].rid < inbox[j].rid
      BY <1>0 DEF Owned
    <3>2. \A i, j \in 1..Len(inbox') : i < j => i + 1 < j + 1
      BY <1>2
    <3> QED BY <3>1, <3>2, <1>2
  <2>4. \A i \in 1..Len(Coming'), j \in 1..Len(inbox') : Coming'[i].rid < inbox'[j].rid
    <3>1. ASSUME NEW i \in 1..Len(Coming'), NEW j \in 1..Len(inbox')
          PROVE  Coming'[i].rid < inbox'[j].rid
      <4>1. CASE i \in 1..Len(Coming) /\ Coming'[i] = Coming[i]
        BY <4>1, <1>0, <1>2 DEF Owned
      <4>2. CASE \E k \in 1..Len(t) : Coming'[i] = t[k]
        <5>1. Coming'[i].rid = inbox[1].rid
          BY <4>2, <1>6
        <5>2. 1 < j + 1 /\ j + 1 \in 1..Len(inbox)
          BY <1>2
        <5> QED BY <5>1, <5>2, <1>0, <1>1, <1>2 DEF Owned
      <4> QED BY <4>1, <4>2, <1>8
    <3> QED BY <3>1
  <2>5. call' = NoCall \/ (call'.rid = ids' /\ call'.serial = ids' /\ ids' # 0)
    BY <1>0, <1>9 DEF Owned
  <2>6. ASSUME call'.command = "LIST" PROVE Listed(Coming', call'.rid, Len(collected'))
    <3>1. /\ Listed(Coming, call.rid, Len(collected)) /\ call.command = "LIST"
          /\ call.rid \in Nat /\ Len(collected) \in Nat
      BY <1>0, <1>9, <2>6 DEF Owned, TypeOK, Requests
    <3>2. CASE req.rid = call.rid
      <4>1. req = call
        BY <3>2, <1>0, <1>1 DEF Owned
      <4>2. \A i \in 1..Len(Coming) : Coming[i].rid # call.rid
        <5>1. \A i \in 1..Len(Coming) : Coming[i].rid < req.rid
          BY <1>0, <1>1 DEF Owned
        <5>2. req.rid \in Nat
          BY <1>0, <1>1
        <5> QED BY <5>1, <5>2, <1>0, <3>2
      <4>3. Len(collected) = 0
        <5>1. ~\E first \in 1..Len(Coming) : \E last \in first..Len(Coming) :
                 Batch(Coming, call.rid, Len(collected), first, last)
          <6>1. ASSUME NEW first \in 1..Len(Coming), NEW last \in first..Len(Coming),
                       Batch(Coming, call.rid, Len(collected), first, last)
                PROVE  FALSE
            <7>1. first \in first..last
              OBVIOUS
            <7> QED BY <6>1, <7>1, <4>2 DEF Batch
          <6> QED BY <6>1
        <5> QED BY <5>1, <3>1 DEF Listed
      <4>4. Listed(Coming \o (Copies(h, n) \o <<x>>), call.rid, 0)
        <5>1. x.type # "info"
          BY <1>5, <4>1, <3>1
        <5> QED BY <5>1, <4>2, <3>1, <3>2, <1>0, <1>5, ListedBatch
      <4> QED BY <4>3, <4>4, <1>5, <1>9
    <3>3. CASE req.rid # call.rid
      <4>1. \A i \in 1..Len(t) : t[i].rid # call.rid
        BY <3>3, <1>6
      <4>2. Listed(Coming \o t, call.rid, Len(collected))
        BY <4>1, <3>1, <1>0, <1>6, ListedMore
      <4> QED BY <4>2, <1>7, <1>9
    <3> QED BY <3>2, <3>3
  <2> QED BY <2>1, <2>2, <2>3, <2>4, <2>5, <2>6 DEF Owned
<1>11. TypeOK'
  BY <1>0, <1>2, <1>4 DEF TypeOK, client, poll
<1>12. OneReader' /\ AnswersAreOwn' /\ InOrder(Everything', dropped', told')
  BY <1>0, <1>2, <1>4 DEF OneReader, AnswersAreOwn, client, poll
<1> QED BY <1>4, <1>10, <1>11, <1>12 DEF IInv

LEMMA HitKeeps ==
  ASSUME IInv, Hit
  PROVE  IInv'
<1>1. /\ TypeOK /\ WholeFrames /\ Owned /\ OneReader /\ AnswersAreOwn
      /\ InOrder(Everything, dropped, told)
  BY DEF IInv
<1>2. /\ wire' \in Seq(Bytes) /\ told' \in Nat /\ WholeFrames' /\ Coming' = Coming
      /\ InOrder(Everything', dropped, told')
  BY <1>1, HitSends
<1>3. UNCHANGED <<inbox, dead, buf, client, poll>>
  BY DEF Hit
<1>4. Owned'
  BY <1>1, <1>2, <1>3, OwnedStays DEF client
<1>5. TypeOK'
  BY <1>1, <1>2, <1>3 DEF TypeOK, client, poll
<1>6. OneReader' /\ AnswersAreOwn' /\ InOrder(Everything', dropped', told')
  BY <1>1, <1>2, <1>3 DEF OneReader, AnswersAreOwn, client, poll
<1> QED BY <1>2, <1>4, <1>5, <1>6 DEF IInv

LEMMA DieKeeps ==
  ASSUME IInv, Die
  PROVE  IInv'
<1>1. /\ TypeOK /\ WholeFrames /\ Owned /\ OneReader /\ AnswersAreOwn
      /\ InOrder(Everything, dropped, told)
  BY DEF IInv
<1>2. inbox' = <<>> /\ UNCHANGED <<wire, buf, running, told, client, poll>>
  BY DEF Die
<1>3. WholeFrames' /\ Flown' = Flown
  BY <1>1, <1>2, BytesStay
<1>4. Coming' = Coming /\ Everything' = Everything
  BY <1>2, <1>3 DEF Coming, Everything, Heard3, client, poll
<1>5. Len(inbox') = 0 /\ inbox' \in Seq(Requests)
  BY <1>2, EmptySeq
<1>6. Owned'
  BY <1>1, <1>2, <1>4, <1>5 DEF Owned, client
<1>7. TypeOK'
  BY <1>1, <1>2, <1>5 DEF TypeOK, client, poll
<1>8. OneReader' /\ AnswersAreOwn' /\ InOrder(Everything', dropped', told')
  BY <1>1, <1>2, <1>4 DEF OneReader, AnswersAreOwn, client, poll
<1> QED BY <1>3, <1>6, <1>7, <1>8 DEF IInv

LEMMA SendKeeps ==
  ASSUME IInv, NEW command \in {"GET", "LIST", "EXIT"}, Send(command)
  PROVE  IInv'
<1>0. /\ TypeOK /\ WholeFrames /\ Owned /\ OneReader /\ AnswersAreOwn
      /\ InOrder(Everything, dropped, told)
      /\ Coming \in Seq(Heads) /\ Len(Coming) \in Nat /\ Len(inbox) \in Nat /\ ids \in Nat
      /\ \A i \in 1..Len(Coming) : Coming[i] \in Heads /\ Coming[i].rid \in Nat
      /\ \A i \in 1..Len(inbox) : inbox[i] \in Requests /\ inbox[i].rid \in Nat
  BY Owners
<1> DEFINE request == [rid |-> ids + 1, command |-> command, serial |-> ids + 1]
<1>1. /\ call' = request /\ inbox' = IF dead THEN inbox ELSE Append(inbox, request)
      /\ ids' = ids + 1 /\ collected' = <<>>
      /\ UNCHANGED <<wire, buf, running, told, dead, pending, result, polling, seen, handed>>
      /\ polling = "no"
  BY DEF Send, NextId, Idle
<1>2. request \in Requests /\ request.rid = ids + 1 /\ request.serial = ids + 1
  BY <1>0 DEF Requests
<1> HIDE DEF request
<1>3. WholeFrames' /\ Flown' = Flown
  BY <1>0, <1>1, BytesStay
<1>4. Coming' = Coming
  BY <1>1, <1>3 DEF Coming
<1>5. /\ inbox' \in Seq(Requests) /\ Len(inbox') \in Nat
      /\ \A i \in 1..Len(inbox') : \/ i \in 1..Len(inbox) /\ inbox'[i] = inbox[i]
                                   \/ i = Len(inbox') /\ i = Len(inbox) + 1 /\ inbox'[i] = request
  <2>1. inbox \in Seq(Requests)
    BY <1>0 DEF TypeOK
  <2>2. CASE dead
    BY <2>1, <2>2, <1>0, <1>1
  <2>3. CASE ~dead
    <3>1. /\ inbox' \in Seq(Requests) /\ Len(inbox') = Len(inbox) + 1
          /\ inbox'[Len(inbox) + 1] = request
          /\ \A i \in 1..Len(inbox) : inbox'[i] = inbox[i]
      BY <2>1, <2>3, <1>1, <1>2
    <3> QED BY <3>1, <1>0
  <2> QED BY <2>2, <2>3
<1>6. Owned'
  <2>1. \A i \in 1..Len(Coming') : /\ Coming'[i].rid = Coming'[i].serial /\ Coming'[i].rid \in 1..ids'
                                   /\ Coming'[i].rid <= ids
    BY <1>0, <1>1, <1>4 DEF Owned
  <2>2. \A i \in 1..Len(inbox) : /\ inbox[i].rid = inbox[i].serial /\ inbox[i].rid \in 1..ids
                                 /\ inbox[i].rid \in 1..(ids + 1) /\ inbox[i].rid # ids + 1
    BY <1>0 DEF Owned
  <2>3. \A i \in 1..Len(inbox') : /\ inbox'[i].rid = inbox'[i].serial /\ inbox'[i].rid \in 1..ids'
                                  /\ inbox'[i].rid = call'.rid => inbox'[i] = call'
    <3>1. ids + 1 \in 1..(ids + 1)
      BY <1>0
    <3> QED BY <2>2, <3>1, <1>1, <1>2, <1>5
  <2>4. \A i, j \in 1..Len(inbox') : i < j => inbox'[i].rid < inbox'[j].rid
    <3>1. ASSUME NEW i \in 1..Len(inbox'), NEW j \in 1..Len(inbox'), i < j
          PROVE  inbox'[i].rid < inbox'[j].rid
      <4>1. i \in 1..Len(inbox) /\ inbox'[i] = inbox[i]
        BY <3>1, <1>5
      <4>2. CASE j \in 1..Len(inbox) /\ inbox'[j] = inbox[j]
        BY <3>1, <4>1, <4>2, <1>0 DEF Owned
      <4>3. CASE inbox'[j] = request
        BY <4>1, <4>3, <2>2, <1>0, <1>2
      <4> QED BY <4>2, <4>3, <1>5
    <3> QED BY <3>1
  <2>5. \A i \in 1..Len(Coming'), j \in 1..Len(inbox') : Coming'[i].rid < inbox'[j].rid
    <3>1. ASSUME NEW i \in 1..Len(Coming), NEW j \in 1..Len(inbox')
          PROVE  Coming[i].rid < inbox'[j].rid
      <4>1. CASE j \in 1..Len(inbox) /\ inbox'[j] = inbox[j]
        BY <4>1, <1>0 DEF Owned
      <4>2. CASE inbox'[j] = request
        BY <4>2, <2>1, <1>0, <1>2, <1>4
      <4> QED BY <4>1, <4>2, <1>5
    <3> QED BY <3>1, <1>4
  <2>6. call'.rid = ids' /\ call'.serial = ids' /\ ids' # 0
    BY <1>0, <1>1, <1>2
  <2>7. Listed(Coming', call'.rid, Len(collected'))
    <3>1. Len(collected') = 0
      BY <1>1, EmptySeq
    <3>2. \A i \in 1..Len(Coming') : Coming'[i].rid # call'.rid
      BY <2>1, <2>6, <1>0, <1>1, <1>4
    <3> QED BY <3>1, <3>2 DEF Listed
  <2> QED BY <2>1, <2>3, <2>4, <2>5, <2>6, <2>7 DEF Owned
<1>7. OneReader' /\ AnswersAreOwn'
  BY <1>0, <1>1 DEF OneReader, AnswersAreOwn
<1>8. InOrder(Everything', dropped', told') /\ events' \in Seq(Heads)
  <2> DEFINE p == handed \o seen
             u == Chosen(Flown, TRUE)
  <2>0. p \in Seq(Heads) /\ u \in Seq(Heads) /\ events \in Seq(Heads) /\ told \in Nat
    <3>1. u \in Seq(Heads)
      BY <1>0, FlownType
    <3>2. handed \in Seq(Heads) /\ seen \in Seq(Heads) /\ events \in Seq(Heads) /\ told \in Nat
      BY <1>0 DEF TypeOK
    <3> QED BY <3>1, <3>2, ConcatProperties
  <2>1. CASE command = "EXIT"
    <3>1. events' = <<>> /\ dropped' = dropped \cup {events[i].serial : i \in DOMAIN events}
      BY <2>1 DEF Send
    <3>2. dropped' = dropped \cup Numbers(events)
      <4>1. DOMAIN events = 1..Len(events)
        BY <2>0, LenProperties
      <4> QED BY <3>1, <4>1 DEF Numbers
    <3>3. InOrder((p \o events) \o u, dropped, told)
      BY <1>0 DEF Everything, Heard3
    <3>4. InOrder(p \o u, dropped \cup Numbers(events), told)
      <4> HIDE DEF p, u
      <4> QED BY <2>0, <3>3, InOrderDrop
    <3>5. Everything' = (p \o <<>>) \o u
      BY <3>1, <1>1, <1>3 DEF Everything, Heard3
    <3>6. p \o <<>> = p
      <4> HIDE DEF p
      <4> QED BY <2>0, ConcatEmptySeq
    <3> QED BY <3>1, <3>2, <3>4, <3>5, <3>6, <1>1, EmptySeq
  <2>2. CASE command # "EXIT"
    <3>1. UNCHANGED <<events, dropped>>
      BY <2>2 DEF Send
    <3>2. Everything' = Everything
      BY <3>1, <1>1, <1>3 DEF Everything, Heard3
    <3> QED BY <3>1, <3>2, <2>0, <1>0, <1>1
  <2> QED BY <2>1, <2>2
<1>9. TypeOK'
  <2>1. collected' \in Seq(Heads)
    BY <1>1, EmptySeq
  <2> QED BY <2>1, <1>0, <1>1, <1>2, <1>5, <1>8 DEF TypeOK
<1> QED BY <1>3, <1>6, <1>7, <1>8, <1>9 DEF IInv

LEMMA TakeKeeps ==
  ASSUME IInv, Take
  PROVE  IInv'
<1>0. /\ TypeOK /\ WholeFrames /\ Owned /\ OneReader /\ AnswersAreOwn
      /\ InOrder(Everything, dropped, told)
      /\ Coming \in Seq(Heads) /\ Len(Coming) \in Nat /\ Len(inbox) \in Nat /\ ids \in Nat
      /\ \A i \in 1..Len(Coming) : Coming[i] \in Heads /\ Coming[i].rid \in Nat
      /\ \A i \in 1..Len(inbox) : inbox[i] \in Requests /\ inbox[i].rid \in Nat
  BY Owners
<1> DEFINE i == CHOOSE i \in Mine : \A j \in Mine : i <= j
           r == pending[i]
<1>1. i \in Mine /\ \A j \in Mine : i <= j
  <2>1. Mine # {} /\ Mine \subseteq Nat
    <3>1. DOMAIN pending = 1..Len(pending)
      BY <1>0, LenProperties DEF TypeOK
    <3> QED BY <3>1 DEF Take, Mine
  <2> QED BY <2>1, Smallest
<1>2. /\ pending' = Without(pending, i)
      /\ \/ /\ call.command = "LIST" /\ r.type = "info"
            /\ collected' = Append(collected, r) /\ UNCHANGED <<call, result>>
         \/ /\ ~(call.command = "LIST" /\ r.type = "info")
            /\ Ends(IF r.ok THEN "answer" ELSE "error", r) /\ UNCHANGED collected
      /\ UNCHANGED <<wire, buf, vice, events, ids, poll>>
      /\ call # NoCall
  BY DEF Take
<1> HIDE DEF i
<1> DEFINE c == Chosen(Flown, FALSE)
<1>3. /\ pending \in Seq(Heads) /\ i \in 1..Len(pending) /\ r \in Heads /\ r.rid = call.rid
      /\ c \in Seq(Heads) /\ call \in Requests /\ collected \in Seq(Heads)
      /\ Len(collected) \in Nat /\ call.rid \in Nat /\ Len(pending) \in Nat
  <2>1. pending \in Seq(Heads) /\ call \in Requests /\ collected \in Seq(Heads)
    BY <1>0 DEF TypeOK
  <2>2. i \in 1..Len(pending) /\ r.rid = call.rid
    BY <2>1, <1>1 DEF Mine
  <2>3. c \in Seq(Heads)
    BY <1>0, FlownType
  <2>4. r \in Heads /\ call.rid \in Nat
    BY <2>1, <2>2 DEF Requests
  <2>5. Len(collected) \in Nat /\ Len(pending) \in Nat
    BY <2>1
  <2> QED BY <2>1, <2>2, <2>3, <2>4, <2>5
<1>4. \A j \in 1..(i - 1) : pending[j].rid # call.rid
  <2>1. DOMAIN pending = 1..Len(pending)
    BY <1>3, LenProperties
  <2>2. ASSUME NEW j \in 1..(i - 1), pending[j].rid = call.rid PROVE FALSE
    <3>1. j \in Mine
      BY <1>3, <2>1, <2>2 DEF Mine
    <3> QED BY <1>1, <1>3, <3>1
  <2> QED BY <2>2
<1>5. WholeFrames' /\ Flown' = Flown
  BY <1>0, <1>2, BytesStay
<1>6. /\ Coming = pending \o c /\ Coming' = Without(Coming, i)
      /\ i \in 1..Len(Coming) /\ Coming[i] = r
      /\ \A j \in 1..(i - 1) : Coming[j] = pending[j]
  <2>1. Coming = pending \o c
    BY DEF Coming
  <2>2. Coming' = Without(pending, i) \o c
    BY <1>2, <1>5 DEF Coming
  <2>3. Len(Coming) = Len(pending) + Len(c) /\ \A j \in 1..Len(pending) : Coming[j] = pending[j]
    BY <2>1, <1>3, ConcatProperties
  <2>4. Without(pending \o c, i) = Without(pending, i) \o c
    <3> HIDE DEF c
    <3> QED BY <1>3, WithoutConcat
  <2>5. Len(c) \in Nat
    BY <1>3, LenProperties
  <2> HIDE DEF c, r
  <2>6. i \in 1..Len(Coming) /\ Coming[i] = r /\ \A j \in 1..(i - 1) : Coming[j] = pending[j]
    BY <2>3, <2>5, <1>3 DEF r
  <2> QED BY <2>1, <2>2, <2>4, <2>6
<1>7. /\ Coming' \in Seq(Heads) /\ Len(Coming') = Len(Coming) - 1
      /\ \A j \in 1..(Len(Coming) - 1) : Coming'[j] = IF j < i THEN Coming[j] ELSE Coming[j + 1]
  BY <1>0, <1>6, WithoutElements
<1>8. \A j \in 1..Len(Coming') : \E k \in 1..Len(Coming) : Coming'[j] = Coming[k]
  <2>1. \A j \in 1..Len(Coming') : j \in 1..Len(Coming) /\ j + 1 \in 1..Len(Coming) /\ j \in 1..(Len(Coming) - 1)
    BY <1>0, <1>7
  <2> QED BY <2>1, <1>7
<1>9. r.serial = call.serial
  <2>1. r.rid = r.serial
    BY <1>0, <1>6 DEF Owned
  <2>2. call.rid = call.serial
    BY <1>0, <1>2 DEF Owned
  <2> QED BY <1>3, <2>1, <2>2
<1>10. UNCHANGED <<events, handed, seen, dropped, told, inbox, polling, ids, dead, running>>
  BY <1>2 DEF vice, poll
<1>11. Everything' = Everything
  BY <1>5, <1>10 DEF Everything, Heard3
<1>12. pending' \in Seq(Heads)
  BY <1>2, <1>3, WithoutElements
<1> HIDE DEF c, r
<1>13. CASE call.command = "LIST" /\ r.type = "info"
  <2>1. collected' = Append(collected, r) /\ UNCHANGED <<call, result>>
    BY <1>2, <1>13
  <2>2. collected' \in Seq(Heads) /\ Len(collected') = Len(collected) + 1
    BY <2>1, <1>3
  <2>3. Listed(Coming', call.rid, Len(collected) + 1)
    <3>1. Listed(Coming, call.rid, Len(collected))
      BY <1>0, <1>13 DEF Owned
    <3>2. \A j \in 1..(i - 1) : Coming[j].rid # call.rid
      BY <1>4, <1>6
    <3>3. Coming[i].rid = call.rid /\ Coming[i].type = "info"
      BY <1>3, <1>6, <1>13
    <3>4. Listed(Without(Coming, i), call.rid, Len(collected) + 1)
      BY <1>0, <1>3, <1>6, <3>1, <3>2, <3>3, ListedInfo
    <3> QED BY <3>4, <1>6
  <2>4. Owned'
    <3>1. \A j \in 1..Len(Coming') : Coming'[j].rid = Coming'[j].serial /\ Coming'[j].rid \in 1..ids'
      BY <1>0, <1>8, <1>10 DEF Owned
    <3>2. \A j \in 1..Len(inbox') : /\ inbox'[j].rid = inbox'[j].serial /\ inbox'[j].rid \in 1..ids'
                                    /\ inbox'[j].rid = call'.rid => inbox'[j] = call'
      BY <1>0, <1>10, <2>1 DEF Owned
    <3>3. \A j, k \in 1..Len(inbox') : j < k => inbox'[j].rid < inbox'[k].rid
      BY <1>0, <1>10 DEF Owned
    <3>4. \A j \in 1..Len(Coming'), k \in 1..Len(inbox') : Coming'[j].rid < inbox'[k].rid
      <4>1. \A j \in 1..Len(Coming), k \in 1..Len(inbox) : Coming[j].rid < inbox[k].rid
        BY <1>0 DEF Owned
      <4> QED BY <4>1, <1>8, <1>10
    <3>5. call' = NoCall \/ (call'.rid = ids' /\ call'.serial = ids' /\ ids' # 0)
      BY <1>0, <1>10, <2>1 DEF Owned
    <3> QED BY <3>1, <3>2, <3>3, <3>4, <3>5, <2>1, <2>2, <2>3 DEF Owned
  <2>5. TypeOK'
    BY <1>0, <1>2, <1>10, <1>12, <2>1, <2>2 DEF TypeOK
  <2>6. OneReader' /\ AnswersAreOwn' /\ InOrder(Everything', dropped', told')
    BY <1>0, <1>10, <1>11, <2>1 DEF OneReader, AnswersAreOwn
  <2> QED BY <1>5, <2>4, <2>5, <2>6 DEF IInv
<1>14. CASE ~(call.command = "LIST" /\ r.type = "info")
  <2>1. /\ call' = NoCall /\ UNCHANGED collected
        /\ result' = [of |-> call, kind |-> IF r.ok THEN "answer" ELSE "error",
                      serial |-> r.serial, infos |-> r.infos, got |-> Len(collected)]
    BY <1>2, <1>14 DEF Ends
  <2>2. NoCall \in Requests
    BY DEF NoCall, Requests
  <2>3. result' \in Results
    BY <2>1, <1>3 DEF Results, Heads
  <2>4. AnswersAreOwn'
    <3>1. call.command = "LIST" => r.infos = Len(collected)
      <4>1. SUFFICES ASSUME call.command = "LIST" PROVE r.infos = Len(collected)
        OBVIOUS
      <4>2. Listed(Coming, call.rid, Len(collected))
        BY <1>0, <4>1 DEF Owned
      <4>3. \A j \in 1..(i - 1) : Coming[j].rid # call.rid
        BY <1>4, <1>6
      <4>4. Coming[i].rid = call.rid /\ Coming[i].type # "info"
        BY <1>3, <1>6, <1>14, <4>1
      <4>5. Coming[i].infos = Len(collected)
        <5>1. Coming \in Seq(Heads) /\ i \in 1..Len(Coming)
          BY <1>0, <1>6
        <5>2. call.rid \in Nat /\ Len(collected) \in Nat
          BY <1>3
        <5> QED BY <5>1, <5>2, <4>2, <4>3, <4>4, ListedAnswer
      <4> QED BY <4>5, <1>6
    <3> QED BY <2>1, <3>1, <1>9 DEF AnswersAreOwn
  <2>5. Owned'
    BY <1>7, <1>8, <1>10, <2>1, OwnedEnds
  <2>6. TypeOK'
    BY <1>0, <1>2, <1>10, <1>12, <2>1, <2>2, <2>3 DEF TypeOK
  <2>7. OneReader' /\ InOrder(Everything', dropped', told')
    BY <1>0, <1>10, <1>11, <2>1 DEF OneReader
  <2> QED BY <1>5, <2>4, <2>5, <2>6, <2>7 DEF IInv
<1> QED BY <1>13, <1>14

\* A request that ends without an answer.
LEMMA EndsKeeps ==
  ASSUME IInv, NEW kind \in {"timeout", "closed"}, Ends(kind, NoHead), call # NoCall,
         UNCHANGED <<wire, buf, vice, pending, events, ids, collected, poll>>
  PROVE  IInv'
<1>0. /\ TypeOK /\ WholeFrames /\ Owned /\ OneReader /\ AnswersAreOwn
      /\ InOrder(Everything, dropped, told) /\ Coming \in Seq(Heads)
  BY Owners
<1>1. WholeFrames' /\ Flown' = Flown
  BY <1>0, BytesStay
<1>2. Coming' = Coming /\ Everything' = Everything
  BY <1>1 DEF Coming, Everything, Heard3, poll
<1>3. /\ call' = NoCall
      /\ result' = [of |-> call, kind |-> kind, serial |-> NoHead.serial, infos |-> NoHead.infos,
                    got |-> Len(collected)]
  BY DEF Ends
<1>4. UNCHANGED <<events, handed, seen, dropped, told, inbox, polling, ids, dead, running>>
  BY DEF vice, poll
<1>5. result' \in Results /\ NoCall \in Requests
  <2>1. Len(collected) \in Nat /\ call \in Requests
    BY <1>0 DEF TypeOK
  <2> QED BY <1>3, <2>1 DEF Results, NoHead, NoCall, Requests
<1>6. TypeOK'
  BY <1>0, <1>3, <1>4, <1>5 DEF TypeOK
<1>7. Owned'
  <2>1. \A i \in 1..Len(Coming') : \E j \in 1..Len(Coming) : Coming'[i] = Coming[j]
    BY <1>2
  <2> QED BY <1>0, <1>2, <1>3, <1>4, <2>1, OwnedEnds
<1>8. OneReader' /\ AnswersAreOwn' /\ InOrder(Everything', dropped', told')
  BY <1>0, <1>2, <1>3, <1>4 DEF OneReader, AnswersAreOwn
<1> QED BY <1>1, <1>6, <1>7, <1>8 DEF IInv

LEMMA RecvKeeps ==
  ASSUME IInv, Recv
  PROVE  IInv'
<1>0. /\ TypeOK /\ WholeFrames /\ Owned /\ OneReader /\ AnswersAreOwn
      /\ InOrder(Everything, dropped, told)
  BY DEF IInv
<1>1. PICK n \in 1..Len(wire) :
        /\ wire' = SubSeq(wire, n + 1, Len(wire)) /\ buf' = Buffered(n, Got(n))
        /\ IF Got(n).bad
           THEN Ends("protocol", NoHead) /\ UNCHANGED <<pending, events>>
           ELSE /\ pending' = pending \o Sorted(Got(n).out)
                /\ events' = events \o Told(Got(n).out)
                /\ UNCHANGED <<call, result>>
  BY DEF Recv, Receive
<1> DEFINE x == Sorted(Got(n).out)
           y == Told(Got(n).out)
           u == Chosen(Flown', FALSE)
           v == Chosen(Flown', TRUE)
<1>2. /\ wire' \in Seq(Bytes) /\ buf' \in Seq(Bytes) /\ WholeFrames' /\ ~Got(n).bad
      /\ x \in Seq(Heads) /\ y \in Seq(Heads) /\ u \in Seq(Heads) /\ v \in Seq(Heads)
      /\ Chosen(Flown, FALSE) = x \o u /\ Chosen(Flown, TRUE) = y \o v
  BY <1>0, <1>1, BytesArrive
<1>3. /\ pending' = pending \o x /\ events' = events \o y
      /\ UNCHANGED <<call, result, vice, ids, collected, poll>>
  BY <1>1, <1>2 DEF Recv
<1>4. /\ pending \in Seq(Heads) /\ events \in Seq(Heads) /\ handed \in Seq(Heads) /\ seen \in Seq(Heads)
  BY <1>0 DEF TypeOK
<1>5. Coming' = pending' \o u /\ Everything' = ((handed \o seen) \o events') \o v
  BY <1>3 DEF Coming, Everything, Heard3, poll
<1>6. Coming = pending \o (x \o u) /\ Everything = ((handed \o seen) \o events) \o (y \o v)
  BY <1>2 DEF Coming, Everything, Heard3
<1> HIDE DEF x, y, u, v
<1>7. Coming' = Coming
  <2>1. pending \in Seq(Heads) /\ x \in Seq(Heads) /\ u \in Seq(Heads)
    BY <1>2, <1>4
  <2>2. (pending \o x) \o u = pending \o (x \o u)
    BY <2>1, HeadsAssociative
  <2> QED BY <1>3, <1>5, <1>6, <2>2
<1>8. Everything' = Everything
  <2> DEFINE p == handed \o seen
  <2>1. p \in Seq(Heads)
    BY <1>4, ConcatProperties
  <2> HIDE DEF p
  <2>2. p \o (events \o y) = (p \o events) \o y
    BY <1>2, <1>4, <2>1, HeadsAssociative
  <2> DEFINE q == p \o events
  <2>3. q \in Seq(Heads)
    BY <1>4, <2>1, ConcatProperties
  <2> HIDE DEF q
  <2>4. (q \o y) \o v = q \o (y \o v)
    BY <1>2, <2>3, HeadsAssociative
  <2> QED BY <1>3, <1>5, <1>6, <2>2, <2>4 DEF p, q
<1>9. pending' \in Seq(Heads) /\ events' \in Seq(Heads)
  BY <1>2, <1>3, <1>4, ConcatProperties
<1>10. UNCHANGED <<handed, seen, dropped, told, inbox, polling, ids, dead, running, call, collected, result>>
  BY <1>3 DEF vice, poll
<1>11. TypeOK'
  BY <1>0, <1>2, <1>9, <1>10 DEF TypeOK
<1>12. Owned'
  BY <1>0, <1>7, <1>10, OwnedStays
<1>13. OneReader'
  <2>1. call # NoCall
    BY DEF Recv
  <2> QED BY <1>0, <1>10, <2>1 DEF OneReader
<1>14. AnswersAreOwn' /\ InOrder(Everything', dropped', told')
  BY <1>0, <1>8, <1>10 DEF AnswersAreOwn
<1> QED BY <1>2, <1>11, <1>12, <1>13, <1>14 DEF IInv

LEMMA HearKeeps ==
  ASSUME IInv, Hear
  PROVE  IInv'
<1>0. /\ TypeOK /\ WholeFrames /\ Owned /\ OneReader /\ AnswersAreOwn
      /\ InOrder(Everything, dropped, told)
  BY DEF IInv
<1>1. PICK n \in 1..Len(wire) :
        /\ wire' = SubSeq(wire, n + 1, Len(wire)) /\ buf' = Buffered(n, Got(n))
        /\ pending' = pending \o Sorted(Got(n).out)
        /\ seen' = seen \o Told(Got(n).out)
  BY DEF Hear, Receive
<1> DEFINE x == Sorted(Got(n).out)
           y == Told(Got(n).out)
           u == Chosen(Flown', FALSE)
           v == Chosen(Flown', TRUE)
<1>2. /\ wire' \in Seq(Bytes) /\ buf' \in Seq(Bytes) /\ WholeFrames'
      /\ x \in Seq(Heads) /\ y \in Seq(Heads) /\ u \in Seq(Heads) /\ v \in Seq(Heads)
      /\ Chosen(Flown, FALSE) = x \o u /\ Chosen(Flown, TRUE) = y \o v
  BY <1>0, <1>1, BytesArrive
<1>3. /\ pending' = pending \o x /\ seen' = seen \o y
      /\ UNCHANGED <<vice, events, ids, call, collected, result, polling, handed, dropped>>
      /\ polling # "no"
  BY <1>1 DEF Hear
<1>4. /\ pending \in Seq(Heads) /\ handed \in Seq(Heads) /\ seen \in Seq(Heads)
      /\ events = <<>> /\ call = NoCall
  BY <1>0, <1>3 DEF TypeOK, OneReader
<1>5. Coming' = pending' \o u /\ Everything' = ((handed \o seen') \o <<>>) \o v
  BY <1>3, <1>4 DEF Coming, Everything, Heard3
<1>6. Coming = pending \o (x \o u) /\ Everything = ((handed \o seen) \o <<>>) \o (y \o v)
  BY <1>2, <1>4 DEF Coming, Everything, Heard3
<1> HIDE DEF x, y, u, v
<1>7. Coming' = Coming
  <2>1. pending \in Seq(Heads) /\ x \in Seq(Heads) /\ u \in Seq(Heads)
    BY <1>2, <1>4
  <2>2. (pending \o x) \o u = pending \o (x \o u)
    BY <2>1, HeadsAssociative
  <2> QED BY <1>3, <1>5, <1>6, <2>2
<1>8. Everything' = Everything
  <2> DEFINE p == handed \o seen
  <2>1. p \in Seq(Heads)
    BY <1>4, ConcatProperties
  <2>2. handed \o (seen \o y) = p \o y
    <3>1. handed \in Seq(Heads) /\ seen \in Seq(Heads) /\ y \in Seq(Heads)
      BY <1>2, <1>4
    <3>2. (handed \o seen) \o y = handed \o (seen \o y)
      BY <3>1, HeadsAssociative
    <3> QED BY <3>2
  <2> HIDE DEF p
  <2>3. p \o y \in Seq(Heads)
    BY <1>2, <2>1, ConcatProperties
  <2>4. (p \o y) \o <<>> = p \o y /\ p \o <<>> = p
    BY <2>1, <2>3, ConcatEmptySeq
  <2>5. (p \o y) \o v = p \o (y \o v)
    BY <1>2, <2>1, HeadsAssociative
  <2> QED BY <1>3, <1>5, <1>6, <2>2, <2>4, <2>5 DEF p
<1>9. pending' \in Seq(Heads) /\ seen' \in Seq(Heads)
  BY <1>2, <1>3, <1>4, ConcatProperties
<1>10. UNCHANGED <<handed, events, dropped, told, inbox, polling, ids, dead, running, call, collected, result>>
  BY <1>3 DEF vice
<1>11. TypeOK'
  BY <1>0, <1>2, <1>9, <1>10 DEF TypeOK
<1>12. Owned'
  BY <1>0, <1>7, <1>10, OwnedStays
<1>13. OneReader'
  BY <1>3, <1>4, <1>10 DEF OneReader
<1>14. AnswersAreOwn' /\ InOrder(Everything', dropped', told')
  BY <1>0, <1>8, <1>10 DEF AnswersAreOwn
<1> QED BY <1>2, <1>11, <1>12, <1>13, <1>14 DEF IInv

\* The events go from the deque to the one who listens, to his caller, or are
\* dropped with his connection.
LEMMA ListenKeeps ==
  ASSUME IInv, Listen \/ Heard \/ HearsEnd
  PROVE  IInv'
<1>0. /\ TypeOK /\ WholeFrames /\ Owned /\ OneReader /\ AnswersAreOwn
      /\ InOrder(Everything, dropped, told)
  BY DEF IInv
<1>1. UNCHANGED <<wire, buf, inbox, running, told, dead, pending, ids, call, collected, result>>
  BY DEF Listen, Heard, HearsEnd, vice, client
<1>2. WholeFrames' /\ Flown' = Flown
  BY <1>0, <1>1, BytesStay
<1>3. Coming' = Coming
  BY <1>1, <1>2 DEF Coming
<1>4. Owned'
  BY <1>0, <1>1, <1>3, OwnedStays
<1>5. AnswersAreOwn'
  BY <1>0, <1>1 DEF AnswersAreOwn
<1> DEFINE v == Chosen(Flown, TRUE)
<1>6. Everything = ((handed \o seen) \o events) \o v /\ Everything' = ((handed' \o seen') \o events') \o v
  BY <1>2 DEF Everything, Heard3
<1>7. /\ v \in Seq(Heads) /\ handed \in Seq(Heads) /\ seen \in Seq(Heads) /\ events \in Seq(Heads)
      /\ told \in Nat /\ <<>> \in Seq(Heads) /\ handed \o seen \in Seq(Heads)
      /\ handed \o events \in Seq(Heads)
  <2>1. v \in Seq(Heads)
    BY <1>0, FlownType
  <2>2. handed \in Seq(Heads) /\ seen \in Seq(Heads) /\ events \in Seq(Heads) /\ told \in Nat
    BY <1>0 DEF TypeOK
  <2> QED BY <2>1, <2>2, EmptySeq, ConcatProperties
<1> HIDE DEF v
<1>8. CASE Listen
  <2>1. /\ polling = "no" /\ call = NoCall /\ polling' \in {"all", "first"}
        /\ seen' = events /\ events' = <<>> /\ UNCHANGED <<handed, dropped>> /\ seen = <<>>
    BY <1>0, <1>8 DEF Listen, Idle, OneReader
  <2>2. handed \o <<>> = handed /\ (handed \o events) \o <<>> = handed \o events
    BY <1>7, ConcatEmptySeq
  <2>3. Everything' = Everything
    BY <1>6, <2>1, <2>2
  <2>4. TypeOK'
    BY <1>0, <1>1, <1>7, <2>1 DEF TypeOK
  <2>5. OneReader'
    BY <1>1, <2>1 DEF OneReader
  <2> QED BY <1>0, <1>1, <1>2, <1>4, <1>5, <2>1, <2>3, <2>4, <2>5 DEF IInv
<1>9. CASE Heard
  <2>1. /\ polling' = "no" /\ seen' = <<>> /\ handed' = handed \o seen
        /\ UNCHANGED <<events, dropped>> /\ events = <<>>
    BY <1>0, <1>9 DEF Heard, OneReader, client
  <2>2. (handed \o seen) \o <<>> = handed \o seen
    BY <1>7, ConcatEmptySeq
  <2>3. Everything' = Everything
    BY <1>6, <2>1, <2>2
  <2>4. TypeOK'
    BY <1>0, <1>1, <1>7, <2>1 DEF TypeOK
  <2>5. OneReader'
    BY <1>1, <2>1 DEF OneReader
  <2> QED BY <1>0, <1>1, <1>2, <1>4, <1>5, <2>1, <2>3, <2>4, <2>5 DEF IInv
<1>10. CASE HearsEnd
  <2>1. /\ polling' = "no" /\ seen' = <<>> /\ UNCHANGED <<handed, events>>
        /\ dropped' = dropped \cup {seen[i].serial : i \in DOMAIN seen} /\ events = <<>>
    BY <1>0, <1>10 DEF HearsEnd, OneReader, client
  <2>2. dropped' = dropped \cup Numbers(seen)
    <3>1. DOMAIN seen = 1..Len(seen)
      BY <1>7, LenProperties
    <3> QED BY <2>1, <3>1 DEF Numbers
  <2>3. (handed \o seen) \o <<>> = handed \o seen /\ handed \o <<>> = handed
    BY <1>7, ConcatEmptySeq
  <2>4. InOrder((handed \o seen) \o v, dropped, told)
    BY <1>0, <1>6, <2>1, <2>3
  <2>5. InOrder(handed \o v, dropped \cup Numbers(seen), told)
    BY <1>7, <2>4, InOrderDrop
  <2>6. Everything' = handed \o v
    BY <1>6, <2>1, <2>3
  <2>7. TypeOK'
    BY <1>0, <1>1, <1>7, <2>1 DEF TypeOK
  <2>8. OneReader'
    BY <1>1, <2>1 DEF OneReader
  <2> QED BY <1>1, <1>2, <1>4, <1>5, <2>2, <2>5, <2>6, <2>7, <2>8 DEF IInv
<1> QED BY <1>8, <1>9, <1>10

LEMMA StutterKeeps ==
  ASSUME IInv, UNCHANGED vars
  PROVE  IInv'
<1>1. UNCHANGED <<wire, buf, inbox, running, told, dead, pending, events, ids, call, collected,
                  result, polling, seen, handed, dropped>>
  BY DEF vars, vice, client, poll
<1>2. Flown' = Flown /\ Coming' = Coming /\ Everything' = Everything
  BY <1>1 DEF Flown, Coming, Everything, Heard3
<1> QED BY <1>1, <1>2 DEF IInv, TypeOK, WholeFrames, Owned, OneReader, AnswersAreOwn

\* The inductive invariant holds, for any number of requests, events and infos.
THEOREM Invariance == Spec => []IInv
<1>1. ASSUME IInv, [Next]_vars PROVE IInv'
  <2>1. CASE Process
    BY <1>1, <2>1, ProcessKeeps
  <2>2. CASE Hit
    BY <1>1, <2>2, HitKeeps
  <2>3. CASE Die
    BY <1>1, <2>3, DieKeeps
  <2>4. CASE \E command \in {"GET", "LIST", "EXIT"} : Send(command)
    BY <1>1, <2>4, SendKeeps
  <2>5. CASE Take
    BY <1>1, <2>5, TakeKeeps
  <2>6. CASE Recv
    BY <1>1, <2>6, RecvKeeps
  <2>7. CASE TimesOut
    BY <1>1, <2>7, EndsKeeps DEF TimesOut
  <2>8. CASE Closed
    BY <1>1, <2>8, EndsKeeps DEF Closed
  <2>9. CASE Listen \/ Heard \/ HearsEnd
    BY <1>1, <2>9, ListenKeeps
  <2>10. CASE Hear
    BY <1>1, <2>10, HearKeeps
  <2>11. CASE UNCHANGED vars
    BY <1>1, <2>11, StutterKeeps
  <2> QED
    BY <1>1, <2>1, <2>2, <2>3, <2>4, <2>5, <2>6, <2>7, <2>8, <2>9, <2>10, <2>11
    DEF Next, Vice, Request, Poll
<1> QED BY Initial, <1>1, PTL DEF Spec

\* Every state is of its type.
THEOREM TypeCorrect == Spec => []TypeOK
<1>1. IInv => TypeOK
  BY DEF IInv
<1> QED BY Invariance, <1>1, PTL

\* What a request returns or raises is VICE's word on this very request, a list
\* is all that VICE listed for it, and no frame is taken for a broken one
\* (_transact and FrameDecoder.feed).
THEOREM AnswersAreOwnHolds == Spec => []AnswersAreOwn
<1>1. IInv => AnswersAreOwn
  BY DEF IInv
<1> QED BY Invariance, <1>1, PTL

\* Events reach callers in the order VICE has sent them, each of them once, and
\* none is lost but those that a resume or a failing poll drops (_sort, events,
\* poll_events).
THEOREM EventsKeepOrderHolds == Spec => []EventsKeepOrder
<1>1. IInv => EventsKeepOrder
  <2> SUFFICES ASSUME IInv PROVE EventsKeepOrder
    OBVIOUS
  <2> DEFINE s == Everything
             all == Serials(s)
  <2>1. s \in Seq(Heads) /\ InOrder(s, dropped, told)
    BY FlownType DEF IInv
  <2>2. s = handed \o seen \o events \o Flying
    BY DEF Everything, Heard3, Flying, Flown
  <2> HIDE DEF s
  <2>3. DOMAIN s = 1..Len(s)
    BY <2>1, LenProperties
  <2>4. DOMAIN all = 1..Len(s) /\ \A i \in 1..Len(s) : all[i] = s[i].serial
    BY <2>3 DEF Serials
  <2> HIDE DEF all
  <2>5. {all[i] : i \in DOMAIN all} = Numbers(s)
    BY <2>4 DEF Numbers
  <2>6. \A i, j \in DOMAIN all : i < j => all[i] < all[j]
    BY <2>1, <2>4 DEF InOrder, Increasing
  <2>7. {all[i] : i \in DOMAIN all} \cup dropped = 1..told
    BY <2>1, <2>5 DEF InOrder
  <2>8. all = Serials(handed \o seen \o events \o Flying)
    BY <2>2 DEF all
  <2> QED BY <2>6, <2>7, <2>8 DEF EventsKeepOrder
<1> QED BY Invariance, <1>1, PTL
=============================================================================
