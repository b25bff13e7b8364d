--------------------------- MODULE FrontEndsProofs ---------------------------
(***************************************************************************)
(* Safety of the front ends and of the loops behind their commands.        *)
(*                                                                         *)
(* Front ends: every command of the roster takes its steps in a discipline *)
(* of seven modes (Turn, Careful), which RosterDisciplined shows command   *)
(* by command; what the interpreter keeps up rests on the discipline       *)
(* alone, so it holds of any roster that has it.                           *)
(* Loops: what the sides, the counts and the machine have to do with one   *)
(* another at each place of a loop, for any number of arrivals and frames. *)
(***************************************************************************)
EXTENDS FrontEnds, ClientLoops, TLAPS, WellFoundedInduction

-----------------------------------------------------------------------------
(* How a command of the roster keeps to its brackets.                        *)

\* The modes of a command's way through its steps: nothing done yet, the
\* machine brought to where the command leaves it, its state sampled, the
\* document out; and, a monitor open, nothing done yet, the machine let go or
\* halted, the document out.
Closed == {"begin", "settled", "sampled", "shown"}
Inside == {"inside", "changed", "told"}
Modes == Closed \cup Inside

Kinds == INPUT_ERRORS \cup RuntimeErrors \cup {"Usage", "Image", "Strict"}

\* What a command need not catch: what the group reports, and the two kinds
\* that OneDocument leaves out.
Reportable == INPUT_ERRORS \cup {"Zero", "Remote"}

StepType ==
  [do : {"work", "look", "open", "ask", "halt", "resume", "finally release", "finally resume",
         "close", "sample", "poll", "loop", "boot", "log", "emit", "verdict", "timed out"},
   can : SUBSET Kinds, by : SUBSET Kinds,
   says : {"none", "data", "sampled", "stopped", "running"}]

\* A command that leaves the machine as found has nothing to bring about.
Ready(leaves) == IF leaves = "as found" THEN "begin" ELSE "settled"

\* The turn from mode m to mode n that a step makes once it is done.
Turn(leaves, early, do, says, m, n) ==
  \/ do \in {"work", "look"} /\ m \in {"begin", "settled", "sampled"} /\ n = m
  \/ do = "open" /\ m = "begin" /\ n = "inside"
  \/ do = "ask" /\ m = "inside" /\ n = m
  \/ do = "finally release" /\ m = "inside" /\ n = m
  \/ do = "finally release" /\ early /\ leaves = "as found" /\ m = "told" /\ n = m
  \/ do = "halt" /\ leaves = "stopped" /\ m = "inside" /\ n = "changed"
  \/ do \in {"resume", "finally resume"} /\ leaves = "running" /\ m = "inside" /\ n = "changed"
  \/ do = "close" /\ m = "inside" /\ n = "begin"
  \/ do = "close" /\ m = "changed" /\ n = "settled"
  \/ do = "close" /\ early /\ leaves = "as found" /\ m = "told" /\ n = "shown"
  \/ do = "sample" /\ leaves = "as found" /\ m = "begin" /\ n = "sampled"
  \/ do = "poll" /\ leaves = "as found" /\ m = "sampled" /\ n = m
  \/ do = "loop" /\ leaves = "stopped" /\ m = "begin" /\ n = "settled"
  \/ do \in {"boot", "log"} /\ leaves = "running" /\ m = "begin" /\ n = "settled"
  \/ do \in {"emit", "verdict"} /\ says = "none" /\ m = Ready(leaves) /\ n = "shown"
  \/ do = "emit" /\ says = "none" /\ early /\ m = "inside" /\ n = "told"
  \/ do = "emit" /\ says = leaves /\ m = "settled" /\ n = "shown"
  \/ do = "emit" /\ leaves = "as found" /\ says = "sampled" /\ m = "sampled" /\ n = "shown"
  \/ do = "timed out" /\ leaves = "as found" /\ m = "sampled" /\ n = "shown"

\* What a step may raise and say.
Careful(front, s) ==
  /\ front = "mcp" \/ s.can \subseteq s.by \cup Reportable
  /\ s.do \in {"close", "emit", "verdict"} => s.can = {}
  /\ s.says /= "none" => s.do \in {"emit", "loop"}
  /\ s.do = "loop" /\ s.says = "stopped" => s.can \subseteq {"Zero", "Value"}

\* The manner of a command; only the screen command may write its document
\* inside its bracket.
Manner(front, leaves, early) == [front |-> front, leaves |-> leaves, early |-> early]

\* Every step is careful, and m takes the modes along the steps.
Course(w, s, m) ==
  /\ m \in [1..(Len(s) + 1) -> Modes]
  /\ \A i \in 1..Len(s) :
       /\ Careful(w.front, s[i])
       /\ Turn(w.leaves, w.early, s[i].do, s[i].says, m[i], m[i + 1])

\* The steps lead a command of manner w from mode a to mode b.
Leads(w, s, a, b) ==
  /\ s \in Seq(StepType)
  /\ \E m : Course(w, s, m) /\ m[1] = a /\ m[Len(s) + 1] = b

Way(c) == Manner(c.front, c.leaves, c = screen_cmd)

Disciplined(c) ==
  /\ c.front \in {"cli", "mcp"} /\ c.leaves \in {"as found", "running", "stopped"}
  /\ Leads(Way(c), c.steps, "begin", "shown")

\* The modes of a disciplined command.
Plan(c) == CHOOSE m : /\ Course(Way(c), c.steps, m)
                      /\ m[1] = "begin" /\ m[Len(c.steps) + 1] = "shown"

-----------------------------------------------------------------------------
(* The invariant.                                                            *)

Going == exit = "none"
Mode == Plan(command)[pos]

FrontTypeOK ==
  /\ link \in {"daemon", "direct"}
  /\ command \in Commands \cup {Cli("as found", <<>>)}
  /\ pos \in 1..(Len(command.steps) + 1)
  /\ open \in BOOLEAN /\ hit \in BOOLEAN /\ ran \in BOOLEAN
  /\ error.kind \in Kinds \cup {"none"} /\ error.caught \in BOOLEAN
  /\ before \in Halts \cup {"unknown"}
  /\ processor \in {"running", "halted"} /\ held \in Halts /\ found \in Halts
  /\ out \in Seq({"data", "error"})
  /\ claim \in Halts \cup {"none", "unknown", "stopped throughout", "running meanwhile",
                           "guess"}
  /\ exit \in {"none", "0", "1", "data", "error", "traceback"}

\* A monitor is open in the modes of a bracket; after an error until the
\* bracket is closed.
Placed ==
  /\ Going => command \in Commands
  /\ Going /\ (Fine \/ open) => (open <=> Mode \in Inside)
  /\ ~Going => ~open

\* Outside of brackets the daemon's state is the CPU's, and inside it never
\* holds a running one to be stopped.
Coupled ==
  link = "daemon" =>
    /\ held = "stopped" => processor = "halted"
    /\ ~open => processor = CpuIn(held)

\* An inspection changes the daemon's state nowhere; the program may.
Kept ==
  link = "daemon" /\ command.leaves = "as found" =>
    held = IF hit THEN "stopped" ELSE found

\* A command that lets the machine go or halts it has done so once it is past
\* the step that does.
Brought ==
  link = "daemon" /\ Going /\ Fine /\ Mode \in {"settled", "changed", "shown"} =>
    /\ command.leaves = "running" => held = "running" \/ hit
    /\ command.leaves = "stopped" => held = "stopped"

\* A state sampled ahead of a wait, and whether the machine ran since.
Sampled ==
  link = "daemon" /\ Going /\ Fine /\ Mode = "sampled" =>
    /\ before = "stopped" => held = "stopped" /\ ~ran
    /\ before = "running" => ran /\ (held = "running" \/ hit)
    /\ held = "running" => ran

\* What has been claimed is so; and nothing is before the last step is done or
\* an error has left the body.
Claimed ==
  /\ link = "daemon" /\ error.kind /= "Remote" =>
       CASE claim \in Halts -> processor = CpuIn(claim) \/ hit
         [] claim = "stopped throughout" -> ~ran
         [] claim = "running meanwhile" -> ran
         [] OTHER -> TRUE
  /\ Going => claim \in Halts \cup {"none", "unknown"}
  /\ Going /\ claim /= "none" => ~open /\ (Fine => Mode = "shown")

\* The document is out where the last mode says so, and an error on its way
\* is one that something reports.
Documented ==
  /\ Going /\ command /= screen_cmd => out = IF Fine /\ Mode = "shown" THEN <<"data">> ELSE <<>>
  /\ Going /\ ~Fine /\ command.front = "cli" => error.caught \/ error.kind \in Reportable

FrontInv ==
  /\ FrontTypeOK /\ Placed /\ Coupled /\ Kept /\ Brought /\ Sampled /\ Claimed /\ Documented
  /\ LeavesAsDocumented /\ OneDocument

-----------------------------------------------------------------------------
(* Ways through lists of steps.                                              *)

LEMMA OneStep ==
  ASSUME NEW w, NEW s \in StepType, NEW a \in Modes, NEW b \in Modes,
         Careful(w.front, s), Turn(w.leaves, w.early, s.do, s.says, a, b)
  PROVE  Leads(w, <<s>>, a, b)
<1> DEFINE m == [i \in 1..2 |-> IF i = 1 THEN a ELSE b]
<1>1. <<s>> \in Seq(StepType) /\ Len(<<s>>) = 1 /\ <<s>>[1] = s
  OBVIOUS
<1>2. m \in [1..(Len(<<s>>) + 1) -> Modes] /\ m[1] = a /\ m[2] = b
  BY <1>1
<1>3. \A i \in 1..Len(<<s>>) : i = 1
  BY <1>1
<1> HIDE DEF m
<1>4. Course(w, <<s>>, m)
  BY <1>1, <1>2, <1>3 DEF Course
<1>5. m[1] = a /\ m[Len(<<s>>) + 1] = b
  BY <1>1, <1>2
<1> QED BY <1>1, <1>4, <1>5 DEF Leads

LEMMA Concat ==
  ASSUME NEW S, NEW s \in Seq(S), NEW t \in Seq(S)
  PROVE  /\ s \o t \in Seq(S) /\ Len(s \o t) = Len(s) + Len(t)
         /\ Len(s) \in Nat /\ Len(t) \in Nat
         /\ \A i \in 1..Len(s) : (s \o t)[i] = s[i]
         /\ \A i \in 1..Len(t) : (s \o t)[Len(s) + i] = t[i]
<1>1. s \o t \in Seq(S) /\ Len(s \o t) = Len(s) + Len(t) /\ Len(s) \in Nat /\ Len(t) \in Nat
  OBVIOUS
<1>2. ASSUME NEW i \in 1..Len(s) PROVE (s \o t)[i] = s[i]
  BY <1>1
<1>3. ASSUME NEW i \in 1..Len(t) PROVE (s \o t)[Len(s) + i] = t[i]
  BY <1>1
<1> QED BY <1>1, <1>2, <1>3

\* One list of steps after another.
LEMMA Then ==
  ASSUME NEW w, NEW s, NEW t, NEW a, NEW b, NEW c, Leads(w, s, a, b), Leads(w, t, b, c)
  PROVE  Leads(w, s \o t, a, c)
<1>1. s \in Seq(StepType) /\ t \in Seq(StepType)
  BY DEF Leads
<1>2. PICK m : Course(w, s, m) /\ m[1] = a /\ m[Len(s) + 1] = b
  BY DEF Leads
<1>3. PICK n : Course(w, t, n) /\ n[1] = b /\ n[Len(t) + 1] = c
  BY DEF Leads
<1>4. m \in [1..(Len(s) + 1) -> Modes] /\ n \in [1..(Len(t) + 1) -> Modes]
  BY <1>2, <1>3 DEF Course
<1> DEFINE k == Len(s)
           l == Len(t)
           u == s \o t
           p == [i \in 1..(k + l + 1) |-> IF i <= k THEN m[i] ELSE n[i - k]]
<1>5. /\ u \in Seq(StepType) /\ Len(u) = k + l /\ k \in Nat /\ l \in Nat
      /\ \A i \in 1..k : u[i] = s[i]
      /\ \A i \in 1..l : u[k + i] = t[i]
  BY <1>1, Concat
<1>6. \A i \in 1..(k + l + 1) : p[i] = IF i <= k THEN m[i] ELSE n[i - k]
  OBVIOUS
<1>7. \A i \in 1..(k + 1) : p[i] = m[i]
  <2> SUFFICES ASSUME NEW i \in 1..(k + 1) PROVE p[i] = m[i]
    OBVIOUS
  <2>1. CASE i <= k
    BY <2>1, <1>5, <1>6
  <2>2. CASE i = k + 1
    <3>1. i \in 1..(k + l + 1) /\ ~(i <= k) /\ i - k = 1
      BY <2>2, <1>5
    <3> QED BY <3>1, <2>2, <1>2, <1>3, <1>6
  <2> QED BY <2>1, <2>2, <1>5
<1>8. \A i \in 1..(l + 1) : p[k + i] = n[i]
  <2> SUFFICES ASSUME NEW i \in 1..(l + 1) PROVE p[k + i] = n[i]
    OBVIOUS
  <2>1. k + i \in 1..(k + l + 1) /\ ~(k + i <= k) /\ k + i - k = i
    BY <1>5
  <2> QED BY <2>1, <1>6
<1>9. p \in [1..(k + l + 1) -> Modes]
  <2> SUFFICES ASSUME NEW i \in 1..(k + l + 1)
               PROVE  (IF i <= k THEN m[i] ELSE n[i - k]) \in Modes
    OBVIOUS
  <2>1. i <= k => i \in 1..(k + 1)
    BY <1>5
  <2>2. ~(i <= k) => i - k \in 1..(l + 1)
    BY <1>5
  <2> QED BY <2>1, <2>2, <1>4
<1> HIDE DEF p, k, l, u
<1>10. ASSUME NEW i \in 1..(k + l)
       PROVE  Careful(w.front, u[i]) /\ Turn(w.leaves, w.early, u[i].do, u[i].says, p[i], p[i + 1])
  <2>1. CASE i <= k
    <3>1. i \in 1..k /\ i \in 1..(k + 1) /\ i + 1 \in 1..(k + 1)
      BY <2>1, <1>5
    <3>2. u[i] = s[i] /\ p[i] = m[i] /\ p[i + 1] = m[i + 1]
      BY <3>1, <1>5, <1>7
    <3>3. Careful(w.front, s[i]) /\ Turn(w.leaves, w.early, s[i].do, s[i].says, m[i], m[i + 1])
      BY <3>1, <1>2 DEF Course, k
    <3> QED BY <3>2, <3>3
  <2>2. CASE i > k
    <3> DEFINE j == i - k
    <3>1. j \in 1..l /\ j \in 1..(l + 1) /\ j + 1 \in 1..(l + 1) /\ k + j = i /\ k + (j + 1) = i + 1
      BY <2>2, <1>5
    <3> HIDE DEF j
    <3>2. u[i] = t[j] /\ p[i] = n[j] /\ p[i + 1] = n[j + 1]
      BY <3>1, <1>5, <1>8
    <3>3. Careful(w.front, t[j]) /\ Turn(w.leaves, w.early, t[j].do, t[j].says, n[j], n[j + 1])
      BY <3>1, <1>3 DEF Course, l
    <3> QED BY <3>2, <3>3
  <2> QED BY <2>1, <2>2, <1>5
<1>11. Course(w, u, p)
  BY <1>5, <1>9, <1>10 DEF Course
<1>12. p[1] = a
  <2>1. 1 \in 1..(k + 1)
    BY <1>5
  <2> QED BY <2>1, <1>7, <1>2
<1>13. p[Len(u) + 1] = c
  <2>1. l + 1 \in 1..(l + 1) /\ k + (l + 1) = Len(u) + 1
    BY <1>5
  <2> QED BY <2>1, <1>8, <1>3 DEF l
<1> QED BY <1>5, <1>11, <1>12, <1>13 DEF Leads, u

\* Steps that neither reach the machine nor write change no mode.
Quiet(front, s) ==
  /\ s \in Seq(StepType)
  /\ \A i \in 1..Len(s) : s[i].do \in {"work", "look"} /\ Careful(front, s[i])

LEMMA QuietLeads ==
  ASSUME NEW w, NEW s, Quiet(w.front, s), NEW a \in {"begin", "settled", "sampled"}
  PROVE  Leads(w, s, a, a)
<1> DEFINE m == [i \in 1..(Len(s) + 1) |-> a]
<1>1. s \in Seq(StepType) /\ Len(s) \in Nat
  BY DEF Quiet
<1>2. \A i \in 1..Len(s) : i \in 1..(Len(s) + 1) /\ i + 1 \in 1..(Len(s) + 1)
  BY <1>1
<1>3. 1 \in 1..(Len(s) + 1) /\ Len(s) + 1 \in 1..(Len(s) + 1)
  BY <1>1
<1>4. m \in [1..(Len(s) + 1) -> Modes] /\ \A i \in 1..(Len(s) + 1) : m[i] = a
  BY DEF Modes, Closed
<1> HIDE DEF m
<1>5. Course(w, s, m)
  BY <1>2, <1>4 DEF Course, Turn, Quiet
<1> QED BY <1>1, <1>3, <1>4, <1>5 DEF Leads

LEMMA QuietThen ==
  ASSUME NEW f, NEW s, NEW t, Quiet(f, s), Quiet(f, t)
  PROVE  Quiet(f, s \o t)
<1> DEFINE u == s \o t
<1>1. /\ u \in Seq(StepType) /\ Len(u) = Len(s) + Len(t)
      /\ Len(s) \in Nat /\ Len(t) \in Nat
      /\ \A i \in 1..Len(s) : u[i] = s[i]
      /\ \A i \in 1..Len(t) : u[Len(s) + i] = t[i]
  BY Concat DEF Quiet
<1> HIDE DEF u
<1>2. ASSUME NEW i \in 1..Len(u) PROVE u[i].do \in {"work", "look"} /\ Careful(f, u[i])
  <2>1. CASE i <= Len(s)
    <3>1. i \in 1..Len(s)
      BY <2>1, <1>1
    <3> QED BY <3>1, <1>1 DEF Quiet
  <2>2. CASE i > Len(s)
    <3>1. i - Len(s) \in 1..Len(t) /\ Len(s) + (i - Len(s)) = i
      BY <2>2, <1>1
    <3>2. u[i] = t[i - Len(s)]
      BY <3>1, <1>1
    <3> QED BY <3>1, <3>2 DEF Quiet
  <2> QED BY <2>1, <2>2, <1>1
<1> QED BY <1>1, <1>2 DEF Quiet, u

LEMMA QuietNothing ==
  ASSUME NEW f
  PROVE  Quiet(f, <<>>)
BY DEF Quiet

\* A step that does no more than work, or look.
LEMMA QuietStep ==
  ASSUME NEW f, NEW do \in {"work", "look"}, NEW can \in SUBSET Kinds, NEW by \in SUBSET Kinds,
         f = "mcp" \/ can \subseteq by \cup Reportable
  PROVE  Quiet(f, <<Step(do, can, by)>>)
<1> DEFINE s == Step(do, can, by)
<1>1. s \in StepType /\ s.do = do /\ s.says = "none" /\ s.can = can /\ s.by = by
  BY DEF Step, StepType
<1> HIDE DEF s
<1>2. Careful(f, s)
  BY <1>1 DEF Careful
<1>3. <<s>> \in Seq(StepType) /\ Len(<<s>>) = 1 /\ <<s>>[1] = s
  BY <1>1
<1>4. \A i \in 1..Len(<<s>>) : i = 1
  BY <1>3
<1> QED BY <1>1, <1>2, <1>3, <1>4 DEF Quiet, s

\* A way that no document interrupts is one for the screen command, too.
LEMMA EarlyLeads ==
  ASSUME NEW f, NEW l, NEW e \in BOOLEAN, NEW s, NEW a, NEW b,
         Leads(Manner(f, l, FALSE), s, a, b)
  PROVE  Leads(Manner(f, l, e), s, a, b)
<1>1. PICK m : Course(Manner(f, l, FALSE), s, m) /\ m[1] = a /\ m[Len(s) + 1] = b
  BY DEF Leads
<1>2. \A i \in 1..Len(s) : Careful(f, s[i]) /\ Turn(l, FALSE, s[i].do, s[i].says, m[i], m[i + 1])
  BY <1>1 DEF Course, Manner
<1>3. ASSUME NEW x, NEW v, NEW y, NEW z, Turn(l, FALSE, x, v, y, z)
      PROVE  Turn(l, e, x, v, y, z)
  <2>1. CASE e
    BY <2>1, <1>3, ZenonT(60) DEF Turn
  <2>2. CASE ~e
    <3>1. e = FALSE
      BY <2>2
    <3> QED BY <3>1, <1>3
  <2> QED BY <2>1, <2>2
<1>4. Course(Manner(f, l, e), s, m)
  BY <1>1, <1>2, <1>3 DEF Course, Manner
<1> QED BY <1>1, <1>4 DEF Leads

\* A tool's steps are a command's without its handlers and exit code.
LEMMA ToolLeads ==
  ASSUME NEW l, NEW e \in BOOLEAN, NEW s, NEW a, NEW b,
         Leads(Manner("mcp", l, e), s, a, b)
  PROVE  Leads(Manner("mcp", l, e), Tool(l, s).steps, a, b)
<1> DEFINE Bare(x) == [x EXCEPT !.by = {}, !.do = IF @ = "verdict" THEN "emit" ELSE @]
           t == [i \in 1..Len(s) |-> Bare(s[i])]
           w == Manner("mcp", l, e)
<1>1. s \in Seq(StepType) /\ Len(s) \in Nat /\ DOMAIN s = 1..Len(s)
  BY DEF Leads
<1>2. Tool(l, s).steps = t
  BY <1>1 DEF Tool
<1>3. ASSUME NEW x \in StepType
      PROVE  /\ Bare(x) \in StepType
             /\ Bare(x).do = (IF x.do = "verdict" THEN "emit" ELSE x.do)
             /\ Bare(x).can = x.can /\ Bare(x).says = x.says
  BY DEF StepType
<1>4. \A i \in 1..Len(s) : s[i] \in StepType
  BY <1>1
<1>5. \A i \in 1..Len(s) : t[i] = Bare(s[i])
  OBVIOUS
<1> HIDE DEF Bare
<1>6. t \in Seq(StepType) /\ Len(t) = Len(s)
  BY <1>1, <1>3, <1>4
<1>7. PICK m : Course(w, s, m) /\ m[1] = a /\ m[Len(s) + 1] = b
  BY DEF Leads
<1> HIDE DEF t
<1>8. ASSUME NEW i \in 1..Len(s)
      PROVE  Careful("mcp", t[i]) /\ Turn(l, e, t[i].do, t[i].says, m[i], m[i + 1])
  <2> DEFINE x == s[i]
             y == t[i]
  <2>1. /\ y.do = (IF x.do = "verdict" THEN "emit" ELSE x.do)
        /\ y.can = x.can /\ y.says = x.says
    BY <1>3, <1>4, <1>5
  <2>2. Careful("mcp", x) /\ Turn(l, e, x.do, x.says, m[i], m[i + 1])
    BY <1>7 DEF Course, Manner
  <2> HIDE DEF x, y
  <2>3. Careful("mcp", y)
    BY <2>1, <2>2 DEF Careful
  <2>4. Turn(l, e, y.do, y.says, m[i], m[i + 1])
    <3>1. CASE x.do = "verdict"
      BY <3>1, <2>1, <2>2 DEF Turn
    <3>2. CASE x.do /= "verdict"
      <4>1. y.do = x.do /\ y.says = x.says
        BY <3>2, <2>1
      <4> QED BY <4>1, <2>2
    <3> QED BY <3>1, <3>2
  <2> QED BY <2>3, <2>4 DEF y
<1>9. Course(w, t, m)
  BY <1>6, <1>7, <1>8 DEF Course, Manner
<1> QED BY <1>2, <1>6, <1>7, <1>9 DEF Leads

Leaves == {"as found", "running", "stopped"}

LEMMA CliDisciplined ==
  ASSUME NEW l \in Leaves, NEW s, Leads(Manner("cli", l, FALSE), s, "begin", "shown")
  PROVE  Disciplined(Cli(l, s))
<1>1. Cli(l, s).front = "cli" /\ Cli(l, s).leaves = l /\ Cli(l, s).steps = s
  BY DEF Cli
<1> QED BY <1>1, EarlyLeads DEF Disciplined, Way, Leaves

LEMMA ToolDisciplined ==
  ASSUME NEW l \in Leaves, NEW s, Leads(Manner("mcp", l, FALSE), s, "begin", "shown")
  PROVE  Disciplined(Tool(l, s))
<1>1. Tool(l, s).front = "mcp" /\ Tool(l, s).leaves = l
  BY DEF Tool
<1>2. Leads(Manner("mcp", l, FALSE), Tool(l, s).steps, "begin", "shown")
  BY ToolLeads
<1> QED BY <1>1, <1>2, EarlyLeads DEF Disciplined, Way, Leaves

-----------------------------------------------------------------------------
(* The ways of the roster's commands, after what they do quietly at first.   *)

\* A manner that no document interrupts.
Plainly(f, l) == Manner(f, l, FALSE)

LEMMA QuietFirst ==
  ASSUME NEW f, NEW l, NEW q, Quiet(f, q), NEW a \in {"begin", "settled", "sampled"}
  PROVE  Leads(Plainly(f, l), q, a, a)
<1>1. Plainly(f, l).front = f
  BY DEF Plainly, Manner
<1> QED BY <1>1, QuietLeads

\* A step that cannot fail but for its link.
LEMMA Bare ==
  ASSUME NEW f, NEW l, NEW a \in Modes, NEW b \in Modes,
         NEW do \in {"open", "ask", "halt", "resume", "finally release", "finally resume", "close",
                     "sample", "poll", "verdict", "timed out"},
         Turn(l, FALSE, do, "none", a, b)
  PROVE  Leads(Plainly(f, l), <<Step(do, {}, {})>>, a, b)
<1> DEFINE s == Step(do, {}, {})
<1>1. s \in StepType /\ s.do = do /\ s.says = "none" /\ s.can = {} /\ s.by = {}
  BY DEF Step, StepType
<1>2. Plainly(f, l).front = f /\ Plainly(f, l).leaves = l /\ Plainly(f, l).early = FALSE
  BY DEF Plainly, Manner
<1> HIDE DEF s
<1>3. Careful(Plainly(f, l).front, s)
  BY <1>1 DEF Careful
<1>4. Turn(Plainly(f, l).leaves, Plainly(f, l).early, s.do, s.says, a, b)
  BY <1>1, <1>2
<1>5. Leads(Plainly(f, l), <<s>>, a, b)
  BY <1>1, <1>3, <1>4, OneStep
<1> QED BY <1>5 DEF s

\* A step that says something, may fail, or both.
LEMMA Telling ==
  ASSUME NEW f, NEW l, NEW a \in Modes, NEW b \in Modes, NEW s \in StepType,
         Careful(f, s), Turn(l, FALSE, s.do, s.says, a, b)
  PROVE  Leads(Plainly(f, l), <<s>>, a, b)
<1>1. Plainly(f, l).front = f /\ Plainly(f, l).leaves = l /\ Plainly(f, l).early = FALSE
  BY DEF Plainly, Manner
<1> QED BY <1>1, OneStep

LEMMA EmitLeads ==
  ASSUME NEW f, NEW l \in Leaves, NEW what \in {"none", "sampled", "stopped", "running"},
         NEW a \in Modes, Turn(l, FALSE, "emit", what, a, "shown")
  PROVE  Leads(Plainly(f, l), Says(what), a, "shown")
<1> DEFINE s == [Step("emit", {}, {}) EXCEPT !.says = what]
<1>1. s \in StepType /\ s.do = "emit" /\ s.says = what /\ s.can = {} /\ s.by = {}
  BY DEF Step, StepType
<1>2. Says(what) = <<s>>
  BY DEF Says
<1>3. "shown" \in Modes
  BY DEF Modes, Closed
<1> HIDE DEF s
<1>4. Careful(f, s)
  BY <1>1 DEF Careful
<1> QED BY <1>1, <1>2, <1>3, <1>4, Telling

\* How a command ends that has nothing to say of the machine.
LEMMA EmitOrVerdict ==
  ASSUME NEW f, NEW l \in Leaves, NEW e \in {emit, Verdict}
  PROVE  Leads(Plainly(f, l), e, Ready(l), "shown")
<1>1. Ready(l) \in Modes /\ "shown" \in Modes
  BY DEF Ready, Modes, Closed
<1>2. Turn(l, FALSE, "emit", "none", Ready(l), "shown") /\ Turn(l, FALSE, "verdict", "none", Ready(l), "shown")
  BY DEF Turn
<1>3. Leads(Plainly(f, l), emit, Ready(l), "shown")
  BY <1>1, <1>2, EmitLeads DEF emit
<1>4. Leads(Plainly(f, l), Verdict, Ready(l), "shown")
  BY <1>1, <1>2, Bare DEF Verdict
<1> QED BY <1>3, <1>4

\* The brackets.
LEMMA BracketLeads ==
  ASSUME NEW f, NEW l \in Leaves
  PROVE  /\ Leads(Plainly(f, l), Open, "begin", "inside")
         /\ Leads(Plainly(f, l), Exchange, "inside", "inside")
         /\ Leads(Plainly(f, l), <<Step("finally release", {}, {})>>, "inside", "inside")
         /\ Leads(Plainly(f, l), Close, "inside", "begin")
         /\ Leads(Plainly(f, l), Close, "changed", "settled")
         /\ l = "running" =>
              /\ Leads(Plainly(f, l), <<Step("finally resume", {}, {})>>, "inside", "changed")
              /\ Leads(Plainly(f, l), <<Step("resume", {}, {})>>, "inside", "changed")
         /\ l = "stopped" => Leads(Plainly(f, l), <<Step("halt", {}, {})>>, "inside", "changed")
<1> DEFINE Done(do, a, b) == Turn(l, FALSE, do, "none", a, b)
<1>1. {"begin", "inside", "changed", "settled"} \subseteq Modes
  BY DEF Modes, Closed, Inside
<1>2. /\ Done("open", "begin", "inside") /\ Done("ask", "inside", "inside")
      /\ Done("finally release", "inside", "inside")
      /\ Done("close", "inside", "begin") /\ Done("close", "changed", "settled")
  BY DEF Turn
<1>3. l = "running" => Done("finally resume", "inside", "changed") /\ Done("resume", "inside", "changed")
  BY DEF Turn
<1>4. l = "stopped" => Done("halt", "inside", "changed")
  BY DEF Turn
<1> HIDE DEF Done
<1>5. ASSUME NEW a \in Modes, NEW b \in Modes, NEW do, Done(do, a, b),
             do \in {"open", "ask", "halt", "resume", "finally release", "finally resume", "close"}
      PROVE  Leads(Plainly(f, l), <<Step(do, {}, {})>>, a, b)
  BY <1>5, Bare DEF Done
<1>6. /\ Leads(Plainly(f, l), Open, "begin", "inside")
      /\ Leads(Plainly(f, l), Exchange, "inside", "inside")
      /\ Leads(Plainly(f, l), <<Step("finally release", {}, {})>>, "inside", "inside")
      /\ Leads(Plainly(f, l), Close, "inside", "begin")
      /\ Leads(Plainly(f, l), Close, "changed", "settled")
  BY <1>1, <1>2, <1>5 DEF Open, Exchange, Close
<1>7. l = "running" =>
        /\ Leads(Plainly(f, l), <<Step("finally resume", {}, {})>>, "inside", "changed")
        /\ Leads(Plainly(f, l), <<Step("resume", {}, {})>>, "inside", "changed")
  BY <1>1, <1>3, <1>5
<1>8. l = "stopped" => Leads(Plainly(f, l), <<Step("halt", {}, {})>>, "inside", "changed")
  BY <1>1, <1>4, <1>5
<1> QED BY <1>6, <1>7, <1>8

\* A bracket that inspects, one that restarts the machine, one that halts it.
LEMMA InspectsLeads ==
  ASSUME NEW f, NEW l \in Leaves
  PROVE  Leads(Plainly(f, l), Inspects, "begin", "begin")
<1>1. Leads(Plainly(f, l), Open \o Exchange, "begin", "inside")
  BY BracketLeads, Then
<1>2. Leads(Plainly(f, l), Open \o Exchange \o <<Step("finally release", {}, {})>>,
            "begin", "inside")
  BY <1>1, BracketLeads, Then
<1>3. Leads(Plainly(f, l), Open \o Exchange \o <<Step("finally release", {}, {})>> \o Close,
            "begin", "begin")
  BY <1>2, BracketLeads, Then
<1> QED BY <1>3 DEF Inspects

LEMMA RestartsLeads ==
  ASSUME NEW f
  PROVE  Leads(Plainly(f, "running"), Restarts, "begin", "settled")
<1> DEFINE w == Plainly(f, "running")
<1>1. "running" \in Leaves
  BY DEF Leaves
<1>2. /\ Leads(w, Open, "begin", "inside") /\ Leads(w, Exchange, "inside", "inside")
      /\ Leads(w, <<Step("finally resume", {}, {})>>, "inside", "changed")
      /\ Leads(w, Close, "changed", "settled")
  BY <1>1, BracketLeads
<1> HIDE DEF w
<1>3. Leads(w, Open \o Exchange, "begin", "inside")
  BY <1>2, Then
<1>4. Leads(w, Open \o Exchange \o <<Step("finally resume", {}, {})>>, "begin", "changed")
  BY <1>2, <1>3, Then
<1>5. Leads(w, Open \o Exchange \o <<Step("finally resume", {}, {})>> \o Close, "begin", "settled")
  BY <1>2, <1>4, Then
<1> QED BY <1>5 DEF Restarts, w

LEMMA StepsLeads ==
  ASSUME NEW f
  PROVE  Leads(Plainly(f, "stopped"), Steps, "begin", "settled")
<1> DEFINE w == Plainly(f, "stopped")
<1>1. "stopped" \in Leaves
  BY DEF Leaves
<1>2. /\ Leads(w, Open, "begin", "inside")
      /\ Leads(w, <<Step("halt", {}, {})>>, "inside", "changed")
      /\ Leads(w, Close, "changed", "settled")
  BY <1>1, BracketLeads
<1> HIDE DEF w
<1>3. Leads(w, Open \o <<Step("halt", {}, {})>>, "begin", "changed")
  BY <1>2, Then
<1>4. Leads(w, Open \o <<Step("halt", {}, {})>> \o Close, "begin", "settled")
  BY <1>2, <1>3, Then
<1> QED BY <1>4 DEF Steps, w

\* The calls that run the machine by themselves.
LEMMA RunsLeads ==
  ASSUME NEW f
  PROVE  /\ Leads(Plainly(f, "running"), Boots, "begin", "settled")
         /\ \A by \in SUBSET Kinds : Leads(Plainly(f, "running"), Logs(by), "begin", "settled")
<1>1. "begin" \in Modes /\ "settled" \in Modes
  BY DEF Modes, Closed
<1>2. Turn("running", FALSE, "boot", "none", "begin", "settled")
      /\ Turn("running", FALSE, "log", "none", "begin", "settled")
  BY DEF Turn
<1>3. Leads(Plainly(f, "running"), Boots, "begin", "settled")
  <2> DEFINE s == Step("boot", {"Session", "Key", "OS"}, {"Session", "Key"})
  <2>1. s \in StepType /\ s.do = "boot" /\ s.says = "none" /\ s.can = {"Session", "Key", "OS"}
    BY DEF Step, StepType, Kinds, INPUT_ERRORS
  <2> HIDE DEF s
  <2>2. Careful(f, s)
    BY <2>1 DEF Careful, Reportable, INPUT_ERRORS
  <2>3. Leads(Plainly(f, "running"), <<s>>, "begin", "settled")
    BY <1>1, <1>2, <2>1, <2>2, Telling
  <2> QED BY <2>3 DEF s, Boots
<1>4. ASSUME NEW by \in SUBSET Kinds
      PROVE  Leads(Plainly(f, "running"), Logs(by), "begin", "settled")
  <2> DEFINE s == Step("log", {"Audio", "Value", "OS"}, by)
  <2>1. s \in StepType /\ s.do = "log" /\ s.says = "none" /\ s.can = {"Audio", "Value", "OS"}
    BY DEF Step, StepType, Kinds, INPUT_ERRORS
  <2> HIDE DEF s
  <2>2. Careful(f, s)
    BY <2>1 DEF Careful, Reportable, INPUT_ERRORS
  <2>3. Leads(Plainly(f, "running"), <<s>>, "begin", "settled")
    BY <1>1, <1>2, <2>1, <2>2, Telling
  <2> QED BY <2>3 DEF s, Logs
<1> QED BY <1>3, <1>4

LEMMA LoopLeads ==
  ASSUME NEW f, NEW can \in SUBSET {"Zero", "Value"}, NEW by \in SUBSET Kinds,
         NEW what \in {"none", "data", "stopped"}
  PROVE  Leads(Plainly(f, "stopped"), Loop(can, by, what), "begin", "settled")
<1> DEFINE s == [Step("loop", can, by) EXCEPT !.says = what]
<1>1. can \subseteq Kinds /\ can \subseteq Reportable
  BY DEF Kinds, INPUT_ERRORS, RuntimeErrors, Reportable
<1>2. s \in StepType /\ s.do = "loop" /\ s.says = what /\ s.can = can
  BY <1>1 DEF Step, StepType
<1>3. "begin" \in Modes /\ "settled" \in Modes
  BY DEF Modes, Closed
<1>4. Turn("stopped", FALSE, "loop", what, "begin", "settled")
  BY DEF Turn
<1> HIDE DEF s
<1>5. Careful(f, s)
  BY <1>1, <1>2 DEF Careful
<1>6. Leads(Plainly(f, "stopped"), <<s>>, "begin", "settled")
  BY <1>2, <1>3, <1>4, <1>5, Telling
<1> QED BY <1>6 DEF s, Loop

\* A state sampled, the polls of a wait and its verdict.
LEMMA SamplesLeads ==
  ASSUME NEW f
  PROVE  /\ Leads(Plainly(f, "as found"), machine_state, "begin", "sampled")
         /\ Leads(Plainly(f, "as found"), Polls, "sampled", "sampled")
         /\ Leads(Plainly(f, "as found"), _wait_verdict, "sampled", "shown")
         /\ Leads(Plainly(f, "as found"), Says("sampled"), "sampled", "shown")
<1>1. {"begin", "sampled", "shown"} \subseteq Modes /\ "as found" \in Leaves
  BY DEF Modes, Closed, Leaves
<1>2. /\ Turn("as found", FALSE, "sample", "none", "begin", "sampled")
      /\ Turn("as found", FALSE, "poll", "none", "sampled", "sampled")
      /\ Turn("as found", FALSE, "timed out", "none", "sampled", "shown")
      /\ Turn("as found", FALSE, "emit", "sampled", "sampled", "shown")
  BY DEF Turn
<1>3. Leads(Plainly(f, "as found"), machine_state, "begin", "sampled")
  BY <1>1, <1>2, Bare DEF machine_state
<1>4. Leads(Plainly(f, "as found"), Polls, "sampled", "sampled")
  BY <1>1, <1>2, Bare DEF Polls
<1>5. Leads(Plainly(f, "as found"), _wait_verdict, "sampled", "shown")
  BY <1>1, <1>2, Bare DEF _wait_verdict
<1>6. Leads(Plainly(f, "as found"), Says("sampled"), "sampled", "shown")
  BY <1>1, <1>2, EmitLeads
<1> QED BY <1>3, <1>4, <1>5, <1>6

\* The documents that end a command past what it has brought about.
LEMMA EndLeads ==
  ASSUME NEW f
  PROVE  /\ \A e \in {emit, Verdict} : Leads(Plainly(f, "as found"), e, "begin", "shown")
         /\ \A e \in {emit, Verdict} : Leads(Plainly(f, "running"), e, "settled", "shown")
         /\ \A e \in {emit, _emit_stopped_regs} :
              Leads(Plainly(f, "stopped"), e, "settled", "shown")
         /\ Leads(Plainly(f, "running"), Says("running"), "settled", "shown")
<1>1. {"as found", "running", "stopped"} \subseteq Leaves /\ "settled" \in Modes
  BY DEF Leaves, Modes, Closed
<1>2. Ready("as found") = "begin" /\ Ready("running") = "settled" /\ Ready("stopped") = "settled"
  BY DEF Ready
<1>3. /\ \A e \in {emit, Verdict} : Leads(Plainly(f, "as found"), e, "begin", "shown")
      /\ \A e \in {emit, Verdict} : Leads(Plainly(f, "running"), e, "settled", "shown")
      /\ Leads(Plainly(f, "stopped"), emit, "settled", "shown")
  BY <1>1, <1>2, EmitOrVerdict
<1>4. /\ Turn("stopped", FALSE, "emit", "stopped", "settled", "shown")
      /\ Turn("running", FALSE, "emit", "running", "settled", "shown")
  BY DEF Turn
<1>5. Leads(Plainly(f, "stopped"), _emit_stopped_regs, "settled", "shown")
  BY <1>1, <1>4, EmitLeads DEF _emit_stopped_regs
<1>6. Leads(Plainly(f, "running"), Says("running"), "settled", "shown")
  BY <1>1, <1>4, EmitLeads
<1> QED BY <1>3, <1>5, <1>6

\* The front end does its work and tells.
LEMMA PlainWay ==
  ASSUME NEW f, NEW q, Quiet(f, q), NEW e \in {emit, Verdict}
  PROVE  Leads(Plainly(f, "as found"), q \o e, "begin", "shown")
<1> DEFINE w == Plainly(f, "as found")
<1>1. Leads(w, q, "begin", "begin")
  BY QuietFirst
<1>2. Leads(w, e, "begin", "shown")
  BY EndLeads
<1>3. Leads(w, q \o e, "begin", "shown")
  BY <1>1, <1>2, Then
<1> HIDE DEF w
<1> QED BY <1>3 DEF w

\* An inspection, and what it has found.
LEMMA InspectWay ==
  ASSUME NEW f, NEW q, Quiet(f, q)
  PROVE  Leads(Plainly(f, "as found"), q \o Inspects \o emit, "begin", "shown")
<1> DEFINE w == Plainly(f, "as found")
<1>0. "as found" \in Leaves
  BY DEF Leaves
<1>1. Leads(w, q, "begin", "begin")
  BY QuietFirst
<1>2. Leads(w, Inspects, "begin", "begin")
  BY <1>0, InspectsLeads
<1>3. Leads(w, q \o Inspects, "begin", "begin")
  BY <1>1, <1>2, Then
<1>4. Leads(w, emit, "begin", "shown")
  BY EndLeads
<1>5. Leads(w, q \o Inspects \o emit, "begin", "shown")
  BY <1>3, <1>4, Then
<1> HIDE DEF w
<1> QED BY <1>5 DEF w

\* A state sampled, and said.
LEMMA StatusWay ==
  ASSUME NEW f, NEW q, Quiet(f, q)
  PROVE  Leads(Plainly(f, "as found"), q \o machine_state \o Says("sampled"), "begin", "shown")
<1> DEFINE w == Plainly(f, "as found")
<1>1. Leads(w, q, "begin", "begin")
  BY QuietFirst
<1>2. Leads(w, machine_state, "begin", "sampled")
  BY SamplesLeads
<1>3. Leads(w, q \o machine_state, "begin", "sampled")
  BY <1>1, <1>2, Then
<1>4. Leads(w, Says("sampled"), "sampled", "shown")
  BY SamplesLeads
<1>5. Leads(w, q \o machine_state \o Says("sampled"), "begin", "shown")
  BY <1>3, <1>4, Then
<1> HIDE DEF w
<1> QED BY <1>5 DEF w

\* An inspection and a state sampled.
LEMMA RegisterWay ==
  ASSUME NEW f, NEW q, Quiet(f, q), NEW r, Quiet(f, r)
  PROVE  Leads(Plainly(f, "as found"), q \o Inspects \o r \o machine_state \o Says("sampled"),
               "begin", "shown")
<1> DEFINE w == Plainly(f, "as found")
<1>0. "as found" \in Leaves
  BY DEF Leaves
<1>1. Leads(w, q, "begin", "begin")
  BY QuietFirst
<1>2. Leads(w, Inspects, "begin", "begin")
  BY <1>0, InspectsLeads
<1>3. Leads(w, q \o Inspects, "begin", "begin")
  BY <1>1, <1>2, Then
<1>4. Leads(w, r, "begin", "begin")
  BY QuietFirst
<1>5. Leads(w, q \o Inspects \o r, "begin", "begin")
  BY <1>3, <1>4, Then
<1>6. Leads(w, machine_state, "begin", "sampled")
  BY SamplesLeads
<1>7. Leads(w, q \o Inspects \o r \o machine_state, "begin", "sampled")
  BY <1>5, <1>6, Then
<1>8. Leads(w, Says("sampled"), "sampled", "shown")
  BY SamplesLeads
<1>9. Leads(w, q \o Inspects \o r \o machine_state \o Says("sampled"), "begin", "shown")
  BY <1>7, <1>8, Then
<1> HIDE DEF w
<1> QED BY <1>9 DEF w

\* A wait that polls.
LEMMA WaitWay ==
  ASSUME NEW f, NEW q, Quiet(f, q)
  PROVE  Leads(Plainly(f, "as found"), q \o machine_state \o Polls \o _wait_verdict,
               "begin", "shown")
<1> DEFINE w == Plainly(f, "as found")
<1>1. Leads(w, q, "begin", "begin")
  BY QuietFirst
<1>2. Leads(w, machine_state, "begin", "sampled")
  BY SamplesLeads
<1>3. Leads(w, q \o machine_state, "begin", "sampled")
  BY <1>1, <1>2, Then
<1>4. Leads(w, Polls, "sampled", "sampled")
  BY SamplesLeads
<1>5. Leads(w, q \o machine_state \o Polls, "begin", "sampled")
  BY <1>3, <1>4, Then
<1>6. Leads(w, _wait_verdict, "sampled", "shown")
  BY SamplesLeads
<1>7. Leads(w, q \o machine_state \o Polls \o _wait_verdict, "begin", "shown")
  BY <1>5, <1>6, Then
<1> HIDE DEF w
<1> QED BY <1>7 DEF w

\* A wait that polls, its operands read after the sample.
LEMMA WaitMemoryWay ==
  ASSUME NEW f, NEW q, Quiet(f, q), NEW r, Quiet(f, r), NEW t, Quiet(f, t)
  PROVE  Leads(Plainly(f, "as found"), q \o machine_state \o r \o t \o Polls \o _wait_verdict,
               "begin", "shown")
<1> DEFINE w == Plainly(f, "as found")
<1>1. Leads(w, q, "begin", "begin")
  BY QuietFirst
<1>2. Leads(w, machine_state, "begin", "sampled")
  BY SamplesLeads
<1>3. Leads(w, q \o machine_state, "begin", "sampled")
  BY <1>1, <1>2, Then
<1>4. Leads(w, r, "sampled", "sampled")
  BY QuietFirst
<1>5. Leads(w, q \o machine_state \o r, "begin", "sampled")
  BY <1>3, <1>4, Then
<1>6. Leads(w, t, "sampled", "sampled")
  BY QuietFirst
<1>7. Leads(w, q \o machine_state \o r \o t, "begin", "sampled")
  BY <1>5, <1>6, Then
<1>8. Leads(w, Polls, "sampled", "sampled")
  BY SamplesLeads
<1>9. Leads(w, q \o machine_state \o r \o t \o Polls, "begin", "sampled")
  BY <1>7, <1>8, Then
<1>10. Leads(w, _wait_verdict, "sampled", "shown")
  BY SamplesLeads
<1>11. Leads(w, q \o machine_state \o r \o t \o Polls \o _wait_verdict, "begin", "shown")
  BY <1>9, <1>10, Then
<1> HIDE DEF w
<1> QED BY <1>11 DEF w

\* A checkpoint set, its condition in an exchange of its own.
LEMMA BreakWay ==
  ASSUME NEW f, NEW q, Quiet(f, q), NEW c \in {Exchange, Exchange \o Exchange}
  PROVE  Leads(Plainly(f, "as found"), q \o Open \o c \o <<Step("finally release", {}, {})>> \o Close \o emit,
               "begin", "shown")
<1> DEFINE w == Plainly(f, "as found")
<1>0. "as found" \in Leaves
  BY DEF Leaves
<1>00. Leads(w, c, "inside", "inside")
  BY <1>0, BracketLeads, Then
<1>1. Leads(w, q, "begin", "begin")
  BY QuietFirst
<1>2. Leads(w, Open, "begin", "inside")
  BY <1>0, BracketLeads
<1>3. Leads(w, q \o Open, "begin", "inside")
  BY <1>1, <1>2, Then
<1>4. Leads(w, c, "inside", "inside")
  BY <1>0, <1>00
<1>5. Leads(w, q \o Open \o c, "begin", "inside")
  BY <1>3, <1>4, Then
<1>6. Leads(w, <<Step("finally release", {}, {})>>, "inside", "inside")
  BY <1>0, BracketLeads
<1>7. Leads(w, q \o Open \o c \o <<Step("finally release", {}, {})>>, "begin", "inside")
  BY <1>5, <1>6, Then
<1>8. Leads(w, Close, "inside", "begin")
  BY <1>0, BracketLeads
<1>9. Leads(w, q \o Open \o c \o <<Step("finally release", {}, {})>> \o Close, "begin", "begin")
  BY <1>7, <1>8, Then
<1>10. Leads(w, emit, "begin", "shown")
  BY EndLeads
<1>11. Leads(w, q \o Open \o c \o <<Step("finally release", {}, {})>> \o Close \o emit,
             "begin", "shown")
  BY <1>9, <1>10, Then
<1> HIDE DEF w
<1> QED BY <1>11 DEF w

\* The machine let go with something in it.
LEMMA RestartWay ==
  ASSUME NEW f, NEW q, Quiet(f, q), NEW r, Quiet(f, r)
  PROVE  Leads(Plainly(f, "running"), q \o Restarts \o r \o emit, "begin", "shown")
<1> DEFINE w == Plainly(f, "running")
<1>1. Leads(w, q, "begin", "begin")
  BY QuietFirst
<1>2. Leads(w, Restarts, "begin", "settled")
  BY RestartsLeads
<1>3. Leads(w, q \o Restarts, "begin", "settled")
  BY <1>1, <1>2, Then
<1>4. Leads(w, r, "settled", "settled")
  BY QuietFirst
<1>5. Leads(w, q \o Restarts \o r, "begin", "settled")
  BY <1>3, <1>4, Then
<1>6. Leads(w, emit, "settled", "shown")
  BY EndLeads
<1>7. Leads(w, q \o Restarts \o r \o emit, "begin", "shown")
  BY <1>5, <1>6, Then
<1> HIDE DEF w
<1> QED BY <1>7 DEF w

\* The same, and two things to note.
LEMMA LoadWay ==
  ASSUME NEW f, NEW q, Quiet(f, q), NEW r, Quiet(f, r), NEW t, Quiet(f, t)
  PROVE  Leads(Plainly(f, "running"), q \o Restarts \o r \o t \o emit, "begin", "shown")
<1> DEFINE w == Plainly(f, "running")
<1>1. Leads(w, q, "begin", "begin")
  BY QuietFirst
<1>2. Leads(w, Restarts, "begin", "settled")
  BY RestartsLeads
<1>3. Leads(w, q \o Restarts, "begin", "settled")
  BY <1>1, <1>2, Then
<1>4. Leads(w, r, "settled", "settled")
  BY QuietFirst
<1>5. Leads(w, q \o Restarts \o r, "begin", "settled")
  BY <1>3, <1>4, Then
<1>6. Leads(w, t, "settled", "settled")
  BY QuietFirst
<1>7. Leads(w, q \o Restarts \o r \o t, "begin", "settled")
  BY <1>5, <1>6, Then
<1>8. Leads(w, emit, "settled", "shown")
  BY EndLeads
<1>9. Leads(w, q \o Restarts \o r \o t \o emit, "begin", "shown")
  BY <1>7, <1>8, Then
<1> HIDE DEF w
<1> QED BY <1>9 DEF w

\* The machine let go, and nothing to note.
LEMMA BareRestartWay ==
  ASSUME NEW f, NEW q, Quiet(f, q)
  PROVE  Leads(Plainly(f, "running"), q \o Restarts \o emit, "begin", "shown")
<1> DEFINE w == Plainly(f, "running")
<1>1. Leads(w, q, "begin", "begin")
  BY QuietFirst
<1>2. Leads(w, Restarts, "begin", "settled")
  BY RestartsLeads
<1>3. Leads(w, q \o Restarts, "begin", "settled")
  BY <1>1, <1>2, Then
<1>4. Leads(w, emit, "settled", "shown")
  BY EndLeads
<1>5. Leads(w, q \o Restarts \o emit, "begin", "shown")
  BY <1>3, <1>4, Then
<1> HIDE DEF w
<1> QED BY <1>5 DEF w

\* A reset.
LEMMA ResetWay ==
  ASSUME NEW f, NEW q, Quiet(f, q)
  PROVE  Leads(Plainly(f, "running"), q \o Open \o Exchange \o <<Step("resume", {}, {})>> \o Close \o emit,
               "begin", "shown")
<1> DEFINE w == Plainly(f, "running")
<1>0. "running" \in Leaves
  BY DEF Leaves
<1>1. Leads(w, q, "begin", "begin")
  BY QuietFirst
<1>2. Leads(w, Open, "begin", "inside")
  BY <1>0, BracketLeads
<1>3. Leads(w, q \o Open, "begin", "inside")
  BY <1>1, <1>2, Then
<1>4. Leads(w, Exchange, "inside", "inside")
  BY <1>0, BracketLeads
<1>5. Leads(w, q \o Open \o Exchange, "begin", "inside")
  BY <1>3, <1>4, Then
<1>6. Leads(w, <<Step("resume", {}, {})>>, "inside", "changed")
  BY <1>0, BracketLeads
<1>7. Leads(w, q \o Open \o Exchange \o <<Step("resume", {}, {})>>, "begin", "changed")
  BY <1>5, <1>6, Then
<1>8. Leads(w, Close, "changed", "settled")
  BY <1>0, BracketLeads
<1>9. Leads(w, q \o Open \o Exchange \o <<Step("resume", {}, {})>> \o Close, "begin", "settled")
  BY <1>7, <1>8, Then
<1>10. Leads(w, emit, "settled", "shown")
  BY EndLeads
<1>11. Leads(w, q \o Open \o Exchange \o <<Step("resume", {}, {})>> \o Close \o emit,
             "begin", "shown")
  BY <1>9, <1>10, Then
<1> HIDE DEF w
<1> QED BY <1>11 DEF w

\* A resume.
LEMMA ContinueWay ==
  ASSUME NEW f, NEW q, Quiet(f, q)
  PROVE  Leads(Plainly(f, "running"), q \o Open \o <<Step("resume", {}, {})>> \o Close \o Says("running"),
               "begin", "shown")
<1> DEFINE w == Plainly(f, "running")
<1>0. "running" \in Leaves
  BY DEF Leaves
<1>1. Leads(w, q, "begin", "begin")
  BY QuietFirst
<1>2. Leads(w, Open, "begin", "inside")
  BY <1>0, BracketLeads
<1>3. Leads(w, q \o Open, "begin", "inside")
  BY <1>1, <1>2, Then
<1>4. Leads(w, <<Step("resume", {}, {})>>, "inside", "changed")
  BY <1>0, BracketLeads
<1>5. Leads(w, q \o Open \o <<Step("resume", {}, {})>>, "begin", "changed")
  BY <1>3, <1>4, Then
<1>6. Leads(w, Close, "changed", "settled")
  BY <1>0, BracketLeads
<1>7. Leads(w, q \o Open \o <<Step("resume", {}, {})>> \o Close, "begin", "settled")
  BY <1>5, <1>6, Then
<1>8. Leads(w, Says("running"), "settled", "shown")
  BY EndLeads
<1>9. Leads(w, q \o Open \o <<Step("resume", {}, {})>> \o Close \o Says("running"),
            "begin", "shown")
  BY <1>7, <1>8, Then
<1> HIDE DEF w
<1> QED BY <1>9 DEF w

\* A boot.
LEMMA BootWay ==
  ASSUME NEW f, NEW q, Quiet(f, q)
  PROVE  Leads(Plainly(f, "running"), q \o Boots \o emit, "begin", "shown")
<1> DEFINE w == Plainly(f, "running")
<1>1. Leads(w, q, "begin", "begin")
  BY QuietFirst
<1>2. Leads(w, Boots, "begin", "settled")
  BY RunsLeads
<1>3. Leads(w, q \o Boots, "begin", "settled")
  BY <1>1, <1>2, Then
<1>4. Leads(w, emit, "settled", "shown")
  BY EndLeads
<1>5. Leads(w, q \o Boots \o emit, "begin", "shown")
  BY <1>3, <1>4, Then
<1> HIDE DEF w
<1> QED BY <1>5 DEF w

\* A recording.
LEMMA LogWay ==
  ASSUME NEW f, NEW q, Quiet(f, q), NEW by \in SUBSET Kinds, NEW e,
         Leads(Plainly(f, "running"), e, "settled", "shown")
  PROVE  Leads(Plainly(f, "running"), q \o Logs(by) \o e, "begin", "shown")
<1> DEFINE w == Plainly(f, "running")
<1>1. Leads(w, q, "begin", "begin")
  BY QuietFirst
<1>2. Leads(w, Logs(by), "begin", "settled")
  BY RunsLeads
<1>3. Leads(w, q \o Logs(by), "begin", "settled")
  BY <1>1, <1>2, Then
<1>4. Leads(w, e, "settled", "shown")
  OBVIOUS
<1>5. Leads(w, q \o Logs(by) \o e, "begin", "shown")
  BY <1>3, <1>4, Then
<1> HIDE DEF w
<1> QED BY <1>5 DEF w

\* A loop that halts the machine.
LEMMA LoopWay ==
  ASSUME NEW f, NEW q, Quiet(f, q), NEW can \in SUBSET {"Zero", "Value"},
         NEW by \in SUBSET Kinds, NEW what \in {"none", "data", "stopped"},
         NEW e \in {emit, _emit_stopped_regs}
  PROVE  Leads(Plainly(f, "stopped"), q \o Loop(can, by, what) \o e, "begin", "shown")
<1> DEFINE w == Plainly(f, "stopped")
<1>1. Leads(w, q, "begin", "begin")
  BY QuietFirst
<1>2. Leads(w, Loop(can, by, what), "begin", "settled")
  BY LoopLeads
<1>3. Leads(w, q \o Loop(can, by, what), "begin", "settled")
  BY <1>1, <1>2, Then
<1>4. Leads(w, e, "settled", "shown")
  BY EndLeads
<1>5. Leads(w, q \o Loop(can, by, what) \o e, "begin", "shown")
  BY <1>3, <1>4, Then
<1> HIDE DEF w
<1> QED BY <1>5 DEF w

\* The same, and labels to read.
LEMMA LoopLabelsWay ==
  ASSUME NEW f, NEW q, Quiet(f, q), NEW can \in SUBSET {"Zero", "Value"},
         NEW by \in SUBSET Kinds, NEW what \in {"none", "data", "stopped"},
         NEW r, Quiet(f, r), NEW e \in {emit, _emit_stopped_regs}
  PROVE  Leads(Plainly(f, "stopped"), q \o Loop(can, by, what) \o r \o e, "begin", "shown")
<1> DEFINE w == Plainly(f, "stopped")
<1>1. Leads(w, q, "begin", "begin")
  BY QuietFirst
<1>2. Leads(w, Loop(can, by, what), "begin", "settled")
  BY LoopLeads
<1>3. Leads(w, q \o Loop(can, by, what), "begin", "settled")
  BY <1>1, <1>2, Then
<1>4. Leads(w, r, "settled", "settled")
  BY QuietFirst
<1>5. Leads(w, q \o Loop(can, by, what) \o r, "begin", "settled")
  BY <1>3, <1>4, Then
<1>6. Leads(w, e, "settled", "shown")
  BY EndLeads
<1>7. Leads(w, q \o Loop(can, by, what) \o r \o e, "begin", "shown")
  BY <1>5, <1>6, Then
<1> HIDE DEF w
<1> QED BY <1>7 DEF w

\* A step.
LEMMA StepWay ==
  ASSUME NEW f, NEW q, Quiet(f, q)
  PROVE  Leads(Plainly(f, "stopped"), q \o Steps \o _emit_stopped_regs, "begin", "shown")
<1> DEFINE w == Plainly(f, "stopped")
<1>1. Leads(w, q, "begin", "begin")
  BY QuietFirst
<1>2. Leads(w, Steps, "begin", "settled")
  BY StepsLeads
<1>3. Leads(w, q \o Steps, "begin", "settled")
  BY <1>1, <1>2, Then
<1>4. Leads(w, _emit_stopped_regs, "settled", "shown")
  BY EndLeads
<1>5. Leads(w, q \o Steps \o _emit_stopped_regs, "begin", "shown")
  BY <1>3, <1>4, Then
<1> HIDE DEF w
<1> QED BY <1>5 DEF w

\* A step, and labels to read.
LEMMA StepLabelsWay ==
  ASSUME NEW f, NEW q, Quiet(f, q), NEW r, Quiet(f, r)
  PROVE  Leads(Plainly(f, "stopped"), q \o Steps \o r \o _emit_stopped_regs, "begin", "shown")
<1> DEFINE w == Plainly(f, "stopped")
<1>1. Leads(w, q, "begin", "begin")
  BY QuietFirst
<1>2. Leads(w, Steps, "begin", "settled")
  BY StepsLeads
<1>3. Leads(w, q \o Steps, "begin", "settled")
  BY <1>1, <1>2, Then
<1>4. Leads(w, r, "settled", "settled")
  BY QuietFirst
<1>5. Leads(w, q \o Steps \o r, "begin", "settled")
  BY <1>3, <1>4, Then
<1>6. Leads(w, _emit_stopped_regs, "settled", "shown")
  BY EndLeads
<1>7. Leads(w, q \o Steps \o r \o _emit_stopped_regs, "begin", "shown")
  BY <1>5, <1>6, Then
<1> HIDE DEF w
<1> QED BY <1>7 DEF w

-----------------------------------------------------------------------------
(* The roster.                                                               *)

LEMMA KindsKnown ==
  /\ {"Value", "Key", "OS", "Audio", "Basic", "Build", "Cart", "Disk", "Monitor", "Package",
      "Protocol", "Session", "Test", "YAML", "Zero", "Remote"} \subseteq Kinds
  /\ {"Value", "Key", "OS", "Audio", "Basic", "Build", "Cart", "Disk", "Monitor", "Package",
      "Protocol", "Session", "Test", "YAML", "Zero", "Remote"} \subseteq Reportable
  /\ {"Usage", "Image", "Strict"} \subseteq Kinds
  /\ RuntimeErrors \subseteq Kinds /\ Reported \subseteq Kinds
BY DEF Kinds, Reportable, INPUT_ERRORS, RuntimeErrors, Reported

LEMMA QuietDoes ==
  ASSUME NEW f, NEW can \in SUBSET Kinds, NEW by \in SUBSET Kinds,
         f = "mcp" \/ can \subseteq by \cup Reportable
  PROVE  Quiet(f, Does(can, by)) /\ Quiet(f, Look(can, by))
BY QuietStep DEF Does, Look

LEMMA QuietWorks ==
  ASSUME NEW f, NEW by \in SUBSET Kinds
  PROVE  Quiet(f, Works(by))
<1>1. by \cup {"OS"} \in SUBSET Kinds /\ by \cup {"OS"} \subseteq by \cup Reportable
  BY KindsKnown
<1> QED BY <1>1, QuietDoes DEF Works

LEMMA QuietParts ==
  ASSUME NEW f
  PROVE  /\ Quiet(f, attach) /\ Quiet(f, session_labels) /\ Quiet(f, resolve_ref)
         /\ Quiet(f, parse_count) /\ Quiet(f, set_labels_path) /\ Quiet(f, Guard)
         /\ Quiet(f, Target) /\ Quiet(f, <<>>)
<1>1. Quiet(f, attach)
  BY KindsKnown, QuietDoes DEF attach
<1>2. Quiet(f, session_labels)
  BY KindsKnown, QuietDoes DEF session_labels
<1>3. Quiet(f, resolve_ref)
  BY KindsKnown, QuietStep DEF resolve_ref
<1>4. Quiet(f, parse_count)
  BY KindsKnown, QuietDoes DEF parse_count
<1>5. Quiet(f, set_labels_path)
  BY KindsKnown, QuietDoes DEF set_labels_path
<1>6. Quiet(f, Guard)
  BY KindsKnown, QuietDoes DEF Guard
<1>7. Quiet(f, Target)
  BY <1>1, <1>2, <1>3, QuietThen DEF Target
<1> QED BY <1>1, <1>2, <1>3, <1>4, <1>5, <1>6, <1>7, QuietNothing

LEMMA LeavesKnown ==
  "as found" \in Leaves /\ "running" \in Leaves /\ "stopped" \in Leaves
BY DEF Leaves

\* Each way is that of a command.
LEMMA CliPlain ==
  ASSUME NEW q, NEW e,
         Quiet("cli", q), e \in {emit, Verdict}
  PROVE  Disciplined(Cli("as found", q \o e))
<1>1. Leads(Plainly("cli", "as found"), q \o e, "begin", "shown")
  BY PlainWay
<1> QED BY <1>1, LeavesKnown, CliDisciplined DEF Plainly

LEMMA CliInspect ==
  ASSUME NEW q,
         Quiet("cli", q)
  PROVE  Disciplined(Cli("as found", q \o Inspects \o emit))
<1>1. Leads(Plainly("cli", "as found"), q \o Inspects \o emit, "begin", "shown")
  BY InspectWay
<1> QED BY <1>1, LeavesKnown, CliDisciplined DEF Plainly

LEMMA CliStatus ==
  ASSUME NEW q,
         Quiet("cli", q)
  PROVE  Disciplined(Cli("as found", q \o machine_state \o Says("sampled")))
<1>1. Leads(Plainly("cli", "as found"), q \o machine_state \o Says("sampled"), "begin", "shown")
  BY StatusWay
<1> QED BY <1>1, LeavesKnown, CliDisciplined DEF Plainly

LEMMA CliRegister ==
  ASSUME NEW q, NEW r,
         Quiet("cli", q), Quiet("cli", r)
  PROVE  Disciplined(Cli("as found", q \o Inspects \o r \o machine_state \o Says("sampled")))
<1>1. Leads(Plainly("cli", "as found"), q \o Inspects \o r \o machine_state \o Says("sampled"),
            "begin", "shown")
  BY RegisterWay
<1> QED BY <1>1, LeavesKnown, CliDisciplined DEF Plainly

LEMMA CliWait ==
  ASSUME NEW q,
         Quiet("cli", q)
  PROVE  Disciplined(Cli("as found", q \o machine_state \o Polls \o _wait_verdict))
<1>1. Leads(Plainly("cli", "as found"), q \o machine_state \o Polls \o _wait_verdict,
            "begin", "shown")
  BY WaitWay
<1> QED BY <1>1, LeavesKnown, CliDisciplined DEF Plainly

LEMMA CliWaitMemory ==
  ASSUME NEW q, NEW r, NEW t,
         Quiet("cli", q), Quiet("cli", r), Quiet("cli", t)
  PROVE  Disciplined(Cli("as found", q \o machine_state \o r \o t \o Polls \o _wait_verdict))
<1>1. Leads(Plainly("cli", "as found"), q \o machine_state \o r \o t \o Polls \o _wait_verdict,
            "begin", "shown")
  BY WaitMemoryWay
<1> QED BY <1>1, LeavesKnown, CliDisciplined DEF Plainly

LEMMA CliBreak ==
  ASSUME NEW q, NEW c,
         Quiet("cli", q), c \in {Exchange, Exchange \o Exchange}
  PROVE  Disciplined(Cli("as found", q \o Open \o c \o <<Step("finally release", {}, {})>> \o Close \o emit))
<1>1. Leads(Plainly("cli", "as found"), q \o Open \o c \o <<Step("finally release", {}, {})>> \o Close \o emit,
            "begin", "shown")
  BY BreakWay
<1> QED BY <1>1, LeavesKnown, CliDisciplined DEF Plainly

LEMMA CliBareRestart ==
  ASSUME NEW q,
         Quiet("cli", q)
  PROVE  Disciplined(Cli("running", q \o Restarts \o emit))
<1>1. Leads(Plainly("cli", "running"), q \o Restarts \o emit, "begin", "shown")
  BY BareRestartWay
<1> QED BY <1>1, LeavesKnown, CliDisciplined DEF Plainly

LEMMA CliRestart ==
  ASSUME NEW q, NEW r,
         Quiet("cli", q), Quiet("cli", r)
  PROVE  Disciplined(Cli("running", q \o Restarts \o r \o emit))
<1>1. Leads(Plainly("cli", "running"), q \o Restarts \o r \o emit, "begin", "shown")
  BY RestartWay
<1> QED BY <1>1, LeavesKnown, CliDisciplined DEF Plainly

LEMMA CliLoad ==
  ASSUME NEW q, NEW r, NEW t,
         Quiet("cli", q), Quiet("cli", r), Quiet("cli", t)
  PROVE  Disciplined(Cli("running", q \o Restarts \o r \o t \o emit))
<1>1. Leads(Plainly("cli", "running"), q \o Restarts \o r \o t \o emit, "begin", "shown")
  BY LoadWay
<1> QED BY <1>1, LeavesKnown, CliDisciplined DEF Plainly

LEMMA CliReset ==
  ASSUME NEW q,
         Quiet("cli", q)
  PROVE  Disciplined(Cli("running", q \o Open \o Exchange \o <<Step("resume", {}, {})>> \o Close \o emit))
<1>1. Leads(Plainly("cli", "running"), q \o Open \o Exchange \o <<Step("resume", {}, {})>> \o Close \o emit,
            "begin", "shown")
  BY ResetWay
<1> QED BY <1>1, LeavesKnown, CliDisciplined DEF Plainly

LEMMA CliContinue ==
  ASSUME NEW q,
         Quiet("cli", q)
  PROVE  Disciplined(Cli("running", q \o Open \o <<Step("resume", {}, {})>> \o Close \o Says("running")))
<1>1. Leads(Plainly("cli", "running"), q \o Open \o <<Step("resume", {}, {})>> \o Close \o Says("running"),
            "begin", "shown")
  BY ContinueWay
<1> QED BY <1>1, LeavesKnown, CliDisciplined DEF Plainly

LEMMA CliBoot ==
  ASSUME NEW q,
         Quiet("cli", q)
  PROVE  Disciplined(Cli("running", q \o Boots \o emit))
<1>1. Leads(Plainly("cli", "running"), q \o Boots \o emit, "begin", "shown")
  BY BootWay
<1> QED BY <1>1, LeavesKnown, CliDisciplined DEF Plainly

LEMMA CliLog ==
  ASSUME NEW q, NEW by, NEW e,
         Quiet("cli", q), by \in SUBSET Kinds, e \in {emit, Verdict}
  PROVE  Disciplined(Cli("running", q \o Logs(by) \o e))
<1>1. Leads(Plainly("cli", "running"), q \o Logs(by) \o e, "begin", "shown")
  BY LogWay, EndLeads
<1> QED BY <1>1, LeavesKnown, CliDisciplined DEF Plainly

LEMMA CliLoop ==
  ASSUME NEW q, NEW can, NEW by, NEW what, NEW e,
         Quiet("cli", q), can \in SUBSET {"Zero", "Value"},
         by \in SUBSET Kinds, what \in {"none", "data", "stopped"}, e \in {emit, _emit_stopped_regs}
  PROVE  Disciplined(Cli("stopped", q \o Loop(can, by, what) \o e))
<1>1. Leads(Plainly("cli", "stopped"), q \o Loop(can, by, what) \o e, "begin", "shown")
  BY LoopWay
<1> QED BY <1>1, LeavesKnown, CliDisciplined DEF Plainly

LEMMA CliLoopLabels ==
  ASSUME NEW q, NEW can, NEW by, NEW what, NEW r, NEW e,
         Quiet("cli", q), can \in SUBSET {"Zero", "Value"},
         by \in SUBSET Kinds, what \in {"none", "data", "stopped"}, Quiet("cli", r), e \in {emit, _emit_stopped_regs}
  PROVE  Disciplined(Cli("stopped", q \o Loop(can, by, what) \o r \o e))
<1>1. Leads(Plainly("cli", "stopped"), q \o Loop(can, by, what) \o r \o e, "begin", "shown")
  BY LoopLabelsWay
<1> QED BY <1>1, LeavesKnown, CliDisciplined DEF Plainly

LEMMA CliSteps ==
  ASSUME NEW q,
         Quiet("cli", q)
  PROVE  Disciplined(Cli("stopped", q \o Steps \o _emit_stopped_regs))
<1>1. Leads(Plainly("cli", "stopped"), q \o Steps \o _emit_stopped_regs, "begin", "shown")
  BY StepWay
<1> QED BY <1>1, LeavesKnown, CliDisciplined DEF Plainly

LEMMA CliStepLabels ==
  ASSUME NEW q, NEW r,
         Quiet("cli", q), Quiet("cli", r)
  PROVE  Disciplined(Cli("stopped", q \o Steps \o r \o _emit_stopped_regs))
<1>1. Leads(Plainly("cli", "stopped"), q \o Steps \o r \o _emit_stopped_regs, "begin", "shown")
  BY StepLabelsWay
<1> QED BY <1>1, LeavesKnown, CliDisciplined DEF Plainly
\* Each way is that of a tool.
LEMMA ToolPlain ==
  ASSUME NEW q, NEW e,
         Quiet("mcp", q), e \in {emit, Verdict}
  PROVE  Disciplined(Tool("as found", q \o e))
<1>1. Leads(Plainly("mcp", "as found"), q \o e, "begin", "shown")
  BY PlainWay
<1> QED BY <1>1, LeavesKnown, ToolDisciplined DEF Plainly

LEMMA ToolInspect ==
  ASSUME NEW q,
         Quiet("mcp", q)
  PROVE  Disciplined(Tool("as found", q \o Inspects \o emit))
<1>1. Leads(Plainly("mcp", "as found"), q \o Inspects \o emit, "begin", "shown")
  BY InspectWay
<1> QED BY <1>1, LeavesKnown, ToolDisciplined DEF Plainly

LEMMA ToolStatus ==
  ASSUME NEW q,
         Quiet("mcp", q)
  PROVE  Disciplined(Tool("as found", q \o machine_state \o Says("sampled")))
<1>1. Leads(Plainly("mcp", "as found"), q \o machine_state \o Says("sampled"), "begin", "shown")
  BY StatusWay
<1> QED BY <1>1, LeavesKnown, ToolDisciplined DEF Plainly

LEMMA ToolRegister ==
  ASSUME NEW q, NEW r,
         Quiet("mcp", q), Quiet("mcp", r)
  PROVE  Disciplined(Tool("as found", q \o Inspects \o r \o machine_state \o Says("sampled")))
<1>1. Leads(Plainly("mcp", "as found"), q \o Inspects \o r \o machine_state \o Says("sampled"),
            "begin", "shown")
  BY RegisterWay
<1> QED BY <1>1, LeavesKnown, ToolDisciplined DEF Plainly

LEMMA ToolWait ==
  ASSUME NEW q,
         Quiet("mcp", q)
  PROVE  Disciplined(Tool("as found", q \o machine_state \o Polls \o _wait_verdict))
<1>1. Leads(Plainly("mcp", "as found"), q \o machine_state \o Polls \o _wait_verdict,
            "begin", "shown")
  BY WaitWay
<1> QED BY <1>1, LeavesKnown, ToolDisciplined DEF Plainly

LEMMA ToolWaitMemory ==
  ASSUME NEW q, NEW r, NEW t,
         Quiet("mcp", q), Quiet("mcp", r), Quiet("mcp", t)
  PROVE  Disciplined(Tool("as found", q \o machine_state \o r \o t \o Polls \o _wait_verdict))
<1>1. Leads(Plainly("mcp", "as found"), q \o machine_state \o r \o t \o Polls \o _wait_verdict,
            "begin", "shown")
  BY WaitMemoryWay
<1> QED BY <1>1, LeavesKnown, ToolDisciplined DEF Plainly

LEMMA ToolBreak ==
  ASSUME NEW q, NEW c,
         Quiet("mcp", q), c \in {Exchange, Exchange \o Exchange}
  PROVE  Disciplined(Tool("as found", q \o Open \o c \o <<Step("finally release", {}, {})>> \o Close \o emit))
<1>1. Leads(Plainly("mcp", "as found"), q \o Open \o c \o <<Step("finally release", {}, {})>> \o Close \o emit,
            "begin", "shown")
  BY BreakWay
<1> QED BY <1>1, LeavesKnown, ToolDisciplined DEF Plainly

LEMMA ToolBareRestart ==
  ASSUME NEW q,
         Quiet("mcp", q)
  PROVE  Disciplined(Tool("running", q \o Restarts \o emit))
<1>1. Leads(Plainly("mcp", "running"), q \o Restarts \o emit, "begin", "shown")
  BY BareRestartWay
<1> QED BY <1>1, LeavesKnown, ToolDisciplined DEF Plainly

LEMMA ToolRestart ==
  ASSUME NEW q, NEW r,
         Quiet("mcp", q), Quiet("mcp", r)
  PROVE  Disciplined(Tool("running", q \o Restarts \o r \o emit))
<1>1. Leads(Plainly("mcp", "running"), q \o Restarts \o r \o emit, "begin", "shown")
  BY RestartWay
<1> QED BY <1>1, LeavesKnown, ToolDisciplined DEF Plainly

LEMMA ToolLoad ==
  ASSUME NEW q, NEW r, NEW t,
         Quiet("mcp", q), Quiet("mcp", r), Quiet("mcp", t)
  PROVE  Disciplined(Tool("running", q \o Restarts \o r \o t \o emit))
<1>1. Leads(Plainly("mcp", "running"), q \o Restarts \o r \o t \o emit, "begin", "shown")
  BY LoadWay
<1> QED BY <1>1, LeavesKnown, ToolDisciplined DEF Plainly

LEMMA ToolReset ==
  ASSUME NEW q,
         Quiet("mcp", q)
  PROVE  Disciplined(Tool("running", q \o Open \o Exchange \o <<Step("resume", {}, {})>> \o Close \o emit))
<1>1. Leads(Plainly("mcp", "running"), q \o Open \o Exchange \o <<Step("resume", {}, {})>> \o Close \o emit,
            "begin", "shown")
  BY ResetWay
<1> QED BY <1>1, LeavesKnown, ToolDisciplined DEF Plainly

LEMMA ToolContinue ==
  ASSUME NEW q,
         Quiet("mcp", q)
  PROVE  Disciplined(Tool("running", q \o Open \o <<Step("resume", {}, {})>> \o Close \o Says("running")))
<1>1. Leads(Plainly("mcp", "running"), q \o Open \o <<Step("resume", {}, {})>> \o Close \o Says("running"),
            "begin", "shown")
  BY ContinueWay
<1> QED BY <1>1, LeavesKnown, ToolDisciplined DEF Plainly

LEMMA ToolBoot ==
  ASSUME NEW q,
         Quiet("mcp", q)
  PROVE  Disciplined(Tool("running", q \o Boots \o emit))
<1>1. Leads(Plainly("mcp", "running"), q \o Boots \o emit, "begin", "shown")
  BY BootWay
<1> QED BY <1>1, LeavesKnown, ToolDisciplined DEF Plainly

LEMMA ToolLog ==
  ASSUME NEW q, NEW by, NEW e,
         Quiet("mcp", q), by \in SUBSET Kinds, e \in {emit, Verdict}
  PROVE  Disciplined(Tool("running", q \o Logs(by) \o e))
<1>1. Leads(Plainly("mcp", "running"), q \o Logs(by) \o e, "begin", "shown")
  BY LogWay, EndLeads
<1> QED BY <1>1, LeavesKnown, ToolDisciplined DEF Plainly

LEMMA ToolLoop ==
  ASSUME NEW q, NEW can, NEW by, NEW what, NEW e,
         Quiet("mcp", q), can \in SUBSET {"Zero", "Value"},
         by \in SUBSET Kinds, what \in {"none", "data", "stopped"}, e \in {emit, _emit_stopped_regs}
  PROVE  Disciplined(Tool("stopped", q \o Loop(can, by, what) \o e))
<1>1. Leads(Plainly("mcp", "stopped"), q \o Loop(can, by, what) \o e, "begin", "shown")
  BY LoopWay
<1> QED BY <1>1, LeavesKnown, ToolDisciplined DEF Plainly

LEMMA ToolLoopLabels ==
  ASSUME NEW q, NEW can, NEW by, NEW what, NEW r, NEW e,
         Quiet("mcp", q), can \in SUBSET {"Zero", "Value"},
         by \in SUBSET Kinds, what \in {"none", "data", "stopped"}, Quiet("mcp", r), e \in {emit, _emit_stopped_regs}
  PROVE  Disciplined(Tool("stopped", q \o Loop(can, by, what) \o r \o e))
<1>1. Leads(Plainly("mcp", "stopped"), q \o Loop(can, by, what) \o r \o e, "begin", "shown")
  BY LoopLabelsWay
<1> QED BY <1>1, LeavesKnown, ToolDisciplined DEF Plainly

LEMMA ToolSteps ==
  ASSUME NEW q,
         Quiet("mcp", q)
  PROVE  Disciplined(Tool("stopped", q \o Steps \o _emit_stopped_regs))
<1>1. Leads(Plainly("mcp", "stopped"), q \o Steps \o _emit_stopped_regs, "begin", "shown")
  BY StepWay
<1> QED BY <1>1, LeavesKnown, ToolDisciplined DEF Plainly

LEMMA ToolStepLabels ==
  ASSUME NEW q, NEW r,
         Quiet("mcp", q), Quiet("mcp", r)
  PROVE  Disciplined(Tool("stopped", q \o Steps \o r \o _emit_stopped_regs))
<1>1. Leads(Plainly("mcp", "stopped"), q \o Steps \o r \o _emit_stopped_regs, "begin", "shown")
  BY StepLabelsWay
<1> QED BY <1>1, LeavesKnown, ToolDisciplined DEF Plainly

\* The commands of cli.py that have one way each.
CliOneWay ==
  {session_start, session_ensure, session_list, build_cmd, package_cmd, basic_tokenize,
   basic_detokenize, basic_check, basic_type, disk_create, disk_ls, disk_put, disk_get,
   disk_rename, disk_rm, disk_block_write, disk_validate, disk_build, cart_build,
   cart_info_cmd, cart_verify_cmd, cart_dump_cmd, cart_convert, test_run, test_programs,
   key_type, sprite_show, sprite_png, sprite_from_png, sprite_encode, charset_encode,
   audio_score, session_reset, status_cmd, mem_read, mem_write, mem_get, mem_find, reg_set,
   break_list, break_remove, break_enable, break_disable, break_clear, watch_add, watch_clear,
   cart_bank, rom_info, rom_disasm, sprite_status, reg, step_cmd, finish_cmd, continue_cmd,
   until_cmd, call_cmd, profile_cmd, audio_record, audio_sidlog, audio_capture}

LEMMA CliRoster == \A c \in CliOneWay : Disciplined(c)
<1>1. Disciplined(session_start)
  BY CliPlain, QuietThen, QuietParts, QuietWorks, KindsKnown DEF session_start
<1>2. Disciplined(session_ensure)
  BY CliPlain, QuietWorks, KindsKnown DEF session_ensure
<1>3. Disciplined(session_list)
  BY CliPlain, QuietDoes, KindsKnown DEF session_list
<1>4. Disciplined(build_cmd)
  BY CliPlain, QuietWorks, KindsKnown DEF build_cmd
<1>5. Disciplined(package_cmd)
  BY CliPlain, QuietWorks, KindsKnown DEF package_cmd
<1>6. Disciplined(basic_tokenize)
  BY CliPlain, QuietWorks, KindsKnown DEF basic_tokenize
<1>7. Disciplined(basic_detokenize)
  BY CliPlain, QuietWorks, KindsKnown DEF basic_detokenize
<1>8. Disciplined(basic_check)
  BY CliPlain, QuietDoes, KindsKnown DEF basic_check
<1>9. Disciplined(basic_type)
  BY CliPlain, QuietThen, QuietParts, QuietDoes, KindsKnown DEF basic_type
<1>10. Disciplined(disk_create)
  BY CliPlain, QuietWorks, KindsKnown DEF disk_create
<1>11. Disciplined(disk_ls)
  BY CliPlain, QuietWorks, KindsKnown DEF disk_ls
<1>12. Disciplined(disk_put)
  BY CliPlain, QuietWorks, KindsKnown DEF disk_put
<1>13. Disciplined(disk_get)
  BY CliPlain, QuietWorks, KindsKnown DEF disk_get
<1>14. Disciplined(disk_rename)
  BY CliPlain, QuietWorks, KindsKnown DEF disk_rename
<1>15. Disciplined(disk_rm)
  BY CliPlain, QuietWorks, KindsKnown DEF disk_rm
<1>16. Disciplined(disk_block_write)
  BY CliPlain, QuietWorks, KindsKnown DEF disk_block_write
<1>17. Disciplined(disk_validate)
  BY CliPlain, QuietWorks, KindsKnown DEF disk_validate
<1>18. Disciplined(disk_build)
  BY CliPlain, QuietDoes, KindsKnown DEF disk_build
<1>19. Disciplined(cart_build)
  BY CliPlain, QuietWorks, KindsKnown DEF cart_build
<1>20. Disciplined(cart_info_cmd)
  BY CliPlain, QuietWorks, KindsKnown DEF cart_info_cmd
<1>21. Disciplined(cart_verify_cmd)
  BY CliPlain, QuietWorks, KindsKnown DEF cart_verify_cmd
<1>22. Disciplined(cart_dump_cmd)
  BY CliPlain, QuietThen, QuietWorks, KindsKnown DEF cart_dump_cmd
<1>23. Disciplined(cart_convert)
  BY CliPlain, QuietWorks, KindsKnown DEF cart_convert
<1>24. Disciplined(test_run)
  BY CliPlain, QuietWorks, KindsKnown DEF test_run
<1>25. Disciplined(test_programs)
  BY CliPlain, QuietThen, QuietParts, QuietWorks, KindsKnown DEF test_programs
<1>26. Disciplined(key_type)
  BY CliPlain, QuietThen, QuietParts, QuietDoes, KindsKnown DEF key_type
<1>27. Disciplined(sprite_show)
  BY CliPlain, QuietThen, QuietParts, QuietDoes, KindsKnown DEF sprite_show
<1>28. Disciplined(sprite_png)
  BY CliPlain, QuietThen, QuietParts, QuietDoes, KindsKnown DEF sprite_png
<1>29. Disciplined(sprite_from_png)
  BY CliPlain, QuietThen, QuietWorks, QuietDoes, KindsKnown DEF sprite_from_png
<1>30. Disciplined(sprite_encode)
  BY CliPlain, QuietThen, QuietParts, QuietWorks, KindsKnown DEF sprite_encode
<1>31. Disciplined(charset_encode)
  BY CliPlain, QuietThen, QuietWorks, KindsKnown DEF charset_encode
<1>32. Disciplined(audio_score)
  BY CliPlain, QuietWorks, KindsKnown DEF audio_score
<1>33. Disciplined(session_reset)
  BY CliReset, QuietParts DEF session_reset
<1>34. Disciplined(status_cmd)
  BY CliStatus, QuietParts DEF status_cmd
<1>35. Disciplined(mem_read)
  BY CliInspect, QuietThen, QuietParts DEF mem_read
<1>36. Disciplined(mem_write)
  BY CliInspect, QuietThen, QuietParts DEF mem_write
<1>37. Disciplined(mem_get)
  BY CliInspect, QuietThen, QuietParts DEF mem_get
<1>38. Disciplined(mem_find)
  BY CliInspect, QuietThen, QuietParts DEF mem_find
<1>39. Disciplined(reg_set)
  BY CliInspect, QuietThen, QuietParts DEF reg_set
<1>40. Disciplined(break_list)
  BY CliInspect, QuietThen, QuietParts DEF break_list
<1>41. Disciplined(break_remove)
  BY CliInspect, QuietParts DEF break_remove
<1>42. Disciplined(break_enable)
  BY CliInspect, QuietParts DEF break_enable
<1>43. Disciplined(break_disable)
  BY CliInspect, QuietParts DEF break_disable
<1>44. Disciplined(break_clear)
  BY CliInspect, QuietParts DEF break_clear
<1>45. Disciplined(watch_add)
  BY CliInspect, QuietParts DEF watch_add
<1>46. Disciplined(watch_clear)
  BY CliInspect, QuietParts DEF watch_clear
<1>47. Disciplined(cart_bank)
  BY CliInspect, QuietParts DEF cart_bank
<1>48. Disciplined(rom_info)
  BY CliInspect, QuietParts DEF rom_info
<1>49. Disciplined(rom_disasm)
  BY CliInspect, QuietThen, QuietParts DEF rom_disasm
<1>50. Disciplined(sprite_status)
  BY CliInspect, QuietParts DEF sprite_status
<1>51. Disciplined(reg)
  BY CliRegister, QuietParts DEF reg
<1>52. Disciplined(step_cmd)
  BY CliSteps, QuietThen, QuietParts DEF step_cmd
<1>53. Disciplined(finish_cmd)
  BY CliSteps, QuietThen, QuietParts DEF finish_cmd
<1>54. Disciplined(continue_cmd)
  BY CliContinue, QuietParts DEF continue_cmd
<1>55. Disciplined(until_cmd)
  BY CliLoop, QuietParts, KindsKnown DEF until_cmd
<1>56. Disciplined(call_cmd)
  BY CliLoop, QuietThen, QuietParts, KindsKnown DEF call_cmd
<1>57. Disciplined(profile_cmd)
  BY CliLoop, QuietThen, QuietParts, KindsKnown DEF profile_cmd
<1>58. Disciplined(audio_record)
  BY CliLog, QuietThen, QuietParts, KindsKnown DEF audio_record
<1>59. Disciplined(audio_sidlog)
  BY CliLog, QuietParts, KindsKnown DEF audio_sidlog
<1>60. Disciplined(audio_capture)
  BY CliLog, QuietThen, QuietParts, QuietDoes, KindsKnown DEF audio_capture
<1> QED
  BY <1>1, <1>2, <1>3, <1>4, <1>5, <1>6, <1>7, <1>8, <1>9, <1>10, <1>11, <1>12, <1>13, <1>14,
     <1>15, <1>16, <1>17, <1>18, <1>19, <1>20, <1>21, <1>22, <1>23, <1>24, <1>25, <1>26, <1>27,
     <1>28, <1>29, <1>30, <1>31, <1>32, <1>33, <1>34, <1>35, <1>36, <1>37, <1>38, <1>39, <1>40,
     <1>41, <1>42, <1>43, <1>44, <1>45, <1>46, <1>47, <1>48, <1>49, <1>50, <1>51, <1>52, <1>53,
     <1>54, <1>55, <1>56, <1>57, <1>58, <1>59, <1>60
  DEF CliOneWay

\* The tools of mcp_server.py that have one way each.
ToolOneWay ==
  {c64_session_list, c64_session_start, c64_session_ensure, c64_build, c64_package,
   c64_basic_check, c64_basic_type, c64_basic_tokenize, c64_basic_detokenize, c64_key_type,
   c64_disk_create, c64_disk_ls, c64_disk_put, c64_disk_get, c64_disk_rename, c64_disk_rm,
   c64_disk_block_write, c64_disk_validate, c64_disk_build, c64_cart_build, c64_cart_info,
   c64_cart_verify, c64_cart_dump, c64_cart_convert, c64_test_run, c64_test_programs,
   c64_sprite_show, c64_sprite_png, c64_sprite_from_png, c64_sprite_encode, c64_charset_encode,
   c64_audio_score, c64_session_reset, c64_status, c64_screen_text, c64_screen_codes,
   c64_screenshot, c64_mem_read, c64_mem_find, c64_mem_write, c64_reg_set, c64_break_list,
   c64_break_remove, c64_break_clear, c64_break_enable, c64_break_disable, c64_watch_clear,
   c64_watch_add, c64_cart_bank, c64_rom_info, c64_rom_disasm, c64_sprite_status, c64_reg_get,
   c64_step, c64_finish, c64_continue, c64_until, c64_wait_break, c64_wait_text, c64_wait_idle,
   c64_wait_mem, c64_call, c64_profile, c64_audio_record, c64_sid_log}

LEMMA ToolRoster == \A c \in ToolOneWay : Disciplined(c)
<1>1. Disciplined(c64_session_list)
  BY ToolPlain, QuietDoes, KindsKnown DEF c64_session_list
<1>2. Disciplined(c64_session_start)
  BY ToolPlain, QuietThen, QuietParts, QuietWorks, KindsKnown DEF c64_session_start
<1>3. Disciplined(c64_session_ensure)
  BY ToolPlain, QuietWorks, KindsKnown DEF c64_session_ensure
<1>4. Disciplined(c64_build)
  BY ToolPlain, QuietWorks, KindsKnown DEF c64_build
<1>5. Disciplined(c64_package)
  BY ToolPlain, QuietWorks, KindsKnown DEF c64_package
<1>6. Disciplined(c64_basic_check)
  BY ToolPlain, QuietDoes, KindsKnown DEF c64_basic_check
<1>7. Disciplined(c64_basic_type)
  BY ToolPlain, QuietThen, QuietParts, QuietDoes, KindsKnown DEF c64_basic_type
<1>8. Disciplined(c64_basic_tokenize)
  BY ToolPlain, QuietWorks, KindsKnown DEF c64_basic_tokenize
<1>9. Disciplined(c64_basic_detokenize)
  BY ToolPlain, QuietWorks, KindsKnown DEF c64_basic_detokenize
<1>10. Disciplined(c64_key_type)
  BY ToolPlain, QuietThen, QuietParts, QuietDoes, KindsKnown DEF c64_key_type
<1>11. Disciplined(c64_disk_create)
  BY ToolPlain, QuietWorks, KindsKnown DEF c64_disk_create
<1>12. Disciplined(c64_disk_ls)
  BY ToolPlain, QuietWorks, KindsKnown DEF c64_disk_ls
<1>13. Disciplined(c64_disk_put)
  BY ToolPlain, QuietWorks, KindsKnown DEF c64_disk_put
<1>14. Disciplined(c64_disk_get)
  BY ToolPlain, QuietWorks, KindsKnown DEF c64_disk_get
<1>15. Disciplined(c64_disk_rename)
  BY ToolPlain, QuietWorks, KindsKnown DEF c64_disk_rename
<1>16. Disciplined(c64_disk_rm)
  BY ToolPlain, QuietWorks, KindsKnown DEF c64_disk_rm
<1>17. Disciplined(c64_disk_block_write)
  BY ToolPlain, QuietWorks, KindsKnown DEF c64_disk_block_write
<1>18. Disciplined(c64_disk_validate)
  BY ToolPlain, QuietWorks, KindsKnown DEF c64_disk_validate
<1>19. Disciplined(c64_disk_build)
  BY ToolPlain, QuietWorks, KindsKnown DEF c64_disk_build
<1>20. Disciplined(c64_cart_build)
  BY ToolPlain, QuietWorks, KindsKnown DEF c64_cart_build
<1>21. Disciplined(c64_cart_info)
  BY ToolPlain, QuietWorks, KindsKnown DEF c64_cart_info
<1>22. Disciplined(c64_cart_verify)
  BY ToolPlain, QuietWorks, KindsKnown DEF c64_cart_verify
<1>23. Disciplined(c64_cart_dump)
  BY ToolPlain, QuietThen, QuietWorks, KindsKnown DEF c64_cart_dump
<1>24. Disciplined(c64_cart_convert)
  BY ToolPlain, QuietWorks, KindsKnown DEF c64_cart_convert
<1>25. Disciplined(c64_test_run)
  BY ToolPlain, QuietWorks, KindsKnown DEF c64_test_run
<1>26. Disciplined(c64_test_programs)
  BY ToolPlain, QuietWorks, KindsKnown DEF c64_test_programs
<1>27. Disciplined(c64_sprite_show)
  BY ToolPlain, QuietThen, QuietParts, QuietDoes, KindsKnown DEF c64_sprite_show
<1>28. Disciplined(c64_sprite_png)
  BY ToolPlain, QuietThen, QuietParts, QuietDoes, KindsKnown DEF c64_sprite_png
<1>29. Disciplined(c64_sprite_from_png)
  BY ToolPlain, QuietDoes, KindsKnown DEF c64_sprite_from_png
<1>30. Disciplined(c64_sprite_encode)
  BY ToolPlain, QuietThen, QuietParts, QuietWorks, KindsKnown DEF c64_sprite_encode
<1>31. Disciplined(c64_charset_encode)
  BY ToolPlain, QuietWorks, KindsKnown DEF c64_charset_encode
<1>32. Disciplined(c64_audio_score)
  BY ToolPlain, QuietWorks, KindsKnown DEF c64_audio_score
<1>33. Disciplined(c64_session_reset)
  BY ToolBareRestart, QuietParts DEF c64_session_reset
<1>34. Disciplined(c64_status)
  BY ToolStatus, QuietParts DEF c64_status
<1>35. Disciplined(c64_screen_text)
  BY ToolInspect, QuietParts DEF c64_screen_text
<1>36. Disciplined(c64_screen_codes)
  BY ToolInspect, QuietParts DEF c64_screen_codes
<1>37. Disciplined(c64_screenshot)
  BY ToolInspect, QuietParts DEF c64_screenshot
<1>38. Disciplined(c64_mem_read)
  BY ToolInspect, QuietParts DEF c64_mem_read
<1>39. Disciplined(c64_mem_find)
  BY ToolInspect, QuietThen, QuietParts DEF c64_mem_find
<1>40. Disciplined(c64_mem_write)
  BY ToolInspect, QuietParts DEF c64_mem_write
<1>41. Disciplined(c64_reg_set)
  BY ToolInspect, QuietThen, QuietParts DEF c64_reg_set
<1>42. Disciplined(c64_break_list)
  BY ToolInspect, QuietThen, QuietParts DEF c64_break_list
<1>43. Disciplined(c64_break_remove)
  BY ToolInspect, QuietParts DEF c64_break_remove
<1>44. Disciplined(c64_break_clear)
  BY ToolInspect, QuietParts DEF c64_break_clear
<1>45. Disciplined(c64_break_enable)
  BY ToolInspect, QuietParts DEF c64_break_enable
<1>46. Disciplined(c64_break_disable)
  BY ToolInspect, QuietParts DEF c64_break_disable
<1>47. Disciplined(c64_watch_clear)
  BY ToolInspect, QuietParts DEF c64_watch_clear
<1>48. Disciplined(c64_watch_add)
  BY ToolInspect, QuietParts DEF c64_watch_add
<1>49. Disciplined(c64_cart_bank)
  BY ToolInspect, QuietParts DEF c64_cart_bank
<1>50. Disciplined(c64_rom_info)
  BY ToolInspect, QuietParts DEF c64_rom_info
<1>51. Disciplined(c64_rom_disasm)
  BY ToolInspect, QuietParts DEF c64_rom_disasm
<1>52. Disciplined(c64_sprite_status)
  BY ToolInspect, QuietParts DEF c64_sprite_status
<1>53. Disciplined(c64_reg_get)
  BY ToolRegister, QuietParts DEF c64_reg_get
<1>54. Disciplined(c64_step)
  BY ToolStepLabels, QuietParts DEF c64_step
<1>55. Disciplined(c64_finish)
  BY ToolStepLabels, QuietParts DEF c64_finish
<1>56. Disciplined(c64_continue)
  BY ToolContinue, QuietParts DEF c64_continue
<1>57. Disciplined(c64_until)
  BY ToolLoopLabels, QuietParts, KindsKnown DEF c64_until
<1>58. Disciplined(c64_wait_break)
  BY ToolLoopLabels, QuietParts, KindsKnown DEF c64_wait_break
<1>59. Disciplined(c64_wait_text)
  BY ToolWait, QuietParts DEF c64_wait_text
<1>60. Disciplined(c64_wait_idle)
  BY ToolWait, QuietParts DEF c64_wait_idle
<1>61. Disciplined(c64_wait_mem)
  BY ToolWaitMemory, QuietParts DEF c64_wait_mem
<1>62. Disciplined(c64_call)
  BY ToolLoop, QuietParts, KindsKnown DEF c64_call
<1>63. Disciplined(c64_profile)
  BY ToolLoop, QuietParts, KindsKnown DEF c64_profile
<1>64. Disciplined(c64_audio_record)
  BY ToolLog, QuietThen, QuietParts, KindsKnown DEF c64_audio_record
<1>65. Disciplined(c64_sid_log)
  BY ToolLog, QuietParts, KindsKnown DEF c64_sid_log
<1> QED
  BY <1>1, <1>2, <1>3, <1>4, <1>5, <1>6, <1>7, <1>8, <1>9, <1>10, <1>11, <1>12, <1>13, <1>14,
     <1>15, <1>16, <1>17, <1>18, <1>19, <1>20, <1>21, <1>22, <1>23, <1>24, <1>25, <1>26, <1>27,
     <1>28, <1>29, <1>30, <1>31, <1>32, <1>33, <1>34, <1>35, <1>36, <1>37, <1>38, <1>39, <1>40,
     <1>41, <1>42, <1>43, <1>44, <1>45, <1>46, <1>47, <1>48, <1>49, <1>50, <1>51, <1>52, <1>53,
     <1>54, <1>55, <1>56, <1>57, <1>58, <1>59, <1>60, <1>61, <1>62, <1>63, <1>64, <1>65
  DEF ToolOneWay

\* Of the commands with several ways, each of them.
LEMMA CliVariants ==
  /\ \A c \in session_stop \cup load_cmd \cup run_cmd \cup break_add : Disciplined(c)
  /\ \A c \in wait_cmd \cup disk_boot \cup disk_block_read : Disciplined(c)
  /\ \A c \in key_hold \cup audio_report : Disciplined(c)
<1>1. \A c \in session_stop : Disciplined(c)
  BY CliPlain, QuietThen, QuietParts, QuietWorks, KindsKnown DEF session_stop
<1>2. \A c \in load_cmd : Disciplined(c)
  BY CliLoad, QuietParts DEF load_cmd
<1>3. \A c \in run_cmd : Disciplined(c)
  <2>1. Quiet("cli", Guard \o attach \o Works({"Basic", "Build", "Value"}))
    BY QuietThen, QuietParts, QuietWorks, KindsKnown
  <2>2. Disciplined(Cli("running", Guard \o Boots \o emit))
    BY CliBoot, QuietParts
  <2> QED BY <2>1, <2>2, CliLoad, QuietParts DEF run_cmd
<1>4. \A c \in break_add : Disciplined(c)
  BY CliBreak, QuietParts DEF break_add
<1>5. \A c \in wait_cmd : Disciplined(c)
  <2>1. Quiet("cli", Guard \o attach \o session_labels)
    BY QuietThen, QuietParts
  <2>2. Quiet("cli", parse_count \o resolve_ref \o parse_count)
    BY QuietThen, QuietParts
  <2>3. ASSUME NEW condition \in {<<>>, parse_count \o resolve_ref \o parse_count}
        PROVE  Disciplined(Cli("as found", Guard \o attach \o session_labels \o condition
                                           \o machine_state \o Polls \o _wait_verdict))
    <3>1. Quiet("cli", condition)
      BY <2>2, QuietParts
    <3>2. Quiet("cli", Guard \o attach \o session_labels \o condition)
      BY <2>1, <3>1, QuietThen
    <3> QED BY <3>2, CliWait
  <2>4. Quiet("cli", Guard \o attach \o session_labels \o parse_count)
    BY <2>1, QuietThen, QuietParts
  <2>5. Disciplined(Cli("stopped", Guard \o attach \o session_labels \o parse_count
                                   \o Loop({}, {}, "none") \o emit))
    BY <2>4, CliLoop
  <2> QED BY <2>3, <2>5 DEF wait_cmd
<1>6. \A c \in disk_boot : Disciplined(c)
  BY CliRestart, QuietParts DEF disk_boot
<1>7. \A c \in disk_block_read : Disciplined(c)
  <2>1. \A output \in {<<>>, Works({"OS"})} : Quiet("cli", output)
    BY QuietParts, QuietWorks, KindsKnown
  <2>2. \A output \in {<<>>, Works({"OS"})} : Quiet("cli", Works({"Disk"}) \o output)
    BY <2>1, QuietThen, QuietWorks, KindsKnown
  <2> QED BY <2>2, CliPlain DEF disk_block_read
<1>8. \A c \in key_hold : Disciplined(c)
  <2>1. Disciplined(Cli("as found", Target \o parse_count \o emit))
    BY CliPlain, QuietThen, QuietParts
  <2>2. Disciplined(Cli("stopped",
          Target \o Loop({"Value"}, {"Value"}, "none") \o _emit_stopped_regs))
    BY CliLoop, QuietParts, KindsKnown
  <2> QED BY <2>1, <2>2 DEF key_hold
<1>9. \A c \in audio_report : Disciplined(c)
  <2>1. Quiet("cli", Works({"Audio", "OS", "Value", "Key"}))
    BY QuietWorks, KindsKnown
  <2>2. \A clock \in {<<>>, attach} :
          Quiet("cli", Guard \o clock \o Works({"Audio", "OS", "Value", "Key"}))
    BY <2>1, QuietThen, QuietParts
  <2> QED BY <2>2, CliPlain DEF audio_report
<1> QED BY <1>1, <1>2, <1>3, <1>4, <1>5, <1>6, <1>7, <1>8, <1>9

\* What a tool with a strict verdict ends in.
LEMMA StrictLeads ==
  ASSUME NEW l \in {"as found", "running"}
  PROVE  Leads(Plainly("mcp", l), _strict_verdict, Ready(l), "shown")
<1>1. Ready(l) \in {"begin", "settled", "sampled"} /\ l \in Leaves
  BY LeavesKnown DEF Ready
<1>2. Quiet("mcp", Does({"Strict"}, {}))
  BY QuietDoes, KindsKnown
<1>3. Leads(Plainly("mcp", l), Does({"Strict"}, {}), Ready(l), Ready(l))
  BY <1>1, <1>2, QuietFirst
<1>4. Leads(Plainly("mcp", l), emit, Ready(l), "shown")
  BY <1>1, EmitOrVerdict
<1> QED BY <1>3, <1>4, Then DEF _strict_verdict

LEMMA ToolVariants ==
  /\ \A c \in c64_session_stop \cup c64_break_add \cup c64_run \cup c64_load : Disciplined(c)
  /\ \A c \in c64_key_hold \cup c64_disk_boot \cup c64_disk_block_read : Disciplined(c)
  /\ \A c \in c64_sid_report \cup {c64_audio_capture} : Disciplined(c)
<1>1. \A c \in c64_session_stop : Disciplined(c)
  BY ToolPlain, QuietThen, QuietParts, QuietWorks, KindsKnown DEF c64_session_stop
<1>2. \A c \in c64_break_add : Disciplined(c)
  BY ToolBreak, QuietParts DEF c64_break_add
<1>3. \A c \in c64_run : Disciplined(c)
  <2>1. Quiet("mcp", Guard \o attach \o Works({"Basic", "Build", "Value"}))
    BY QuietThen, QuietParts, QuietWorks, KindsKnown
  <2>2. Disciplined(Tool("running", Guard \o Boots \o emit))
    BY ToolBoot, QuietParts
  <2> QED BY <2>1, <2>2, ToolLoad, QuietParts DEF c64_run
<1>4. \A c \in c64_load : Disciplined(c)
  BY ToolLoad, QuietParts DEF c64_load
<1>5. \A c \in c64_key_hold : Disciplined(c)
  <2>1. Disciplined(Tool("as found", Target \o parse_count \o emit))
    BY ToolPlain, QuietThen, QuietParts
  <2>2. Disciplined(Tool("stopped", Target \o Loop({"Value"}, {}, "none") \o session_labels
                                    \o _emit_stopped_regs))
    BY ToolLoopLabels, QuietParts, KindsKnown
  <2> QED BY <2>1, <2>2 DEF c64_key_hold
<1>6. \A c \in c64_disk_boot : Disciplined(c)
  BY ToolRestart, QuietParts DEF c64_disk_boot
<1>7. \A c \in c64_disk_block_read : Disciplined(c)
  <2>1. \A output \in {<<>>, Works({"OS"})} : Quiet("mcp", output)
    BY QuietParts, QuietWorks, KindsKnown
  <2>2. \A output \in {<<>>, Works({"OS"})} : Quiet("mcp", Works({"Disk"}) \o output)
    BY <2>1, QuietThen, QuietWorks, KindsKnown
  <2> QED BY <2>2, ToolPlain DEF c64_disk_block_read
<1>8. \A c \in c64_sid_report : Disciplined(c)
  <2>1. Quiet("mcp", Works({"Audio", "Value", "Key"}))
    BY QuietWorks, KindsKnown
  <2>2. ASSUME NEW clock \in {<<>>, attach}
        PROVE  Disciplined(Tool("as found",
                 Guard \o clock \o Works({"Audio", "Value", "Key"}) \o _strict_verdict))
    <3>1. Quiet("mcp", Guard \o clock \o Works({"Audio", "Value", "Key"}))
      BY <2>1, QuietThen, QuietParts
    <3>2. Leads(Plainly("mcp", "as found"),
                Guard \o clock \o Works({"Audio", "Value", "Key"}), "begin", "begin")
      BY <3>1, QuietFirst
    <3>3. Leads(Plainly("mcp", "as found"), _strict_verdict, "begin", "shown")
      BY StrictLeads DEF Ready
    <3>4. Leads(Plainly("mcp", "as found"),
                Guard \o clock \o Works({"Audio", "Value", "Key"}) \o _strict_verdict,
                "begin", "shown")
      BY <3>2, <3>3, Then
    <3> QED BY <3>4, LeavesKnown, ToolDisciplined DEF Plainly
  <2> QED BY <2>2 DEF c64_sid_report
<1>9. Disciplined(c64_audio_capture)
  <2>1. Quiet("mcp", attach \o Look({"Value"}, {}))
    BY QuietThen, QuietParts, QuietDoes, KindsKnown
  <2>2. Leads(Plainly("mcp", "running"), _strict_verdict, "settled", "shown")
    BY StrictLeads DEF Ready
  <2>3. Leads(Plainly("mcp", "running"),
              attach \o Look({"Value"}, {}) \o Logs({}) \o _strict_verdict, "begin", "shown")
    BY <2>1, <2>2, LogWay
  <2> QED BY <2>3, LeavesKnown, ToolDisciplined DEF Plainly, c64_audio_capture
<1> QED BY <1>1, <1>2, <1>3, <1>4, <1>5, <1>6, <1>7, <1>8, <1>9

\* The screen command writes its document inside its bracket.
LEMMA ScreenDisciplined ==
  Disciplined(screen_cmd)
<1> DEFINE w == Manner("cli", "as found", TRUE)
           release == <<Step("finally release", {}, {})>>
           early == attach \o Open \o Exchange
<1>1. w.front = "cli" /\ w.leaves = "as found" /\ w.early = TRUE
  BY DEF Manner
<1>2. Leads(w, early, "begin", "inside")
  <2>1. Leads(Plainly("cli", "as found"), attach, "begin", "begin")
    BY QuietParts, QuietFirst
  <2>2. Leads(Plainly("cli", "as found"), attach \o Open, "begin", "inside")
    BY <2>1, LeavesKnown, BracketLeads, Then
  <2>3. Leads(Plainly("cli", "as found"), early, "begin", "inside")
    BY <2>2, LeavesKnown, BracketLeads, Then
  <2> QED BY <2>3, EarlyLeads DEF Plainly
<1>3. {"inside", "told", "shown"} \subseteq Modes
  BY DEF Modes, Closed, Inside
<1>4. /\ Turn("as found", TRUE, "emit", "none", "inside", "told")
      /\ Turn("as found", TRUE, "finally release", "none", "told", "told")
      /\ Turn("as found", TRUE, "close", "none", "told", "shown")
  BY DEF Turn
<1> HIDE DEF w
<1>5. ASSUME NEW do \in {"emit", "finally release", "close"}, NEW a \in Modes, NEW b \in Modes,
             Turn("as found", TRUE, do, "none", a, b)
      PROVE  Leads(w, <<Step(do, {}, {})>>, a, b)
  <2> DEFINE s == Step(do, {}, {})
  <2>1. s \in StepType /\ s.do = do /\ s.says = "none" /\ s.can = {}
    BY DEF Step, StepType
  <2> HIDE DEF s
  <2>2. Careful(w.front, s)
    BY <2>1 DEF Careful
  <2>3. Turn(w.leaves, w.early, s.do, s.says, a, b)
    BY <1>1, <1>5, <2>1
  <2>4. Leads(w, <<s>>, a, b)
    BY <2>1, <2>2, <2>3, OneStep
  <2> QED BY <2>4 DEF s
<1>6. emit = <<Step("emit", {}, {})>>
  BY DEF emit, Says, Step
<1>7. Leads(w, emit, "inside", "told")
  BY <1>3, <1>4, <1>5, <1>6
<1>8. Leads(w, release, "told", "told")
  BY <1>3, <1>4, <1>5
<1>9. Leads(w, Close, "told", "shown")
  BY <1>3, <1>4, <1>5 DEF Close
<1> HIDE DEF early
<1>10. Leads(w, early \o emit, "begin", "told")
  BY <1>2, <1>7, Then
<1>11. Leads(w, early \o emit \o release, "begin", "told")
  BY <1>8, <1>10, Then
<1>12. Leads(w, early \o emit \o release \o Close, "begin", "shown")
  BY <1>9, <1>11, Then
<1>13. /\ screen_cmd.front = "cli" /\ screen_cmd.leaves = "as found"
       /\ screen_cmd.steps = early \o emit \o release \o Close
  BY DEF screen_cmd, Cli, early
<1>14. Way(screen_cmd) = w
  BY <1>13 DEF Way, w
<1> QED BY <1>12, <1>13, <1>14 DEF Disciplined

\* Every command and every tool keeps to its brackets, raises what somebody
\* reports and writes one document, at its end.
THEOREM RosterDisciplined == \A c \in Commands : Disciplined(c)
<1> DEFINE Several ==
             UNION {session_stop, load_cmd, run_cmd, break_add, wait_cmd, disk_boot,
                    disk_block_read, key_hold, audio_report, c64_session_stop, c64_break_add,
                    c64_run, c64_load, c64_key_hold, c64_disk_boot, c64_disk_block_read,
                    c64_sid_report}
           One == CliOneWay \cup ToolOneWay \cup {screen_cmd, c64_audio_capture}
<1>1. \A c \in Several : Disciplined(c)
  BY CliVariants, ToolVariants
<1>2. \A c \in One : Disciplined(c)
  BY CliRoster, ToolRoster, ToolVariants, ScreenDisciplined
<1>3. Commands \subseteq Several \cup One
  BY DEF Commands, CliOneWay, ToolOneWay
<1> HIDE DEF Several, One
<1> QED BY <1>1, <1>2, <1>3

-----------------------------------------------------------------------------
(* A step of a disciplined command.                                          *)

LEMMA PlanKeeps ==
  ASSUME NEW c \in Commands
  PROVE  /\ c.front \in {"cli", "mcp"} /\ c.leaves \in Leaves
         /\ c.steps \in Seq(StepType) /\ Len(c.steps) \in Nat
         /\ Course(Way(c), c.steps, Plan(c))
         /\ Plan(c)[1] = "begin" /\ Plan(c)[Len(c.steps) + 1] = "shown"
<1>1. Disciplined(c)
  BY RosterDisciplined
<1>2. c.front \in {"cli", "mcp"} /\ c.leaves \in Leaves
  BY <1>1 DEF Disciplined, Leaves
<1>3. Leads(Way(c), c.steps, "begin", "shown")
  BY <1>1 DEF Disciplined
<1>4. c.steps \in Seq(StepType) /\ Len(c.steps) \in Nat
  BY <1>3 DEF Leads
<1>5. \E m : /\ Course(Way(c), c.steps, m)
             /\ m[1] = "begin" /\ m[Len(c.steps) + 1] = "shown"
  BY <1>3 DEF Leads
<1>6. /\ Course(Way(c), c.steps, Plan(c))
      /\ Plan(c)[1] = "begin" /\ Plan(c)[Len(c.steps) + 1] = "shown"
  BY <1>5 DEF Plan
<1> QED BY <1>2, <1>4, <1>6

\* The mode that the step leads to.
After == Plan(command)[pos + 1]

\* What is known of a step ahead of it.
Ahead ==
  /\ Going /\ pos <= Len(command.steps)
  /\ command \in Commands /\ command.front \in {"cli", "mcp"} /\ command.leaves \in Leaves
  /\ pos \in Nat /\ pos >= 1 /\ Len(command.steps) \in Nat
  /\ Here \in StepType /\ Careful(command.front, Here)
  /\ Turn(command.leaves, command = screen_cmd, Here.do, Here.says, Mode, After)
  /\ Mode \in Modes /\ After \in Modes

LEMMA StepAhead ==
  ASSUME FrontTypeOK, Placed, Going, pos <= Len(command.steps)
  PROVE  Ahead
<1>1. command \in Commands
  BY DEF Placed
<1> DEFINE s == command.steps
           m == Plan(command)
<1>2. /\ command.front \in {"cli", "mcp"} /\ command.leaves \in Leaves
      /\ s \in Seq(StepType) /\ Len(s) \in Nat /\ Course(Way(command), s, m)
  BY <1>1, PlanKeeps
<1>3. pos \in 1..(Len(s) + 1)
  BY DEF FrontTypeOK
<1> HIDE DEF s, m
<1>4. pos \in 1..Len(s) /\ pos \in 1..(Len(s) + 1) /\ pos + 1 \in 1..(Len(s) + 1)
      /\ pos \in Nat /\ pos >= 1
  BY <1>2, <1>3 DEF s
<1>5. s[pos] \in StepType
  BY <1>2, <1>4
<1>6. m[pos] \in Modes /\ m[pos + 1] \in Modes
  BY <1>2, <1>4 DEF Course
<1>7. /\ Way(command).front = command.front /\ Way(command).leaves = command.leaves
      /\ Way(command).early = (command = screen_cmd)
  BY DEF Way, Manner
<1>8. /\ Careful(command.front, s[pos])
      /\ Turn(command.leaves, command = screen_cmd, s[pos].do, s[pos].says, m[pos], m[pos + 1])
  BY <1>2, <1>4, <1>7 DEF Course
<1> QED BY <1>1, <1>2, <1>4, <1>5, <1>6, <1>8 DEF Ahead, s, m, Here, Mode, After

\* The steps that bring the machine somewhere.
Lets == {"resume", "finally resume", "boot", "log"}
Parks == {"halt", "loop"}

\* Where a step stands.
Requests == {"ask", "halt", "resume", "finally resume", "finally release"}
Outside == {"work", "look", "open", "sample", "poll", "loop", "boot", "log", "verdict", "timed out"}

LEMMA Standing ==
  ASSUME Ahead, open \in BOOLEAN, open <=> Mode \in Inside
  PROVE  /\ Here.do \in Requests => open /\ After \in Inside
         /\ Here.do = "close" => open /\ After \in Closed
         /\ Here.do = "open" => After \in Inside
         /\ Here.do \in Outside => ~open
         /\ Here.do \in Outside \ {"open"} => After \in Closed
         /\ Here.do = "emit" => (open <=> After \in Inside)
         /\ Here.do \in Requests \cup Outside \cup {"close", "emit"}
<1> DEFINE d == Here.do
           m == Mode
           n == After
           l == command.leaves
<1>1. Turn(l, command = screen_cmd, d, Here.says, m, n)
  BY DEF Ahead
<1>2. Ready(l) \in {"begin", "settled"}
  BY DEF Ready
<1>3. open <=> m \in Inside
  OBVIOUS
<1> HIDE DEF d, m, n, l
<1>4. d \in Requests => m \in Inside /\ n \in Inside
  BY <1>1 DEF Turn, Requests, Inside
<1>5. d = "close" => m \in Inside /\ n \in Closed
  BY <1>1 DEF Turn, Inside, Closed
<1>6. d = "open" => n \in Inside
  BY <1>1 DEF Turn, Inside
<1>7. d \in Outside => m \notin Inside
  BY <1>1, <1>2 DEF Turn, Outside, Inside
<1>8. d \in Outside \ {"open"} => n \in Closed
  BY <1>1, <1>2 DEF Turn, Outside, Closed
<1>9. d = "emit" => (m \in Inside <=> n \in Inside)
  BY <1>1, <1>2 DEF Turn, Inside
<1>10. d \in Requests \cup Outside \cup {"close", "emit"}
  BY <1>1 DEF Turn, Requests, Outside
<1> QED BY <1>3, <1>4, <1>5, <1>6, <1>7, <1>8, <1>9, <1>10 DEF d, m, n

\* What a step may do to the machine over a daemon: what it holds to be
\* stopped is halted, and outside of brackets the two agree, done or failed.
LEMMA Moved ==
  ASSUME FrontTypeOK, Coupled, Ahead, NEW done \in BOOLEAN, Moves(done),
         open <=> Mode \in Inside
  PROVE  /\ processor' \in {"running", "halted"} /\ held' \in Halts
         /\ link = "daemon" =>
              /\ held' = "stopped" => processor' = "halted"
              /\ After \in Closed \/ ~open => processor' = CpuIn(held')
              /\ Here.do \notin Lets \cup Parks => held' = held
              /\ done /\ Here.do \in Lets => held' = "running"
              /\ done /\ Here.do \in Parks => held' = "stopped"
              /\ Here.do \in {"poll", "sample", "timed out"} => processor' = processor
<1> DEFINE d == Here.do
<1>1. /\ processor \in {"running", "halted"} /\ held \in {"running", "stopped"}
      /\ link \in {"daemon", "direct"} /\ open \in BOOLEAN
  BY DEF FrontTypeOK, Halts
<1>2. link = "daemon" => /\ held = "stopped" => processor = "halted"
                         /\ ~open => processor = CpuIn(held)
  BY DEF Coupled
<1>3. PICK e \in Effects(done) : processor' = e[1] /\ held' = e[2]
  BY DEF Moves
<1>4. /\ d \in Requests => open /\ After \in Inside
      /\ d = "close" => open /\ After \in Closed
      /\ d = "open" => After \in Inside
      /\ d \in Outside => ~open
      /\ d = "emit" => (open <=> After \in Inside)
      /\ d \in Requests \cup Outside \cup {"close", "emit"}
  BY <1>1, Standing
<1>5. After \in Inside => After \notin Closed
  BY DEF Inside, Closed
<1>6. CASE d = "open"
  <2>1. e = <<IF done /\ link = "direct" THEN "halted" ELSE processor, held>>
    BY <1>3, <1>6 DEF Effects
  <2> QED BY <2>1, <1>1, <1>2, <1>3, <1>4, <1>5, <1>6 DEF Halts, Lets, Parks, CpuIn, Outside
<1>7. CASE d = "ask"
  <2>1. e \in {<<"halted", held>>, <<processor, held>>}
    BY <1>3, <1>7 DEF Effects
  <2>2. processor' \in {"halted", processor} /\ held' = held
    BY <2>1, <1>3
  <2>3. open /\ After \notin Closed
    BY <1>4, <1>5, <1>7 DEF Requests
  <2> QED BY <2>2, <2>3, <1>1, <1>2, <1>7 DEF Halts, Lets, Parks
<1>8. CASE d = "halt"
  <2>1. e = <<"halted", "stopped">> \/ (~done /\ e = <<processor, held>>)
    BY <1>3, <1>8 DEF Effects
  <2>2. \/ processor' = "halted" /\ held' = "stopped"
        \/ ~done /\ processor' = processor /\ held' = held
    BY <2>1, <1>3
  <2>3. open /\ After \notin Closed
    BY <1>4, <1>5, <1>8 DEF Requests
  <2> QED BY <2>2, <2>3, <1>1, <1>2, <1>8 DEF Halts, Lets, Parks
<1>9. CASE d \in {"resume", "finally resume", "log"}
  <2>1. e = <<"running", "running">> \/ (~done /\ e = <<processor, held>>)
    BY <1>3, <1>9 DEF Effects
  <2>2. \/ processor' = "running" /\ held' = "running"
        \/ ~done /\ processor' = processor /\ held' = held
    BY <2>1, <1>3
  <2>3. d \in {"resume", "finally resume"} => open /\ After \notin Closed
    BY <1>4, <1>5 DEF Requests
  <2>4. d = "log" => ~open
    BY <1>4 DEF Outside
  <2> QED BY <2>2, <2>3, <2>4, <1>1, <1>2, <1>9 DEF Halts, Lets, Parks, CpuIn
<1>10. CASE d = "finally release"
  <2>1. e \in {<<"running", held>>, <<processor, held>>}
        /\ (link = "daemon" /\ held = "stopped" => e = <<processor, held>>)
    BY <1>3, <1>10 DEF Effects
  <2>2. processor' \in {"running", processor} /\ held' = held
        /\ (link = "daemon" /\ held = "stopped" => processor' = processor)
    BY <2>1, <1>3
  <2>3. open /\ After \notin Closed
    BY <1>4, <1>5, <1>10 DEF Requests
  <2> QED BY <2>2, <2>3, <1>1, <1>2, <1>10 DEF Halts, Lets, Parks
<1>11. CASE d \in {"close", "look", "poll", "sample", "timed out"}
  <2>1. \E c \in Left(held, processor) : e = <<c, held>>
    BY <1>3, <1>11 DEF Effects
  <2>2. /\ processor' \in Left(held, processor) /\ held' = held
    BY <2>1, <1>3
  <2>3. /\ processor' \in {"running", "halted"}
        /\ link = "daemon" => processor' = IF held = "running" THEN "running" ELSE processor
    BY <2>2, <1>1 DEF Left
  <2> QED BY <2>2, <2>3, <1>1, <1>2, <1>4, <1>11 DEF Halts, Lets, Parks, CpuIn, Outside
<1>12. CASE d = "loop"
  <2>1. e = <<"halted", "stopped">> \/ (~done /\ e = <<"running", "running">>)
    BY <1>3, <1>12 DEF Effects
  <2> QED BY <2>1, <1>1, <1>3, <1>12 DEF Halts, Lets, Parks, CpuIn
<1>13. CASE d = "boot"
  <2>1. e = IF done THEN <<"running", "running">> ELSE <<processor, held>>
    BY <1>3, <1>13 DEF Effects
  <2> QED BY <2>1, <1>1, <1>2, <1>3, <1>4, <1>13 DEF Halts, Lets, Parks, CpuIn, Outside
<1>14. CASE d \in {"work", "emit", "verdict"}
  <2>1. e = <<processor, held>>
    BY <1>3, <1>14 DEF Effects
  <2>2. processor' = processor /\ held' = held
    BY <2>1, <1>3
  <2>3. ~open \/ After \notin Closed
    BY <1>1, <1>4, <1>5, <1>14 DEF Outside
  <2> QED BY <2>2, <2>3, <1>1, <1>2, <1>14 DEF Halts, Lets, Parks
<1>15. d \in {"open", "ask", "halt", "resume", "finally resume", "log", "finally release", "close",
              "look", "poll", "sample", "timed out", "loop", "boot", "work", "emit", "verdict"}
  BY <1>4 DEF Requests, Outside
<1> QED
  BY <1>6, <1>7, <1>8, <1>9, <1>10, <1>11, <1>12, <1>13, <1>14, <1>15

-----------------------------------------------------------------------------
(* Init and the actions.                                                     *)

LEMMA KindsAreNone ==
  "none" \notin Kinds /\ Faults \subseteq Kinds /\ Unopened \subseteq Kinds
  /\ Faults \subseteq Reportable /\ Unopened \subseteq Reportable
  /\ "Audio" \notin Faults \cup Unopened
BY DEF Kinds, INPUT_ERRORS, RuntimeErrors, Faults, Unopened, Reportable

LEMMA NothingOut ==
  <<>> \in Seq({"data", "error"})
OBVIOUS

LEMMA InsideIsNotClosed ==
  \A m : m \in Inside => m \notin Closed
BY DEF Inside, Closed

\* Where nothing is shown yet, nothing is claimed, and no document is out.
LEMMA Unclaimed ==
  ASSUME Ahead, Claimed, Documented, Fine \/ open
  PROVE  /\ claim = "none" /\ Mode /= "shown"
         /\ command /= screen_cmd => out = <<>>
<1>1. Mode /= "shown"
  BY DEF Ahead, Turn, Ready
<1>2. Going
  BY DEF Ahead
<1>3. claim = "none"
  BY <1>1, <1>2 DEF Claimed
<1>4. command /= screen_cmd => out = <<>>
  BY <1>1, <1>2 DEF Documented
<1> QED BY <1>1, <1>3, <1>4

LEMMA FrontInitHolds ==
  FrontInit => FrontInv
<1> SUFFICES ASSUME FrontInit PROVE FrontInv
  OBVIOUS
<1> DEFINE idle == Cli("as found", <<>>)
<1>1. /\ link \in {"daemon", "direct"} /\ command = idle /\ pos = 1 /\ open = FALSE
      /\ error.kind = "none" /\ error.caught = FALSE /\ before = "unknown"
      /\ held \in Halts /\ processor = CpuIn(held) /\ hit = FALSE /\ found = held /\ ran = FALSE
      /\ out = <<>> /\ claim = "none" /\ exit = "0"
  BY DEF FrontInit
<1>2. idle.leaves = "as found" /\ Len(idle.steps) = 0
  BY DEF Cli
<1>3. idle \notin Commands
  <2>1. \A c \in Commands : Len(c.steps) /= 0
    <3> SUFFICES ASSUME NEW c \in Commands, Len(c.steps) = 0 PROVE FALSE
      OBVIOUS
    <3>1. Plan(c)[1] = "begin" /\ Plan(c)[0 + 1] = "shown"
      BY PlanKeeps
    <3> QED BY <3>1
  <2> QED BY <1>2, <2>1
<1> HIDE DEF idle
<1>4. FrontTypeOK
  <2>1. Len(command.steps) = 0
    BY <1>1, <1>2
  <2>2. 1 \in 1..(0 + 1)
    OBVIOUS
  <2>3. pos \in 1..(Len(command.steps) + 1)
    BY <2>1, <2>2, <1>1
  <2>4. processor \in {"running", "halted"}
    BY <1>1 DEF CpuIn
  <2>5. command \in Commands \cup {Cli("as found", <<>>)}
    BY <1>1 DEF idle
  <2>6. out \in Seq({"data", "error"})
    BY <1>1, NothingOut
  <2>7. /\ open \in BOOLEAN /\ hit \in BOOLEAN /\ ran \in BOOLEAN /\ error.caught \in BOOLEAN
    BY <1>1
  <2> QED BY <1>1, <2>3, <2>4, <2>5, <2>6, <2>7 DEF FrontTypeOK
<1>5. Placed /\ Coupled /\ Kept /\ Brought /\ Sampled
  BY <1>1, <1>2 DEF Placed, Coupled, Kept, Brought, Sampled, Going, Halts, CpuIn
<1>6. Claimed
  BY <1>1 DEF Claimed, Going, Halts
<1>7. Documented
  BY <1>1 DEF Documented, Going
<1>8. LeavesAsDocumented
  BY <1>1, <1>2 DEF LeavesAsDocumented
<1>9. OneDocument
  BY <1>1, <1>3 DEF OneDocument
<1> QED BY <1>4, <1>5, <1>6, <1>7, <1>8, <1>9 DEF FrontInv

LEMMA InvokeKeeps ==
  ASSUME FrontInv, Invoke
  PROVE  FrontInv'
<1>1. /\ exit /= "none" /\ command' \in Commands /\ pos' = 1 /\ open' = FALSE
      /\ error'.kind = "none" /\ error'.caught = FALSE /\ before' = "unknown"
      /\ found' = (IF processor = "halted" THEN "stopped" ELSE "running")
      /\ ran' = FALSE /\ hit' = FALSE /\ out' = <<>> /\ claim' = "none" /\ exit' = "none"
      /\ link' = link /\ processor' = processor /\ held' = held
  BY DEF Invoke
<1>2. FrontTypeOK /\ Placed /\ Coupled
  BY DEF FrontInv
<1>3. ~open
  BY <1>1, <1>2 DEF Placed, Going
<1>4. Len(command'.steps) \in Nat /\ Plan(command')[1] = "begin"
  BY <1>1, PlanKeeps
<1>5. Mode' = "begin"
  BY <1>1, <1>4 DEF Mode
<1>6. FrontTypeOK'
  <2>1. pos' \in 1..(Len(command'.steps) + 1)
    BY <1>1, <1>4
  <2>2. out' \in Seq({"data", "error"})
    BY <1>1, NothingOut
  <2>3. /\ open' \in BOOLEAN /\ hit' \in BOOLEAN /\ ran' \in BOOLEAN /\ error'.caught \in BOOLEAN
    BY <1>1
  <2> QED BY <1>1, <1>2, <2>1, <2>2, <2>3 DEF FrontTypeOK, Halts
<1>7. Placed'
  BY <1>1, <1>5 DEF Placed, Going, Inside
<1>8. Coupled'
  BY <1>1, <1>2, <1>3 DEF Coupled
<1>9. Kept'
  BY <1>1, <1>2, <1>3 DEF Kept, Coupled, CpuIn, FrontTypeOK, Halts
<1>10. Brought' /\ Sampled'
  BY <1>1, <1>5 DEF Brought, Sampled
<1>11. Claimed'
  BY <1>1 DEF Claimed, Halts
<1>12. Documented'
  BY <1>1, <1>5 DEF Documented, Fine
<1>13. LeavesAsDocumented' /\ OneDocument'
  BY <1>1 DEF LeavesAsDocumented, OneDocument, Ended
<1> QED BY <1>6, <1>7, <1>8, <1>9, <1>10, <1>11, <1>12, <1>13 DEF FrontInv

LEMMA HitKeeps ==
  ASSUME FrontInv, Hit
  PROVE  FrontInv'
<1>1. /\ link = "daemon" /\ exit = "none" /\ ~open /\ processor = "running" /\ held = "running"
      /\ processor' = "halted" /\ held' = "stopped" /\ hit' = TRUE
      /\ link' = link /\ command' = command /\ pos' = pos /\ open' = open /\ error' = error
      /\ before' = before /\ found' = found /\ ran' = ran
      /\ out' = out /\ claim' = claim /\ exit' = exit
  BY DEF Hit, report
<1>2. Mode' = Mode /\ (Fine' <=> Fine) /\ (Going' <=> Going)
  BY <1>1 DEF Mode, Fine, Going
<1>3. FrontTypeOK'
  BY <1>1 DEF FrontInv, FrontTypeOK, Halts
<1>4. Placed'
  BY <1>1, <1>2 DEF FrontInv, Placed
<1>5. Coupled' /\ Kept'
  BY <1>1 DEF Coupled, Kept, CpuIn
<1>6. Brought' /\ Sampled'
  BY <1>1, <1>2 DEF FrontInv, Brought, Sampled
<1>7. Claimed'
  BY <1>1, <1>2 DEF FrontInv, Claimed
<1>8. Documented'
  BY <1>1, <1>2 DEF FrontInv, Documented
<1>9. LeavesAsDocumented' /\ OneDocument'
  BY <1>1 DEF LeavesAsDocumented, OneDocument, Ended
<1> QED BY <1>3, <1>4, <1>5, <1>6, <1>7, <1>8, <1>9 DEF FrontInv

\* What the turns say of the commands whose state they bring about.
LEMMA Turned ==
  ASSUME Ahead
  PROVE  /\ Here.do \in Lets => command.leaves = "running"
         /\ Here.do \in Parks => command.leaves = "stopped"
         /\ After \in {"settled", "changed", "shown"} =>
              \/ Mode \in {"settled", "changed"} \/ command.leaves = "as found"
              \/ Here.do \in Lets \cup Parks
         /\ After = "sampled" => Here.do \in {"work", "look", "poll", "sample"}
         /\ After = "sampled" /\ Here.do /= "sample" => Mode = "sampled"
         /\ After = "shown" => Here.do \in {"emit", "verdict", "timed out"} \/ command = screen_cmd
         /\ Here.do \in {"sample", "poll", "timed out"} => command.leaves = "as found"
         /\ Here.do \in {"poll", "timed out"} => Mode = "sampled"
         /\ Here.do = "sample" => Mode = "begin" /\ After = "sampled"
         /\ Here.do = "poll" => After = "sampled"
         /\ Here.do = "timed out" => After = "shown"
         /\ Here.do = "loop" => Mode = "begin"
         /\ Here.do \in {"emit", "verdict"} /\ command /= screen_cmd => After = "shown"
<1> DEFINE d == Here.do
           m == Mode
           n == After
           l == command.leaves
           early == command = screen_cmd
<1>1. Turn(l, early, d, Here.says, m, n)
  BY DEF Ahead
<1>2. Ready(l) \in {"begin", "settled"} /\ (Ready(l) = "begin" => l = "as found")
  BY DEF Ready
<1> HIDE DEF d, m, n, l, early
<1>3. d \in Lets => l = "running"
  BY <1>1 DEF Turn, Lets
<1>4. d \in Parks => l = "stopped"
  BY <1>1 DEF Turn, Parks
<1>5. n \in {"settled", "changed", "shown"} =>
        m \in {"settled", "changed"} \/ l = "as found" \/ d \in Lets \cup Parks
  BY <1>1, <1>2 DEF Turn, Lets, Parks
<1>6. /\ n = "sampled" => d \in {"work", "look", "poll", "sample"}
      /\ n = "sampled" /\ d /= "sample" => m = "sampled"
      /\ d \in {"sample", "poll", "timed out"} => l = "as found"
      /\ d \in {"poll", "timed out"} => m = "sampled"
      /\ d = "sample" => m = "begin" /\ n = "sampled"
      /\ d = "poll" => n = "sampled"
      /\ d = "timed out" => n = "shown"
      /\ d = "loop" => m = "begin"
  BY <1>1 DEF Turn
<1>7. /\ n = "shown" => d \in {"emit", "verdict", "timed out"} \/ early
      /\ d \in {"emit", "verdict"} /\ ~early => n = "shown"
  BY <1>1 DEF Turn
<1> QED BY <1>3, <1>4, <1>5, <1>6, <1>7 DEF d, m, n, l, early

LEMMA Onward ==
  ASSUME Ahead
  PROVE  /\ pos + 1 \in 1..(Len(command.steps) + 1)
         /\ Len(command.steps) + 1 \in 1..(Len(command.steps) + 1)
<1> DEFINE n == Len(command.steps)
<1>1. n \in Nat /\ pos \in Nat /\ pos >= 1 /\ pos <= n
  BY DEF Ahead
<1> HIDE DEF n
<1>2. pos + 1 \in 1..(n + 1) /\ n + 1 \in 1..(n + 1)
  BY <1>1
<1> QED BY <1>2 DEF n

LEMMA PassKeeps ==
  ASSUME FrontInv, Pass
  PROVE  FrontInv'
<1>1. /\ exit = "none" /\ pos <= Len(command.steps) /\ (Fine \/ open)
      /\ Here.do \notin {"emit", "verdict", "sample", "poll", "timed out"} /\ Moves(TRUE)
      /\ open' = (IF Here.do = "open" THEN TRUE ELSE IF Here.do = "close" THEN FALSE ELSE open)
      /\ pos' = pos + 1
      /\ link' = link /\ command' = command /\ error' = error /\ before' = before
      /\ found' = found /\ hit' = hit /\ ran' = ran
      /\ out' = out /\ claim' = claim /\ exit' = exit
  BY DEF Pass, report
<1>2. FrontTypeOK /\ Placed /\ Coupled /\ Kept /\ Brought /\ Sampled /\ Claimed /\ Documented
  BY DEF FrontInv
<1>3. Ahead
  BY <1>1, <1>2, StepAhead DEF Going
<1>4. Going /\ (open <=> Mode \in Inside) /\ open \in BOOLEAN
  BY <1>1, <1>2 DEF Going, Placed, FrontTypeOK
<1>5. /\ processor' \in {"running", "halted"} /\ held' \in Halts
      /\ link = "daemon" =>
           /\ held' = "stopped" => processor' = "halted"
           /\ After \in Closed \/ ~open => processor' = CpuIn(held')
           /\ Here.do \notin Lets \cup Parks => held' = held
           /\ Here.do \in Lets => held' = "running"
           /\ Here.do \in Parks => held' = "stopped"
  BY <1>1, <1>2, <1>3, <1>4, Moved
<1>6. claim = "none" /\ (command /= screen_cmd => out = <<>>)
  BY <1>1, <1>2, <1>3, Unclaimed
<1>7. /\ Here.do \in Lets => command.leaves = "running"
      /\ Here.do \in Parks => command.leaves = "stopped"
      /\ After \in {"settled", "changed", "shown"} =>
           \/ Mode \in {"settled", "changed"} \/ command.leaves = "as found"
           \/ Here.do \in Lets \cup Parks
      /\ After = "sampled" => Mode = "sampled" /\ Here.do \in {"work", "look"}
      /\ After = "shown" => command = screen_cmd
  BY <1>1, <1>3, Turned
<1>8. /\ Mode' = After /\ (Fine' <=> Fine) /\ Going'
  BY <1>1, <1>4 DEF Mode, After, Fine, Going
<1>9. open' <=> After \in Inside
  <2>1. /\ Here.do \in Requests => open /\ After \in Inside
        /\ Here.do = "close" => open /\ After \in Closed
        /\ Here.do = "open" => After \in Inside
        /\ Here.do \in Outside => ~open
        /\ Here.do \in Outside \ {"open"} => After \in Closed
        /\ Here.do \in Requests \cup Outside \cup {"close"}
    BY <1>1, <1>3, <1>4, Standing
  <2>2. After \in Closed => After \notin Inside
    BY InsideIsNotClosed
  <2>3. CASE Here.do = "open"
    BY <1>1, <2>1, <2>3
  <2>4. CASE Here.do = "close"
    BY <1>1, <2>1, <2>2, <2>4
  <2>5. CASE Here.do \notin {"open", "close"}
    BY <1>1, <2>1, <2>2, <2>5
  <2> QED BY <2>3, <2>4, <2>5
<1>10. ~open' => After \in Closed
  BY <1>3, <1>9 DEF Ahead, Modes
<1>11. FrontTypeOK'
  <2>1. pos' \in 1..(Len(command'.steps) + 1)
    BY <1>1, <1>3, Onward
  <2>2. open' \in BOOLEAN
    BY <1>1, <1>4
  <2> QED BY <1>1, <1>2, <1>5, <2>1, <2>2 DEF FrontTypeOK
<1>12. Placed'
  BY <1>1, <1>2, <1>4, <1>8, <1>9 DEF Placed
<1>13. Coupled'
  BY <1>1, <1>5, <1>10 DEF Coupled
<1>14. Kept'
  <2> SUFFICES ASSUME link = "daemon", command.leaves = "as found"
               PROVE  held' = IF hit THEN "stopped" ELSE found
    BY <1>1 DEF Kept
  <2>1. held' = held
    BY <1>5, <1>7
  <2> QED BY <1>2, <2>1 DEF Kept
<1>15. Brought'
  <2> SUFFICES ASSUME link = "daemon", Fine, After \in {"settled", "changed", "shown"}
               PROVE  /\ command.leaves = "running" => held' = "running" \/ hit
                      /\ command.leaves = "stopped" => held' = "stopped"
    BY <1>1, <1>8 DEF Brought
  <2>1. CASE Here.do \in Lets
    BY <1>5, <1>7, <2>1
  <2>2. CASE Here.do \in Parks
    BY <1>5, <1>7, <2>2
  <2>3. CASE Here.do \notin Lets \cup Parks
    BY <1>2, <1>4, <1>5, <1>7, <2>3 DEF Brought
  <2> QED BY <2>1, <2>2, <2>3
<1>16. Sampled'
  <2> SUFFICES ASSUME link = "daemon", Fine, After = "sampled"
               PROVE  /\ before = "stopped" => held' = "stopped" /\ ~ran
                      /\ before = "running" => ran /\ (held' = "running" \/ hit)
                      /\ held' = "running" => ran
    BY <1>1, <1>8 DEF Sampled
  <2>1. held' = held /\ Mode = "sampled"
    BY <1>5, <1>7 DEF Lets, Parks
  <2> QED BY <1>2, <1>4, <2>1 DEF Sampled
<1>17. Claimed'
  BY <1>1, <1>6 DEF Claimed, Halts
<1>18. Documented'
  <2>1. command /= screen_cmd => After /= "shown"
    BY <1>7
  <2>2. ~Fine /\ command.front = "cli" => error.caught \/ error.kind \in Reportable
    BY <1>2, <1>4 DEF Documented
  <2> QED BY <1>1, <1>6, <1>8, <2>1, <2>2 DEF Documented
<1>19. LeavesAsDocumented' /\ OneDocument'
  BY <1>1 DEF LeavesAsDocumented, OneDocument, Ended
<1> QED BY <1>11, <1>12, <1>13, <1>14, <1>15, <1>16, <1>17, <1>18, <1>19 DEF FrontInv

LEMMA Written ==
  ASSUME NEW x \in {"data", "error"}, NEW s \in Seq({"data", "error"})
  PROVE  /\ Append(s, x) \in Seq({"data", "error"})
         /\ Append(<<>>, x) = <<x>> /\ Len(<<x>>) = 1 /\ <<x>>[1] = x
OBVIOUS

LEMMA ScreenLeaves ==
  screen_cmd.leaves = "as found"
BY DEF screen_cmd, Cli

\* Where a command is, ahead of a step of a closed or an open bracket.
LEMMA Bearing ==
  ASSUME FrontInv, exit = "none", pos <= Len(command.steps), Fine \/ open
  PROVE  /\ FrontTypeOK /\ Placed /\ Coupled /\ Kept /\ Brought /\ Sampled /\ Claimed /\ Documented
         /\ Ahead /\ Going /\ (open <=> Mode \in Inside) /\ open \in BOOLEAN
         /\ claim = "none" /\ (command /= screen_cmd => out = <<>>)
<1>1. FrontTypeOK /\ Placed /\ Coupled /\ Kept /\ Brought /\ Sampled /\ Claimed /\ Documented
  BY DEF FrontInv
<1>2. Going
  BY DEF Going
<1>3. Ahead
  BY <1>1, <1>2, StepAhead
<1>4. (open <=> Mode \in Inside) /\ open \in BOOLEAN
  BY <1>1, <1>2 DEF Placed, FrontTypeOK
<1>5. claim = "none" /\ (command /= screen_cmd => out = <<>>)
  BY <1>1, <1>3, Unclaimed
<1> QED BY <1>1, <1>2, <1>3, <1>4, <1>5

\* Where only the place, the document, the claim and the exit code change.
LEMMA TypesStay ==
  ASSUME FrontTypeOK, link' = link, command' = command, open' = open, error' = error,
         before' = before, found' = found, hit' = hit, ran' = ran,
         processor' = processor, held' = held,
         pos' \in 1..(Len(command.steps) + 1), out' \in Seq({"data", "error"}),
         claim' \in Halts \cup {"none", "unknown", "stopped throughout", "running meanwhile",
                                 "guess"},
         exit' \in {"none", "0", "1", "data", "error", "traceback"}
  PROVE  FrontTypeOK'
<1>1. pos' \in 1..(Len(command'.steps) + 1)
  OBVIOUS
<1>2. /\ open' \in BOOLEAN /\ hit' \in BOOLEAN /\ ran' \in BOOLEAN
      /\ error'.kind \in Kinds \cup {"none"} /\ error'.caught \in BOOLEAN
  BY DEF FrontTypeOK
<1>3. /\ link' \in {"daemon", "direct"} /\ command' \in Commands \cup {Cli("as found", <<>>)}
      /\ before' \in Halts \cup {"unknown"}
      /\ processor' \in {"running", "halted"} /\ held' \in Halts /\ found' \in Halts
  BY DEF FrontTypeOK
<1> QED BY <1>1, <1>2, <1>3 DEF FrontTypeOK

LEMMA GivesUpKeeps ==
  ASSUME FrontInv, GivesUp
  PROVE  FrontInv'
<1> DEFINE x == IF Here.says = "data" THEN "data" ELSE "error"
<1>1. /\ exit = "none" /\ pos <= Len(command.steps) /\ Here.do = "loop" /\ Fine
      /\ processor' \in Left("running", processor) /\ held' = "running"
      /\ out' = Append(out, x) /\ claim' = "running"
      /\ exit' = (IF command.front = "cli" THEN "1" ELSE out'[Len(out')])
      /\ pos' = Len(command.steps) + 1
      /\ link' = link /\ command' = command /\ open' = open /\ error' = error
      /\ before' = before /\ found' = found /\ hit' = hit /\ ran' = ran
  BY DEF GivesUp, At
<1>2. /\ FrontTypeOK /\ Ahead /\ (open <=> Mode \in Inside) /\ open \in BOOLEAN
      /\ (command /= screen_cmd => out = <<>>)
  BY <1>1, Bearing
<1>3. command.leaves = "stopped" /\ ~open
  BY <1>1, <1>2, Turned, Standing DEF Parks, Outside
<1>4. x \in {"data", "error"}
  OBVIOUS
<1>5. out \in Seq({"data", "error"}) /\ out = <<>>
  BY <1>2, <1>3, ScreenLeaves DEF FrontTypeOK
<1> HIDE DEF x
<1>6. out' = <<x>> /\ Len(out') = 1 /\ out'[1] = x /\ out' \in Seq({"data", "error"})
  BY <1>1, <1>4, <1>5, Written
<1>7. exit' \in {"1", x} /\ exit' /= "none"
  BY <1>1, <1>4, <1>6
<1>8. /\ processor' \in {"running", "halted"} /\ (link = "daemon" => processor' = "running")
  BY <1>1 DEF Left
<1>9. FrontTypeOK'
  <2>1. pos' \in 1..(Len(command'.steps) + 1)
    BY <1>1, <1>2, Onward
  <2>2. /\ exit' \in {"none", "0", "1", "data", "error", "traceback"}
        /\ held' \in Halts /\ claim' \in Halts
    BY <1>1, <1>4, <1>7 DEF Halts
  <2> QED BY <1>1, <1>2, <1>6, <1>8, <2>1, <2>2 DEF FrontTypeOK
<1>10. ~Going' /\ ~open'
  BY <1>1, <1>3, <1>7 DEF Going
<1>11. Placed' /\ Brought' /\ Sampled' /\ Documented'
  BY <1>10 DEF Placed, Brought, Sampled, Documented
<1>12. Coupled'
  BY <1>1, <1>8 DEF Coupled, CpuIn
<1>13. Kept'
  BY <1>1, <1>3 DEF Kept
<1>14. Claimed'
  BY <1>1, <1>8, <1>10 DEF Claimed, CpuIn, Halts
<1>15. LeavesAsDocumented'
  BY <1>1, <1>3 DEF LeavesAsDocumented
<1>16. OneDocument'
  BY <1>1, <1>4, <1>6, <1>7 DEF OneDocument, Fine
<1> QED BY <1>9, <1>11, <1>12, <1>13, <1>14, <1>15, <1>16 DEF FrontInv

LEMMA SampleKeeps ==
  ASSUME FrontInv, Sample
  PROVE  FrontInv'
<1>1. /\ exit = "none" /\ pos <= Len(command.steps) /\ Here.do = "sample" /\ Fine
      /\ before' \in (IF link = "daemon" THEN {held} ELSE {}) \cup {"unknown"}
      /\ Moves(TRUE) /\ ran' = (processor' = "running") /\ pos' = pos + 1
      /\ link' = link /\ command' = command /\ open' = open /\ error' = error
      /\ found' = found /\ hit' = hit /\ out' = out /\ claim' = claim /\ exit' = exit
  BY DEF Sample, At, report
<1>2. /\ FrontTypeOK /\ Placed /\ Coupled /\ Kept /\ Documented
      /\ Ahead /\ Going /\ (open <=> Mode \in Inside) /\ open \in BOOLEAN
      /\ claim = "none" /\ (command /= screen_cmd => out = <<>>)
  BY <1>1, Bearing
<1>3. ~open /\ After = "sampled" /\ command.leaves = "as found"
  BY <1>1, <1>2, Turned, Standing DEF Outside
<1>4. /\ processor' \in {"running", "halted"} /\ held' \in Halts
      /\ link = "daemon" => held' = held /\ processor' = CpuIn(held') /\ processor' = processor
  BY <1>1, <1>2, <1>3, Moved DEF Lets, Parks
<1>5. /\ Mode' = "sampled" /\ Fine' /\ Going' /\ ~open'
  BY <1>1, <1>2, <1>3 DEF Mode, After, Fine, Going
<1>6. before' \in Halts \cup {"unknown"} /\ (link = "daemon" => before' \in {held, "unknown"})
  BY <1>1, <1>2 DEF FrontTypeOK
<1>7. FrontTypeOK'
  <2>1. pos' \in 1..(Len(command'.steps) + 1)
    BY <1>1, <1>2, Onward
  <2>2. ran' \in BOOLEAN
    BY <1>1
  <2> QED BY <1>1, <1>2, <1>4, <1>6, <2>1, <2>2 DEF FrontTypeOK
<1>8. Placed'
  BY <1>1, <1>2, <1>5 DEF Placed, Inside
<1>9. Coupled'
  BY <1>1, <1>4 DEF Coupled, CpuIn
<1>10. Kept'
  BY <1>1, <1>2, <1>4 DEF Kept
<1>11. Brought'
  BY <1>5 DEF Brought
<1>12. Sampled'
  BY <1>1, <1>4, <1>6 DEF Sampled, CpuIn
<1>13. Claimed'
  BY <1>1, <1>2 DEF Claimed, Halts
<1>14. Documented'
  BY <1>1, <1>2, <1>5 DEF Documented
<1>15. LeavesAsDocumented' /\ OneDocument'
  BY <1>1 DEF LeavesAsDocumented, OneDocument, Ended
<1> QED BY <1>7, <1>8, <1>9, <1>10, <1>11, <1>12, <1>13, <1>14, <1>15 DEF FrontInv

LEMMA PollKeeps ==
  ASSUME FrontInv, Poll
  PROVE  FrontInv'
<1>1. /\ exit = "none" /\ pos <= Len(command.steps) /\ Here.do = "poll" /\ Fine
      /\ Moves(TRUE) /\ ran' = (ran \/ processor' = "running")
      /\ \/ pos' \in {pos, pos + 1} /\ out' = out
         \/ pos' = Len(command.steps) + 1 /\ out' = Append(out, "data")
      /\ link' = link /\ command' = command /\ open' = open /\ error' = error
      /\ before' = before /\ found' = found /\ hit' = hit /\ claim' = claim /\ exit' = exit
  BY DEF Poll, At
<1>2. /\ FrontTypeOK /\ Placed /\ Coupled /\ Kept /\ Sampled /\ Documented
      /\ Ahead /\ Going /\ (open <=> Mode \in Inside) /\ open \in BOOLEAN
      /\ claim = "none" /\ (command /= screen_cmd => out = <<>>)
  BY <1>1, Bearing
<1>3. /\ ~open /\ Mode = "sampled" /\ After = "sampled" /\ command.leaves = "as found"
  BY <1>1, <1>2, Turned, Standing DEF Outside
<1>4. /\ processor' \in {"running", "halted"} /\ held' \in Halts
      /\ link = "daemon" => held' = held /\ processor' = CpuIn(held') /\ processor' = processor
  BY <1>1, <1>2, <1>3, Moved DEF Lets, Parks
<1>5. /\ Fine' /\ Going' /\ ~open' /\ command \in Commands
  BY <1>1, <1>2, <1>3 DEF Fine, Going, Placed
<1>6. \/ Mode' = "sampled" /\ out' = out
      \/ Mode' = "shown" /\ out' = Append(out, "data")
  <2>1. Plan(command)[Len(command.steps) + 1] = "shown"
    BY <1>5, PlanKeeps
  <2>2. Mode' = Plan(command)[pos']
    BY <1>1 DEF Mode
  <2>3. Plan(command)[pos] = "sampled" /\ Plan(command)[pos + 1] = "sampled"
    BY <1>3 DEF Mode, After
  <2>4. CASE pos' = pos /\ out' = out
    BY <2>2, <2>3, <2>4
  <2>5. CASE pos' = pos + 1 /\ out' = out
    BY <2>2, <2>3, <2>5
  <2>6. CASE pos' = Len(command.steps) + 1 /\ out' = Append(out, "data")
    BY <2>1, <2>2, <2>6
  <2> QED BY <1>1, <2>4, <2>5, <2>6
<1>7. FrontTypeOK'
  <2>1. pos' \in 1..(Len(command'.steps) + 1)
    BY <1>1, <1>2, Onward DEF FrontTypeOK
  <2>2. ran' \in BOOLEAN
    BY <1>1, <1>2 DEF FrontTypeOK
  <2>3. out' \in Seq({"data", "error"})
    BY <1>1, <1>2, Written DEF FrontTypeOK
  <2> QED BY <1>1, <1>2, <1>4, <2>1, <2>2, <2>3 DEF FrontTypeOK
<1>8. Placed'
  BY <1>1, <1>2, <1>5, <1>6 DEF Placed, Inside
<1>9. Coupled'
  BY <1>1, <1>4 DEF Coupled, CpuIn
<1>10. Kept'
  BY <1>1, <1>2, <1>4 DEF Kept
<1>11. Brought'
  BY <1>1, <1>3 DEF Brought
<1>12. Sampled'
  BY <1>1, <1>2, <1>3, <1>4 DEF Sampled, CpuIn
<1>13. Claimed'
  BY <1>1, <1>2 DEF Claimed, Halts
<1>14. Documented'
  <2>1. Append(<<>>, "data") = <<"data">>
    BY NothingOut, Written
  <2> QED BY <1>1, <1>2, <1>5, <1>6, <2>1 DEF Documented
<1>15. LeavesAsDocumented' /\ OneDocument'
  BY <1>1 DEF LeavesAsDocumented, OneDocument, Ended
<1> QED BY <1>7, <1>8, <1>9, <1>10, <1>11, <1>12, <1>13, <1>14, <1>15 DEF FrontInv

LEMMA TimedOutKeeps ==
  ASSUME FrontInv, TimedOut
  PROVE  FrontInv'
<1> DEFINE x == IF command.front = "cli" THEN "error" ELSE "data"
<1>1. /\ exit = "none" /\ pos <= Len(command.steps) /\ Here.do = "timed out" /\ Fine
      /\ Moves(TRUE) /\ pos' = pos + 1
      /\ out' = Append(out, x) /\ exit' = (IF command.front = "cli" THEN "1" ELSE "data")
      /\ link' = link /\ command' = command /\ open' = open /\ error' = error
      /\ before' = before /\ found' = found /\ hit' = hit /\ ran' = ran
  BY DEF TimedOut, At
<1>2. PICK after \in (IF link = "daemon" THEN {held} ELSE {}) \cup {"unknown"} :
        claim' = IF Stopped(after) THEN "stopped throughout"
                 ELSE IF "running" \in {before, after} THEN "running meanwhile" ELSE "guess"
  BY DEF TimedOut
<1>3. /\ FrontTypeOK /\ Placed /\ Coupled /\ Kept /\ Sampled /\ Documented
      /\ Ahead /\ Going /\ (open <=> Mode \in Inside) /\ open \in BOOLEAN
      /\ (command /= screen_cmd => out = <<>>)
  BY <1>1, Bearing
<1>4. /\ ~open /\ Mode = "sampled" /\ command.leaves = "as found"
  BY <1>1, <1>3, Turned, Standing DEF Outside
<1>5. /\ processor' \in {"running", "halted"} /\ held' \in Halts
      /\ link = "daemon" => held' = held /\ processor' = CpuIn(held')
  BY <1>1, <1>3, <1>4, Moved DEF Lets, Parks
<1>6. ~Going' /\ ~open' /\ exit' \in {"1", "data"}
  BY <1>1, <1>4 DEF Going
<1>7. x \in {"data", "error"} /\ out \in Seq({"data", "error"})
      /\ (x = "error" => exit' = "1") /\ (exit' = "data" => x = "data")
  BY <1>1, <1>3 DEF FrontTypeOK
<1> HIDE DEF x
<1>8. FrontTypeOK'
  <2>1. pos' \in 1..(Len(command'.steps) + 1)
    BY <1>1, <1>3, Onward
  <2>2. out' \in Seq({"data", "error"})
    BY <1>1, <1>7, Written
  <2>3. claim' \in {"stopped throughout", "running meanwhile", "guess"}
    BY <1>2
  <2> QED BY <1>1, <1>3, <1>5, <1>6, <2>1, <2>2, <2>3 DEF FrontTypeOK
<1>9. Placed' /\ Brought' /\ Sampled' /\ Documented'
  BY <1>6 DEF Placed, Brought, Sampled, Documented
<1>10. Coupled'
  BY <1>1, <1>5 DEF Coupled, CpuIn
<1>11. Kept'
  BY <1>1, <1>3, <1>5 DEF Kept
<1>12. Claimed'
  <2>1. ASSUME link = "daemon"
        PROVE  \/ claim' = "stopped throughout" /\ ~ran
               \/ claim' = "running meanwhile" /\ ran
               \/ claim' = "guess"
    <3>1. after \in {held, "unknown"}
      BY <1>2, <2>1
    <3>2. /\ before = "stopped" => held = "stopped" /\ ~ran
          /\ before = "running" => ran
          /\ held = "running" => ran
      BY <1>3, <1>1, <1>4, <2>1 DEF Sampled
    <3> QED BY <1>2, <3>1, <3>2 DEF Stopped
  <2>2. CASE link = "daemon"
    BY <1>1, <1>6, <2>1, <2>2 DEF Claimed, Halts
  <2>3. CASE link /= "daemon"
    BY <1>1, <1>6, <2>3 DEF Claimed
  <2> QED BY <2>2, <2>3
<1>13. LeavesAsDocumented'
  BY <1>1, <1>4, <1>5, <1>11 DEF LeavesAsDocumented, Kept
<1>14. OneDocument'
  <2> SUFFICES ASSUME command /= screen_cmd PROVE OneDocument'
    BY <1>1 DEF OneDocument
  <2>1. out' = <<x>> /\ Len(out') = 1
    BY <1>1, <1>3, <1>7, Written
  <2> QED BY <1>1, <1>6, <1>7, <2>1 DEF OneDocument, Fine
<1> QED BY <1>8, <1>9, <1>10, <1>11, <1>12, <1>13, <1>14 DEF FrontInv

\* What a command says of the machine where it writes its document.
LEMMA Saying ==
  ASSUME Ahead, Here.do \in {"emit", "verdict"}
  PROVE  /\ \/ Here.says = "none"
            \/ Here.says = "sampled" /\ Mode = "sampled" /\ After = "shown"
            \/ /\ Here.says \in Halts /\ Here.says = command.leaves
               /\ Mode = "settled" /\ After = "shown"
         /\ Here.do = "verdict" => Here.says = "none" /\ After = "shown"
<1> DEFINE d == Here.do
           s == Here.says
           m == Mode
           n == After
           l == command.leaves
           early == command = screen_cmd
<1>1. Turn(l, early, d, s, m, n)
  BY DEF Ahead
<1>2. Here \in StepType
  BY DEF Ahead
<1>3. s \in {"none", "data", "sampled", "stopped", "running"}
  BY <1>2 DEF StepType
<1>4. l \in Leaves
  BY DEF Ahead
<1>5. d \in {"emit", "verdict"}
  OBVIOUS
<1> HIDE DEF d, s, m, n, l, early
<1>6. \/ s = "none"
      \/ s = "sampled" /\ m = "sampled" /\ n = "shown"
      \/ s \in Halts /\ s = l /\ m = "settled" /\ n = "shown"
  BY <1>1, <1>3, <1>4, <1>5 DEF Turn, Leaves, Halts
<1>7. d = "verdict" => s = "none" /\ n = "shown"
  BY <1>1 DEF Turn
<1> QED BY <1>6, <1>7 DEF d, s, m, n, l

LEMMA EmitsKeeps ==
  ASSUME FrontInv, Emits
  PROVE  FrontInv'
<1>1. /\ exit = "none" /\ pos <= Len(command.steps) /\ Here.do \in {"emit", "verdict"} /\ Fine
      /\ out' = Append(out, "data")
      /\ claim' = (IF Here.says = "sampled" THEN before ELSE Here.says)
      /\ (exit' = exit \/ (exit' = "1" /\ Here.do = "verdict"))
      /\ pos' = pos + 1
      /\ link' = link /\ command' = command /\ open' = open /\ error' = error
      /\ before' = before /\ found' = found /\ hit' = hit /\ ran' = ran
      /\ processor' = processor /\ held' = held
  <2>1. PICK bad \in {FALSE, Here.do = "verdict"} : exit' = IF bad THEN "1" ELSE exit
    BY DEF Emits
  <2>2. exit' = exit \/ (exit' = "1" /\ Here.do = "verdict")
    <3>1. CASE bad = FALSE
      BY <2>1, <3>1
    <3>2. CASE bad = (Here.do = "verdict")
      BY <2>1, <3>2
    <3> QED BY <2>1, <3>1, <3>2
  <2>3. exit = "none" /\ pos <= Len(command.steps) /\ Here.do \in {"emit", "verdict"}
    BY DEF Emits, At
  <2> QED BY <2>2, <2>3 DEF Emits
<1>2. /\ FrontTypeOK /\ Placed /\ Coupled /\ Kept /\ Brought /\ Sampled /\ Documented
      /\ Ahead /\ Going /\ (open <=> Mode \in Inside) /\ open \in BOOLEAN
      /\ (command /= screen_cmd => out = <<>>)
  BY <1>1, Bearing
<1>3. /\ \/ Here.says = "none"
         \/ Here.says = "sampled" /\ Mode = "sampled" /\ After = "shown"
         \/ /\ Here.says \in Halts /\ Here.says = command.leaves
            /\ Mode = "settled" /\ After = "shown"
      /\ Here.do = "verdict" => Here.says = "none" /\ After = "shown"
  BY <1>1, <1>2, Saying
<1>4. /\ open <=> After \in Inside
      /\ Here.do = "verdict" => ~open
  <2>1. /\ Here.do = "emit" => (open <=> After \in Inside)
        /\ Here.do \in Outside => ~open
        /\ Here.do \in Outside \ {"open"} => After \in Closed
    BY <1>2, Standing
  <2>2. After \in Closed => After \notin Inside
    BY InsideIsNotClosed
  <2> QED BY <1>1, <2>1, <2>2 DEF Outside
<1>5. /\ After /= "sampled"
      /\ After \in {"settled", "changed", "shown"} =>
           Mode \in {"settled", "changed"} \/ command.leaves = "as found"
      /\ command /= screen_cmd => After = "shown"
  BY <1>1, <1>2, Turned DEF Lets, Parks
<1>6. /\ Mode' = After /\ Fine' /\ (Going' <=> exit' = "none")
  BY <1>1, <1>2 DEF Mode, After, Fine, Going
<1>7. before \in Halts \cup {"unknown"}
  BY <1>2 DEF FrontTypeOK
<1>8. /\ claim' \in Halts \cup {"none", "unknown"}
      /\ claim' /= "none" => After = "shown"
  BY <1>1, <1>3, <1>7
<1>9. FrontTypeOK'
  <2>1. pos' \in 1..(Len(command'.steps) + 1)
    BY <1>1, <1>2, Onward
  <2>2. out' \in Seq({"data", "error"})
    BY <1>1, <1>2, Written DEF FrontTypeOK
  <2>3. exit' \in {"none", "1"}
    BY <1>1
  <2> QED BY <1>1, <1>2, <1>8, <2>1, <2>2, <2>3, TypesStay
<1>10. Placed'
  <2>1. exit' /= "none" => ~open
    BY <1>1, <1>4
  <2> QED BY <1>1, <1>2, <1>4, <1>6, <2>1 DEF Placed
<1>11. Coupled' /\ Kept'
  BY <1>1, <1>2 DEF Coupled, Kept
<1>12. Brought'
  BY <1>1, <1>2, <1>5, <1>6 DEF Brought
<1>13. Sampled'
  BY <1>5, <1>6 DEF Sampled
<1>14. Claimed'
  <2>1. ASSUME link = "daemon", claim' \in Halts
        PROVE  processor' = CpuIn(claim') \/ hit'
    <3>1. claim' /= "none" /\ claim' /= "unknown"
      BY <2>1 DEF Halts
    <3>2. ~open
      BY <1>4, <1>8, <3>1 DEF Inside
    <3>3. processor = CpuIn(held) /\ held \in {"running", "stopped"}
      BY <1>2, <2>1, <3>2 DEF Coupled, FrontTypeOK, Halts
    <3>4. CASE Here.says = "sampled"
      <4>1. Mode = "sampled" /\ claim' = before
        BY <1>1, <1>3, <3>4 DEF Halts
      <4>2. /\ before = "stopped" => held = "stopped"
            /\ before = "running" => held = "running" \/ hit
        BY <1>1, <1>2, <2>1, <4>1 DEF Sampled
      <4> QED BY <1>1, <2>1, <3>3, <4>1, <4>2 DEF Halts
    <3>5. CASE Here.says /= "sampled"
      <4>1. /\ claim' = Here.says /\ Here.says = command.leaves /\ Mode = "settled"
        BY <1>1, <1>3, <3>1, <3>5
      <4>2. /\ command.leaves = "running" => held = "running" \/ hit
            /\ command.leaves = "stopped" => held = "stopped"
        BY <1>1, <1>2, <2>1, <4>1 DEF Brought
      <4> QED BY <1>1, <2>1, <3>3, <4>1, <4>2 DEF Halts
    <3> QED BY <3>4, <3>5
  <2>2. link' = "daemon" /\ error'.kind /= "Remote" =>
          CASE claim' \in Halts -> processor' = CpuIn(claim') \/ hit'
            [] claim' = "stopped throughout" -> ~ran'
            [] claim' = "running meanwhile" -> ran'
            [] OTHER -> TRUE
    BY <1>1, <1>8, <2>1 DEF Halts
  <2>3. claim' /= "none" => ~open' /\ Mode' = "shown"
    BY <1>1, <1>4, <1>6, <1>8 DEF Inside
  <2> QED BY <1>8, <2>2, <2>3 DEF Claimed
<1>15. Documented'
  <2>1. Append(<<>>, "data") = <<"data">>
    BY NothingOut, Written
  <2> QED BY <1>1, <1>2, <1>5, <1>6, <2>1 DEF Documented
<1>16. LeavesAsDocumented'
  <2>1. exit' /= "none" => exit' = "1" /\ ~open
    BY <1>1, <1>4
  <2> QED BY <1>1, <1>2, <2>1 DEF LeavesAsDocumented, Ended, Kept, Coupled
<1>17. OneDocument'
  <2> SUFFICES ASSUME command /= screen_cmd, exit' = "1" PROVE OneDocument'
    BY <1>1 DEF OneDocument, Ended
  <2>1. out' = <<"data">> /\ Len(out') = 1
    BY <1>1, <1>2, NothingOut, Written
  <2> QED BY <1>1, <2>1 DEF OneDocument, Fine
<1> QED BY <1>9, <1>10, <1>11, <1>12, <1>13, <1>14, <1>15, <1>16, <1>17 DEF FrontInv

LEMMA ReturnsKeeps ==
  ASSUME FrontInv, Returns
  PROVE  FrontInv'
<1>1. /\ exit = "none" /\ pos > Len(command.steps) /\ Fine
      /\ exit' = (IF command.front = "cli" THEN "0" ELSE "data")
      /\ link' = link /\ command' = command /\ pos' = pos /\ open' = open /\ error' = error
      /\ before' = before /\ found' = found /\ hit' = hit /\ ran' = ran
      /\ processor' = processor /\ held' = held /\ out' = out /\ claim' = claim
  BY DEF Returns, machine
<1>2. /\ FrontTypeOK /\ Placed /\ Coupled /\ Kept /\ Brought /\ Claimed /\ Documented
  BY DEF FrontInv
<1>3. command \in Commands /\ Going
  BY <1>1, <1>2 DEF Placed, Going
<1>4. Mode = "shown"
  <2>1. Len(command.steps) \in Nat /\ Plan(command)[Len(command.steps) + 1] = "shown"
    BY <1>3, PlanKeeps
  <2>2. pos \in 1..(Len(command.steps) + 1)
    BY <1>2 DEF FrontTypeOK
  <2>3. pos = Len(command.steps) + 1
    BY <1>1, <2>1, <2>2
  <2> QED BY <2>1, <2>3 DEF Mode
<1>5. ~open
  BY <1>1, <1>2, <1>3, <1>4 DEF Placed, Inside
<1>6. ~Going' /\ exit' \in {"0", "data"} /\ ~open'
  BY <1>1, <1>5 DEF Going
<1>7. FrontTypeOK'
  <2>1. /\ pos' \in 1..(Len(command.steps) + 1) /\ out' \in Seq({"data", "error"})
        /\ claim' \in Halts \cup {"none", "unknown", "stopped throughout", "running meanwhile",
                                   "guess"}
    BY <1>1, <1>2 DEF FrontTypeOK
  <2> QED BY <1>1, <1>2, <1>6, <2>1, TypesStay
<1>8. Placed' /\ Brought' /\ Sampled' /\ Documented'
  BY <1>6 DEF Placed, Brought, Sampled, Documented
<1>9. Coupled' /\ Kept'
  BY <1>1, <1>2 DEF Coupled, Kept
<1>10. Claimed'
  BY <1>1, <1>2, <1>6 DEF Claimed
<1>11. LeavesAsDocumented'
  <2> SUFFICES ASSUME link = "daemon" PROVE LeavesAsDocumented'
    BY <1>1 DEF LeavesAsDocumented
  <2>1. processor = CpuIn(held)
    BY <1>2, <1>5 DEF Coupled
  <2>2. /\ command.leaves = "as found" => held = (IF hit THEN "stopped" ELSE found)
        /\ command.leaves = "running" => held = "running" \/ hit
        /\ command.leaves = "stopped" => held = "stopped"
    BY <1>1, <1>2, <1>3, <1>4 DEF Kept, Brought
  <2> QED BY <1>1, <2>1, <2>2 DEF LeavesAsDocumented, CpuIn
<1>12. OneDocument'
  <2> SUFFICES ASSUME command /= screen_cmd PROVE OneDocument'
    BY <1>1 DEF OneDocument
  <2>1. out' = <<"data">>
    BY <1>1, <1>2, <1>3, <1>4 DEF Documented
  <2>2. Len(out') = 1
    BY <2>1
  <2> QED BY <1>1, <1>6, <2>1, <2>2 DEF OneDocument, Fine
<1> QED BY <1>7, <1>8, <1>9, <1>10, <1>11, <1>12 DEF FrontInv

LEMMA FailsKeeps ==
  ASSUME FrontInv, Fails
  PROVE  FrontInv'
<1> DEFINE reported == \/ command.front = "mcp" \/ error.caught \/ error.kind \in INPUT_ERRORS
<1>1. /\ exit = "none" /\ ~open /\ ~Fine
      /\ reported => /\ out' = Append(out, "error")
                     /\ exit' = IF command.front = "cli" THEN "1" ELSE "error"
      /\ ~reported => exit' = "traceback" /\ out' = out
      /\ link' = link /\ command' = command /\ pos' = pos /\ open' = open /\ error' = error
      /\ before' = before /\ found' = found /\ hit' = hit /\ ran' = ran
      /\ processor' = processor /\ held' = held /\ claim' = claim
  BY DEF Fails, machine
<1>2. /\ FrontTypeOK /\ Placed /\ Coupled /\ Kept /\ Claimed /\ Documented
  BY DEF FrontInv
<1>3. Going /\ command \in Commands
  BY <1>1, <1>2 DEF Placed, Going
<1>4. command.front \in {"cli", "mcp"}
  BY <1>3, PlanKeeps
<1>5. ~Going' /\ exit' \in {"1", "error", "traceback"} /\ ~open'
  BY <1>1 DEF Going
<1>6. FrontTypeOK'
  <2>1. out' \in Seq({"data", "error"})
    BY <1>1, <1>2, Written DEF FrontTypeOK
  <2>2. /\ pos' \in 1..(Len(command.steps) + 1)
        /\ claim' \in Halts \cup {"none", "unknown", "stopped throughout", "running meanwhile",
                                   "guess"}
    BY <1>1, <1>2 DEF FrontTypeOK
  <2> QED BY <1>1, <1>2, <1>5, <2>1, <2>2, TypesStay
<1>7. Placed' /\ Brought' /\ Sampled' /\ Documented'
  BY <1>5 DEF Placed, Brought, Sampled, Documented
<1>8. Coupled' /\ Kept'
  BY <1>1, <1>2 DEF Coupled, Kept
<1>9. Claimed'
  BY <1>1, <1>2, <1>5 DEF Claimed
<1>10. LeavesAsDocumented'
  BY <1>1, <1>2, <1>5 DEF LeavesAsDocumented, Coupled, Kept
<1>11. OneDocument'
  <2> SUFFICES ASSUME command /= screen_cmd, error.kind \notin RuntimeErrors \ INPUT_ERRORS
               PROVE  OneDocument'
    BY <1>1 DEF OneDocument
  <2>1. reported
    <3>1. command.front = "cli" => error.caught \/ error.kind \in INPUT_ERRORS \cup {"Zero", "Remote"}
      BY <1>1, <1>2, <1>3 DEF Documented, Reportable
    <3>2. {"Zero", "Remote"} \subseteq RuntimeErrors \ INPUT_ERRORS
      BY DEF RuntimeErrors, INPUT_ERRORS
    <3> QED BY <1>4, <3>1, <3>2
  <2>2. out = <<>>
    BY <1>1, <1>2, <1>3 DEF Documented
  <2>3. out' = <<"error">> /\ Len(out') = 1 /\ exit' \in {"1", "error"}
    BY <1>1, <2>1, <2>2, NothingOut, Written
  <2> QED BY <1>1, <2>3 DEF OneDocument
<1> QED BY <1>6, <1>7, <1>8, <1>9, <1>10, <1>11 DEF FrontInv

LEMMA Smallest ==
  ASSUME NEW T, T \subseteq Nat, T # {}
  PROVE  \E x \in T : \A y \in T : x <= y
<1>1. PICK x \in T : \A y \in T : ~(<<y, x>> \in OpToRel(<, Nat))
  BY WFMin, NatLessThanWellFounded
<1>2. \A y \in T : ~(y < x)
  BY <1>1 DEF OpToRel
<1> QED BY <1>2

\* The finally or the close that an exception inside a bracket runs into: it
\* is the bracket's own, for the bracket closes before another one opens.
Unwound == CHOOSE i \in DOMAIN command.steps :
             /\ Unwinds(i)
             /\ \A j \in DOMAIN command.steps : Unwinds(j) => i <= j

LEMMA Unwinding ==
  ASSUME Ahead, Mode \in Inside, Here.do /= "close"
  PROVE  Unwound \in 1..Len(command.steps) /\ Plan(command)[Unwound] \in Inside
<1> DEFINE s == command.steps
           m == Plan(command)
           n == Len(s)
           T == {j \in pos..n : m[j + 1] \notin Inside}
           U == {i \in 1..n : Unwinds(i)}
<1>1. /\ pos \in Nat /\ pos >= 1 /\ pos <= n /\ n \in Nat /\ command \in Commands
  BY DEF Ahead
<1>2. /\ s \in Seq(StepType) /\ Course(Way(command), s, m) /\ m[n + 1] = "shown"
  BY <1>1, PlanKeeps
<1>3. DOMAIN s = 1..n
  BY <1>2
<1>4. m[pos] \in Inside /\ s[pos].do /= "close"
  BY DEF Mode, Here
<1>5. \A i \in 1..n :
        Turn(Way(command).leaves, Way(command).early, s[i].do, s[i].says, m[i], m[i + 1])
  BY <1>2 DEF Course
<1> HIDE DEF m, s, n
<1>6. PICK j \in T : \A k \in T : j <= k
  <2>1. n \in T
    BY <1>1, <1>2 DEF Inside
  <2>2. T \subseteq Nat
    BY <1>1
  <2> HIDE DEF T
  <2> QED BY <2>1, <2>2, Smallest
<1>7. j \in Nat /\ pos <= j /\ j <= n /\ m[j + 1] \notin Inside /\ j \in 1..n
  BY <1>1, <1>6
<1>8. \A k \in (pos + 1)..j : m[k] \in Inside
  <2> SUFFICES ASSUME NEW k \in (pos + 1)..j PROVE m[k] \in Inside
    OBVIOUS
  <2>1. k - 1 \in pos..n /\ ~(j <= k - 1) /\ (k - 1) + 1 = k
    BY <1>1, <1>7
  <2>2. k - 1 \notin T
    BY <1>6, <2>1
  <2> QED BY <2>1, <2>2
<1>9. m[j] \in Inside
  <2>1. CASE j = pos
    BY <1>4, <2>1
  <2>2. CASE j /= pos
    <3>1. j \in (pos + 1)..j
      BY <1>1, <1>7, <2>2
    <3> QED BY <1>8, <3>1
  <2> QED BY <2>1, <2>2
<1>10. s[j].do = "close"
  <2>1. Turn(Way(command).leaves, Way(command).early, s[j].do, s[j].says, m[j], m[j + 1])
    BY <1>5, <1>7
  <2>2. Ready(Way(command).leaves) \in {"begin", "settled"}
    BY DEF Ready
  <2> QED BY <1>7, <1>9, <2>1, <2>2 DEF Turn, Inside
<1>11. j > pos
  <2>1. j /= pos
    BY <1>4, <1>10
  <2> QED BY <1>1, <1>7, <2>1
<1>12. j \in U
  BY <1>7, <1>10, <1>11 DEF Unwinds, s
<1>13. PICK i \in U : \A k \in U : i <= k
  <2>1. U \subseteq Nat
    BY <1>1
  <2> HIDE DEF U
  <2> QED BY <1>12, <2>1, Smallest
<1>14. \E q \in DOMAIN command.steps :
          Unwinds(q) /\ \A k \in DOMAIN command.steps : Unwinds(k) => q <= k
  BY <1>3, <1>13 DEF s
<1>15. /\ Unwound \in 1..n /\ Unwinds(Unwound)
       /\ \A k \in 1..n : Unwinds(k) => Unwound <= k
  BY <1>3, <1>14 DEF s, Unwound
<1>16. Unwound \in Nat /\ Unwound > pos /\ Unwound <= j
  <2>1. Unwound > pos
    BY <1>15 DEF Unwinds
  <2>2. j \in 1..n /\ Unwinds(j)
    BY <1>12
  <2>3. Unwound <= j
    BY <1>15, <2>2
  <2> QED BY <1>1, <1>15, <2>1, <2>3
<1>17. Unwound \in (pos + 1)..j
  BY <1>1, <1>7, <1>16
<1>18. m[Unwound] \in Inside
  BY <1>8, <1>17
<1> QED BY <1>15, <1>18 DEF m, n, s

\* What a step raises is known, and reported even where the body's own
\* handlers do not take it.
LEMMA Raising ==
  ASSUME Ahead, link \in {"daemon", "direct"}, NEW k \in Raises
  PROVE  /\ k \in Kinds /\ k /= "none"
         /\ command.front = "cli" => k \in Here.by \/ k \in Reportable
         /\ Here.do \notin {"close", "emit", "verdict"}
         /\ Here.says = "stopped" => Here.do = "loop"
         /\ Here.says = "stopped" /\ k \in RuntimeErrors => k \in {"Zero", "Remote"}
<1> DEFINE d == Here.do
           can == Here.can
           by == Here.by
<1>1. /\ Here \in StepType /\ Careful(command.front, Here)
      /\ command.front \in {"cli", "mcp"}
  BY DEF Ahead
<1>2. can \subseteq Kinds
  BY <1>1 DEF StepType
<1>3. /\ command.front = "mcp" \/ can \subseteq by \cup Reportable
      /\ d \in {"close", "emit", "verdict"} => can = {}
      /\ Here.says /= "none" => d \in {"emit", "loop"}
      /\ d = "loop" /\ Here.says = "stopped" => can \subseteq {"Zero", "Value"}
  BY <1>1 DEF Careful
<1>4. /\ k \in can \cup Faults \cup Unopened \cup {"Session", "Remote"}
      /\ d \in {"close", "emit", "verdict"} => k \in can
      /\ d = "loop" => k \in can \cup Faults \cup Unopened
  <2>1. CASE d = "open"
    BY <2>1 DEF Raises
  <2>2. CASE d \in {"ask", "halt", "resume", "finally release", "finally resume"}
    BY <2>2 DEF Raises
  <2>3. CASE d \in {"look", "loop", "poll", "log"}
    BY <2>3 DEF Raises
  <2>4. CASE d \in {"sample", "timed out"}
    BY <2>4 DEF Raises
  <2>5. CASE d \notin {"open", "ask", "halt", "resume", "finally release", "finally resume",
                       "look", "loop", "poll", "log", "sample", "timed out"}
    BY <2>5 DEF Raises
  <2> QED BY <2>1, <2>2, <2>3, <2>4, <2>5
<1> HIDE DEF d, can, by
<1>5. /\ "none" \notin Kinds /\ Faults \subseteq Kinds /\ Unopened \subseteq Kinds
      /\ Faults \subseteq Reportable /\ Unopened \subseteq Reportable
      /\ "Audio" \notin Faults \cup Unopened
  BY KindsAreNone
<1>6. {"Session", "Remote"} \subseteq Kinds \cap Reportable
  BY DEF Kinds, Reportable, INPUT_ERRORS, RuntimeErrors
<1>7. k \in Kinds /\ k /= "none"
  BY <1>2, <1>4, <1>5, <1>6
<1>8. command.front = "cli" => k \in by \/ k \in Reportable
  BY <1>3, <1>4, <1>5, <1>6
<1>9. d \notin {"close", "emit", "verdict"}
  BY <1>3, <1>4
<1>10. Here.says = "stopped" => d = "loop"
  BY <1>3, <1>9
<1>11. Here.says = "stopped" /\ k \in RuntimeErrors => k \in {"Zero", "Remote"}
  BY <1>3, <1>4, <1>5, <1>10 DEF RuntimeErrors
<1> QED BY <1>7, <1>8, <1>9, <1>10, <1>11 DEF d, by

LEMMA RaiseKeeps ==
  ASSUME FrontInv, Raise
  PROVE  FrontInv'
<1>1. /\ exit = "none" /\ pos <= Len(command.steps) /\ (Fine \/ open) /\ Moves(FALSE)
      /\ error'.kind = "Zero" => processor' = "halted"
      /\ pos' = (IF open THEN Unwound ELSE Len(command.steps) + 1)
      /\ claim' = (IF Here.says = "stopped" /\ error'.kind \in RuntimeErrors
                   THEN "stopped" ELSE claim)
      /\ link' = link /\ command' = command /\ open' = open /\ before' = before
      /\ found' = found /\ hit' = hit /\ ran' = ran /\ out' = out /\ exit' = exit
  BY DEF Raise, Unwound
<1>2. PICK k \in Raises : error' = [kind |-> k, caught |-> k \in Here.by]
  BY DEF Raise
<1>3. error'.kind = k /\ error'.caught = (k \in Here.by)
  BY <1>2
<1>4. /\ FrontTypeOK /\ Placed /\ Coupled /\ Kept /\ Documented
      /\ Ahead /\ Going /\ (open <=> Mode \in Inside) /\ open \in BOOLEAN
      /\ claim = "none" /\ (command /= screen_cmd => out = <<>>)
  BY <1>1, Bearing
<1>5. link \in {"daemon", "direct"}
  BY <1>4 DEF FrontTypeOK
<1>6. /\ k \in Kinds /\ k /= "none"
      /\ command.front = "cli" => k \in Here.by \/ k \in Reportable
      /\ Here.do \notin {"close", "emit", "verdict"}
      /\ Here.says = "stopped" => Here.do = "loop"
      /\ Here.says = "stopped" /\ k \in RuntimeErrors => k \in {"Zero", "Remote"}
  BY <1>4, <1>5, Raising
<1>7. /\ processor' \in {"running", "halted"} /\ held' \in Halts
      /\ link = "daemon" =>
           /\ held' = "stopped" => processor' = "halted"
           /\ ~open => processor' = CpuIn(held')
           /\ Here.do \notin Lets \cup Parks => held' = held
  BY <1>1, <1>4, Moved
<1>8. ~Fine' /\ Going'
  BY <1>1, <1>3, <1>6 DEF Fine, Going
<1>9. \/ claim' = "none"
      \/ claim' = "stopped" /\ ~open /\ (k /= "Remote" => processor' = "halted")
  <2>1. Here.do = "loop" => ~open
    BY <1>4, Standing DEF Outside
  <2> QED BY <1>1, <1>3, <1>4, <1>6, <2>1
<1>10. FrontTypeOK'
  <2>1. pos' \in 1..(Len(command'.steps) + 1)
    <3>1. CASE open
      <4>1. Unwound \in 1..Len(command.steps) /\ Len(command.steps) \in Nat
        BY <1>4, <1>6, <3>1, Unwinding DEF Ahead
      <4>2. Unwound \in 1..(Len(command.steps) + 1)
        BY <4>1
      <4> QED BY <1>1, <3>1, <4>2
    <3>2. CASE ~open
      BY <1>1, <1>4, <3>2, Onward
    <3> QED BY <3>1, <3>2
  <2>2. error'.caught \in BOOLEAN
    BY <1>3
  <2>3. claim' \in {"none", "stopped"}
    BY <1>9
  <2> QED BY <1>1, <1>3, <1>4, <1>6, <1>7, <2>1, <2>2, <2>3 DEF FrontTypeOK, Halts
<1>11. Placed'
  <2>1. open => Mode' \in Inside
    <3> SUFFICES ASSUME open PROVE Mode' \in Inside
      OBVIOUS
    <3>1. Plan(command)[Unwound] \in Inside
      BY <1>4, <1>6, Unwinding
    <3> QED BY <1>1, <3>1 DEF Mode
  <2> QED BY <1>1, <1>4, <1>8, <2>1 DEF Placed
<1>12. Coupled'
  BY <1>1, <1>7 DEF Coupled
<1>13. Kept'
  <2> SUFFICES ASSUME link = "daemon", command.leaves = "as found"
               PROVE  held' = IF hit THEN "stopped" ELSE found
    BY <1>1 DEF Kept
  <2>1. Here.do \notin Lets \cup Parks
    BY <1>4, Turned
  <2>2. held' = held
    BY <1>7, <2>1
  <2> QED BY <1>4, <2>2 DEF Kept
<1>14. Brought' /\ Sampled'
  BY <1>8 DEF Brought, Sampled
<1>15. Claimed'
  <2>1. CASE claim' = "none"
    BY <2>1 DEF Claimed, Halts
  <2>2. CASE claim' = "stopped" /\ ~open /\ (k /= "Remote" => processor' = "halted")
    BY <1>1, <1>3, <1>8, <2>2 DEF Claimed, Halts, CpuIn
  <2> QED BY <1>9, <2>1, <2>2
<1>16. Documented'
  <2>1. command.front = "cli" => error'.caught \/ error'.kind \in Reportable
    BY <1>3, <1>6
  <2> QED BY <1>1, <1>4, <1>8, <2>1 DEF Documented
<1>17. LeavesAsDocumented' /\ OneDocument'
  BY <1>1 DEF LeavesAsDocumented, OneDocument, Ended
<1> QED BY <1>10, <1>11, <1>12, <1>13, <1>14, <1>15, <1>16, <1>17 DEF FrontInv

-----------------------------------------------------------------------------
(* The theorems.                                                             *)

LEMMA FrontStep ==
  ASSUME FrontInv, [FrontNext]_frontVars
  PROVE  FrontInv'
<1>1. CASE FrontNext
  BY <1>1, InvokeKeeps, HitKeeps, PassKeeps, RaiseKeeps, GivesUpKeeps, SampleKeeps, PollKeeps,
     TimedOutKeeps, EmitsKeeps, ReturnsKeeps, FailsKeeps DEF FrontNext
<1>2. CASE UNCHANGED frontVars
  <2>1. /\ link' = link /\ command' = command /\ pos' = pos /\ open' = open /\ error' = error
        /\ before' = before /\ found' = found /\ ran' = ran
        /\ processor' = processor /\ held' = held /\ hit' = hit
        /\ out' = out /\ claim' = claim /\ exit' = exit
    BY <1>2 DEF frontVars, machine, report
  <2>2. Mode' = Mode /\ (Fine' <=> Fine) /\ (Going' <=> Going)
    BY <2>1 DEF Mode, Fine, Going
  <2>3. FrontTypeOK'
    <3>1. FrontTypeOK
      BY DEF FrontInv
    <3>2. /\ pos' \in 1..(Len(command.steps) + 1) /\ out' \in Seq({"data", "error"})
          /\ claim' \in Halts \cup {"none", "unknown", "stopped throughout",
                                     "running meanwhile", "guess"}
          /\ exit' \in {"none", "0", "1", "data", "error", "traceback"}
      BY <2>1, <3>1 DEF FrontTypeOK
    <3> QED BY <2>1, <3>1, <3>2, TypesStay
  <2>4. Placed' /\ Coupled' /\ Kept'
    BY <2>1, <2>2 DEF FrontInv, Placed, Coupled, Kept
  <2>5. Brought' /\ Sampled'
    BY <2>1, <2>2 DEF FrontInv, Brought, Sampled
  <2>6. Claimed' /\ Documented'
    BY <2>1, <2>2 DEF FrontInv, Claimed, Documented
  <2>7. LeavesAsDocumented' /\ OneDocument'
    BY <2>1 DEF FrontInv, LeavesAsDocumented, OneDocument, Ended
  <2> QED BY <2>3, <2>4, <2>5, <2>6, <2>7 DEF FrontInv
<1> QED BY <1>1, <1>2

\* Of every command of the roster, over either link, whatever fails and
\* whenever the program runs into a checkpoint: a monitor is open exactly
\* inside the command's brackets until it is closed, the daemon's state and
\* the CPU's agree outside of them, and what is claimed and written keeps pace
\* with what has been done.
THEOREM FrontInvariance == FrontSpec => []FrontInv
<1>1. FrontInit => FrontInv
  BY FrontInitHolds
<1>2. FrontInv /\ [FrontNext]_frontVars => FrontInv'
  BY FrontStep
<1> QED BY <1>1, <1>2, PTL DEF FrontSpec

\* cli.py, mcp_server.py: over a daemon, an inspection leaves the machine as
\* it was, done or failed, and a command that lets it go or halts it, done,
\* leaves it so.
THEOREM MachineLeftAsDocumented == FrontSpec => []LeavesAsDocumented
<1>1. FrontInv => LeavesAsDocumented
  BY DEF FrontInv
<1> QED BY <1>1, FrontInvariance, PTL

\* emit, _emit_stopped_regs, _wait_verdict, machine_state: over a daemon, the
\* last document does not say running of a machine that is halted, nor halted
\* of one that runs, but for a checkpoint hit since.
THEOREM ReportsAreTrue == FrontSpec => []ReportIsTrue
<1>1. FrontInv => ReportIsTrue
  BY DEF FrontInv, Claimed, ReportIsTrue
<1> QED BY <1>1, FrontInvariance, PTL

\* JsonAwareGroup.invoke, emit, fail: a command ends with one document, an
\* error document if it failed, and an exit code that agrees.
THEOREM OneDocumentEach == FrontSpec => []OneDocument
<1>1. FrontInv => OneDocument
  BY DEF FrontInv
<1> QED BY <1>1, FrontInvariance, PTL

-----------------------------------------------------------------------------
(* The loops: the invariant.                                                 *)

\* Where a loop over arrivals, and one over frames, stands.
OfArrivals == {"arm", "start", "wait", "list", "again", "abort", "taken", "finish", "letgo"}
OfFrames == {"frame", "lastframe"}

\* Which side runs the loop, and whose answer sends it to the other.
SideInv ==
  /\ side \in {"none", "client", "daemon"}
  /\ op /= "hold" => begun = IF side = "none" THEN {} ELSE {side}
  /\ side = "client" => op = "call" \/ ~daemon.knows
  /\ pc \in OfArrivals \cup OfFrames => side /= "none"
  /\ pc = "ask" => side = "none"
  /\ pc = "reply" /\ FallsBack => side = "none" /\ ~daemon.knows

\* The loops' places and the operations they are for.
OpInv ==
  /\ pc \in {"press", "letgo"} => op = "hold"
  /\ pc \in OfArrivals => op /= "sidlog"
  /\ pc \in OfFrames => op = "sidlog"

\* The blocks of a log carry what has been written to the chip so far.
LogInv ==
  op = "sidlog" =>
    /\ opts.aim \in Nat
    /\ blocks \in Seq(BOOLEAN)
    /\ chip \in BOOLEAN /\ (chip <=> opts.aim < Len(blocks))
    /\ \A k \in DOMAIN blocks : blocks[k] <=> k > opts.aim

\* Nothing is armed and nothing counted that the loop has not taken.
Unarmed == ~armed /\ hits = taken

\* The machine at each place of a loop over arrivals: it stands at the trap
\* with one hit more than are taken, and the event tells or has come after the
\* slice, or it has not come there.
CountInv ==
  /\ taken \in Nat /\ hits \in Nat
  /\ pc \in {"press", "ask", "arm"} => Unarmed
  /\ pc = "reply" /\ FallsBack => Unarmed
  /\ pc \in {"start", "again"} => cpu = "halted" /\ hits = taken
  /\ pc \in {"wait", "list"} =>
       \/ cpu /= "halted" /\ hits = taken /\ ~event
       \/ cpu = "halted" /\ place = "trap" /\ hits = taken + 1 /\ event
  /\ pc = "taken" => cpu = "halted" /\ place = "trap" /\ hits = taken + 1
  /\ pc = "finish" => cpu = "halted" /\ place = "trap" /\ hits = taken
  /\ pc \in OfFrames => ~armed

\* The daemon knows of a stop, or an event tells _restore of it.
StopKnown == state = "stopped" \/ event

\* An arrival that a command's own loop has taken, the daemon knows of or will;
\* a profile has stopped its timers.
TakenInv ==
  /\ pc \in {"taken", "finish"} /\ side = "client" => StopKnown
  /\ pc = "finish" /\ op = "profile" => timers = "stopped"

\* A machine left running, and nothing that would stop it.
LeftRunning == cpu = "running" /\ state = "running" /\ ~event

\* What a loop has left when it is over.
EndInv ==
  /\ pc = "letgo" => outcome = "expired" /\ ~armed /\ LeftRunning
  /\ pc = "over" /\ outcome = "expired" =>
       ~armed /\ LeftRunning /\ (op = "hold" /\ opts.release => ~key)
  /\ pc = "over" /\ outcome = "fired" =>
       /\ ~armed
       /\ op = "sidlog" => LeftRunning
       /\ op /= "sidlog" => cpu = "halted" /\ StopKnown /\ place = "trap"
       /\ op = "profile" => timers = "stopped" /\ (opts.masked => iflag = entryI)

\* The inductive invariant.
LoopsInv == SideInv /\ OpInv /\ LogInv /\ CountInv /\ TakenInv /\ EndInv /\ EndsAsPromised

-----------------------------------------------------------------------------
(* The loops: the conjuncts one by one.                                      *)

LEMMA LoopsInit == Init => LoopsInv
<1> SUFFICES ASSUME Init PROVE LoopsInv
  OBVIOUS
<1>1. SideInv /\ OpInv /\ CountInv /\ TakenInv /\ EndInv
  BY DEF Init, SideInv, OpInv, CountInv, Unarmed, TakenInv, EndInv, FallsBack, OfArrivals, OfFrames
<1>2. LogInv /\ EndsAsPromised
  BY DEF Init, LogInv, EndsAsPromised
<1>3. QED
  BY <1>1, <1>2 DEF LoopsInv

\* The actions: the machine and the hands at it, the command and its calls, a
\* loop over arrivals, one over frames.
Around == Arrives \/ Scan \/ Clear
Calls == Press \/ Ask \/ Answered \/ LetGo \/ Over
ArrivalSteps ==
  \/ Arm \/ Start \/ WaitSees \/ WaitSlice \/ List
  \/ Again \/ Abort \/ Expires \/ Takes \/ Finish
FrameSteps == Frame \/ FramesOver
Ends == Breaks \/ Interrupt
Begins == \E o \in Operations : Begin(o)

LEMMA NextIs == Next => Around \/ Calls \/ ArrivalSteps \/ FrameSteps \/ Ends \/ Begins
BY DEF Next, Around, Calls, ArrivalSteps, FrameSteps, Ends, Begins

LEMMA SideInvStep ==
  ASSUME LoopsInv, Next
  PROVE  SideInv'
<1>0. SideInv /\ OpInv /\ LogInv /\ CountInv /\ TakenInv /\ EndInv /\ EndsAsPromised
  BY DEF LoopsInv
<1>1. CASE Around
  BY <1>0, <1>1 DEF Around, Arrives, Scan, Clear, SideInv, FallsBack, loopVars
<1>2. CASE Calls
  BY <1>0, <1>2 DEF Calls, Press, Ask, Answered, LetGo, Over, SideInv, FallsBack, OfArrivals,
     OfFrames, loopVars, FirstStep, NoReply, OpInv
<1>3. CASE ArrivalSteps
  BY <1>0, <1>3 DEF ArrivalSteps, Arm, Start, WaitSees, WaitSlice, List, Again, Abort, Expires,
     Takes, Finish, SideInv, OfArrivals, loopVars
<1>4. CASE FrameSteps
  BY <1>0, <1>4 DEF FrameSteps, Frame, FramesOver, SideInv, OfFrames, loopVars
<1>5. CASE Ends
  BY <1>0, <1>5 DEF Ends, Breaks, Interrupt, SideInv, FallsBack, OfArrivals, OfFrames, NoReply
<1>6. CASE Begins
  BY <1>0, <1>6 DEF Begins, Begin, SideInv, OfArrivals, OfFrames
<1>7. QED
  BY <1>1, <1>2, <1>3, <1>4, <1>5, <1>6, NextIs

LEMMA OpInvStep ==
  ASSUME LoopsInv, Next
  PROVE  OpInv'
<1>0. SideInv /\ OpInv /\ LogInv /\ CountInv /\ TakenInv /\ EndInv /\ EndsAsPromised
  BY DEF LoopsInv
<1>1. CASE Around
  BY <1>0, <1>1 DEF Around, Arrives, Scan, Clear, OpInv, loopVars
<1>2. CASE Calls
  BY <1>0, <1>2 DEF Calls, Press, Ask, Answered, LetGo, Over, OpInv, OfArrivals, OfFrames,
     loopVars, FirstStep
<1>3. CASE ArrivalSteps
  BY <1>0, <1>3 DEF ArrivalSteps, Arm, Start, WaitSees, WaitSlice, List, Again, Abort, Expires,
     Takes, Finish, OpInv, OfArrivals, OfFrames, loopVars
<1>4. CASE FrameSteps
  BY <1>0, <1>4 DEF FrameSteps, Frame, FramesOver, OpInv, OfArrivals, OfFrames
<1>5. CASE Ends
  BY <1>0, <1>5 DEF Ends, Breaks, Interrupt, OpInv, OfArrivals, OfFrames
<1>6. CASE Begins
  BY <1>0, <1>6 DEF Begins, Begin, OpInv, OfArrivals, OfFrames
<1>7. QED
  BY <1>1, <1>2, <1>3, <1>4, <1>5, <1>6, NextIs

LEMMA LogInvStep ==
  ASSUME LoopsInv, Next
  PROVE  LogInv'
<1>0. SideInv /\ OpInv /\ LogInv /\ CountInv /\ TakenInv /\ EndInv /\ EndsAsPromised
  BY DEF LoopsInv
<1>1. CASE Around
  BY <1>0, <1>1 DEF Around, Arrives, Scan, Clear, LogInv, loopVars, chipVars
<1>2. CASE Calls
  BY <1>0, <1>2 DEF Calls, Press, Ask, Answered, LetGo, Over, LogInv, loopVars, chipVars
<1>3. CASE ArrivalSteps
  BY <1>0, <1>3 DEF ArrivalSteps, Arm, Start, WaitSees, WaitSlice, List, Again, Abort, Expires,
     Takes, Finish, LogInv, loopVars, chipVars
<1>4. CASE FrameSteps
  <2>1. CASE Frame /\ op = "sidlog"
    <3>1. /\ opts' = opts /\ op' = op /\ blocks' = Append(blocks, chip')
          /\ chip' = (chip \/ opts.aim = Len(blocks))
      BY <2>1 DEF Frame
    <3>2. opts.aim \in Nat /\ blocks \in Seq(BOOLEAN) /\ Len(blocks) \in Nat
      BY <1>0, <2>1 DEF LogInv
    <3>3. chip <=> opts.aim < Len(blocks)
      BY <1>0, <2>1 DEF LogInv
    <3>4. chip' \in BOOLEAN /\ (chip' <=> opts.aim < Len(blocks) + 1)
      <4>1. chip' \in BOOLEAN /\ (chip' <=> chip \/ opts.aim = Len(blocks))
        BY <3>1, Zenon
      <4>2. chip \/ opts.aim = Len(blocks) <=> opts.aim < Len(blocks) + 1
        BY <3>2, <3>3
      <4>3. QED
        BY <4>1, <4>2
    <3>5. /\ blocks' \in Seq(BOOLEAN) /\ Len(blocks') = Len(blocks) + 1
          /\ DOMAIN blocks' = 1..(Len(blocks) + 1) /\ DOMAIN blocks = 1..Len(blocks)
          /\ blocks'[Len(blocks) + 1] = chip'
          /\ \A k \in 1..Len(blocks) : blocks'[k] = blocks[k]
      BY <3>1, <3>2, <3>4
    <3>6. ASSUME NEW k \in DOMAIN blocks'
          PROVE  blocks'[k] <=> k > opts.aim
      <4>1. CASE k = Len(blocks) + 1
        <5>1. blocks'[k] = chip'
          BY <3>5, <4>1
        <5>2. k > opts.aim <=> opts.aim < Len(blocks) + 1
          BY <3>2, <4>1
        <5>3. QED
          BY <3>4, <5>1, <5>2
      <4>2. CASE k \in 1..Len(blocks)
        BY <1>0, <2>1, <3>5, <4>2 DEF LogInv
      <4>3. QED
        BY <3>2, <3>5, <3>6, <4>1, <4>2
    <3>7. chip' <=> opts.aim < Len(blocks')
      BY <3>4, <3>5
    <3>8. QED
      BY <3>1, <3>2, <3>4, <3>5, <3>6, <3>7 DEF LogInv
  <2>2. CASE Frame /\ op /= "sidlog"
    BY <2>2 DEF Frame, LogInv
  <2>3. CASE FramesOver
    BY <1>0, <2>3 DEF FramesOver, LogInv, loopVars, chipVars
  <2>4. QED
    BY <1>4, <2>1, <2>2, <2>3 DEF FrameSteps
<1>5. CASE Ends
  BY <1>0, <1>5 DEF Ends, Breaks, Interrupt, LogInv, chipVars
<1>6. CASE Begins
  <2>1. PICK o \in Operations : Begin(o)
    BY <1>6 DEF Begins
  <2>2. op' = o /\ blocks' = <<>> /\ chip' = FALSE
    BY <2>1 DEF Begin
  <2>3. CASE o = "sidlog"
    <3>1. opts'.aim \in 0..Frames - 1
      BY <2>1, <2>3 DEF Begin
    <3>2. opts'.aim \in Nat
      BY <3>1, LoopAssumption
    <3>3. blocks' \in Seq(BOOLEAN) /\ Len(blocks') = 0 /\ DOMAIN blocks' = {}
      BY <2>2
    <3>4. chip' \in BOOLEAN /\ (chip' <=> opts'.aim < Len(blocks'))
      <4>1. chip' \in BOOLEAN /\ ~chip'
        BY <2>2
      <4>2. ~(opts'.aim < Len(blocks'))
        BY <3>2, <3>3
      <4>3. QED
        BY <4>1, <4>2
    <3>5. QED
      BY <3>2, <3>3, <3>4 DEF LogInv
  <2>4. QED
    BY <2>2, <2>3 DEF LogInv
<1>7. QED
  BY <1>1, <1>2, <1>3, <1>4, <1>5, <1>6, NextIs

LEMMA CountInvStep ==
  ASSUME LoopsInv, Next
  PROVE  CountInv'
<1>0. SideInv /\ OpInv /\ LogInv /\ CountInv /\ TakenInv /\ EndInv /\ EndsAsPromised
  BY DEF LoopsInv
<1>1. CASE Around
  BY <1>0, <1>1 DEF Around, Arrives, Scan, Clear, CountInv, Unarmed, FallsBack, loopVars, cpuVars
<1>2. CASE Calls
  BY <1>0, <1>2 DEF Calls, Press, Ask, Answered, LetGo, Over, CountInv, Unarmed, OfFrames,
     loopVars, cpuVars, FirstStep, EndInv
<1>3. CASE ArrivalSteps
  <2>1. CASE Arm \/ Start
    BY <1>0, <2>1 DEF Arm, Start, CountInv, Unarmed, OfFrames, loopVars, Resumes
  <2>2. CASE WaitSlice
    BY <1>0, <2>2 DEF WaitSlice, CountInv, OfFrames, loopVars, cpuVars
  <2>3. CASE WaitSees
    BY <1>0, <2>3 DEF WaitSees, CountInv, OfFrames, loopVars
  <2>4. CASE List
    BY <1>0, <2>4 DEF List, CountInv, OfFrames, loopVars, cpuVars, Arrived
  <2>5. CASE Again \/ Abort \/ Expires
    BY <1>0, <2>5 DEF Again, Abort, Expires, CountInv, OfFrames, loopVars, Resumes
  <2>6. CASE Takes
    BY <1>0, <2>6 DEF Takes, CountInv, OfFrames, cpuVars
  <2>7. CASE Finish
    BY <1>0, <2>7 DEF Finish, CountInv, loopVars
  <2>8. QED
    BY <1>3, <2>1, <2>2, <2>3, <2>4, <2>5, <2>6, <2>7 DEF ArrivalSteps
<1>4. CASE FrameSteps
  BY <1>0, <1>4 DEF FrameSteps, Frame, FramesOver, CountInv, OfFrames, loopVars
<1>5. CASE Ends
  BY <1>0, <1>5 DEF Ends, Breaks, Interrupt, CountInv, Unarmed, FallsBack, OfFrames, cpuVars,
     NoReply
<1>6. CASE Begins
  BY <1>0, <1>6 DEF Begins, Begin, CountInv, Unarmed
<1>7. QED
  BY <1>1, <1>2, <1>3, <1>4, <1>5, <1>6, NextIs

LEMMA TakenInvStep ==
  ASSUME LoopsInv, Next
  PROVE  TakenInv'
<1>0. SideInv /\ OpInv /\ LogInv /\ CountInv /\ TakenInv /\ EndInv /\ EndsAsPromised
  BY DEF LoopsInv
<1>1. CASE Around
  BY <1>0, <1>1 DEF Around, Arrives, Scan, Clear, TakenInv, StopKnown, loopVars, cpuVars, chipVars
<1>2. CASE Calls
  BY <1>0, <1>2 DEF Calls, Press, Ask, Answered, LetGo, Over, TakenInv, FirstStep
<1>3. CASE ArrivalSteps
  <2>1. CASE Arm \/ Start \/ WaitSlice \/ WaitSees
    BY <1>0, <2>1 DEF Arm, Start, WaitSlice, WaitSees, TakenInv, StopKnown, loopVars
  <2>2. CASE List
    BY <1>0, <2>2 DEF List, TakenInv, StopKnown, CountInv, Arrived, loopVars
  <2>3. CASE Again \/ Abort \/ Expires
    BY <1>0, <2>3 DEF Again, Abort, Expires, TakenInv
  <2>4. CASE Takes
    BY <1>0, <2>4 DEF Takes, TakenInv, StopKnown, cpuVars
  <2>5. CASE Finish
    BY <1>0, <2>5 DEF Finish, TakenInv
  <2>6. QED
    BY <1>3, <2>1, <2>2, <2>3, <2>4, <2>5 DEF ArrivalSteps
<1>4. CASE FrameSteps
  BY <1>0, <1>4 DEF FrameSteps, Frame, FramesOver, TakenInv
<1>5. CASE Ends
  BY <1>0, <1>5 DEF Ends, Breaks, Interrupt, TakenInv, chipVars
<1>6. CASE Begins
  BY <1>0, <1>6 DEF Begins, Begin, TakenInv
<1>7. QED
  BY <1>1, <1>2, <1>3, <1>4, <1>5, <1>6, NextIs

LEMMA EndInvStep ==
  ASSUME LoopsInv, Next
  PROVE  EndInv'
<1>0. SideInv /\ OpInv /\ LogInv /\ CountInv /\ TakenInv /\ EndInv /\ EndsAsPromised
  BY DEF LoopsInv
<1>1. CASE Around
  BY <1>0, <1>1 DEF Around, Arrives, Scan, Clear, EndInv, StopKnown, LeftRunning, loopVars, cpuVars
<1>2. CASE Calls
  BY <1>0, <1>2 DEF Calls, Press, Ask, Answered, LetGo, Over, EndInv, StopKnown, LeftRunning,
     cpuVars, FirstStep
<1>3. CASE ArrivalSteps
  <2>1. CASE Expires
    BY <1>0, <2>1 DEF Expires, EndInv, LeftRunning, loopVars, chipVars, Resumes, OpInv, OfArrivals
  <2>2. CASE Finish
    BY <1>0, <2>2 DEF Finish, EndInv, StopKnown, loopVars, CountInv, TakenInv, SideInv, OpInv,
       OfArrivals
  <2>3. CASE ~(Expires \/ Finish)
    BY <1>3, <2>3 DEF ArrivalSteps, Arm, Start, WaitSees, WaitSlice, List, Again, Abort, Takes, EndInv
  <2>4. QED
    BY <2>1, <2>2, <2>3
<1>4. CASE FrameSteps
  BY <1>0, <1>4 DEF FrameSteps, Frame, FramesOver, EndInv, LeftRunning, loopVars, Resumes, OpInv,
     CountInv, OfFrames
<1>5. CASE Ends
  BY <1>0, <1>5 DEF Ends, Breaks, Interrupt, EndInv, StopKnown, LeftRunning, cpuVars
<1>6. CASE Begins
  BY <1>0, <1>6 DEF Begins, Begin, EndInv
<1>7. QED
  BY <1>1, <1>2, <1>3, <1>4, <1>5, <1>6, NextIs

LEMMA EndsAsPromisedStep ==
  ASSUME LoopsInv, Next
  PROVE  EndsAsPromised'
<1>0. SideInv /\ OpInv /\ LogInv /\ CountInv /\ TakenInv /\ EndInv /\ EndsAsPromised
  BY DEF LoopsInv
<1>1. CASE Around
  BY <1>0, <1>1 DEF Around, Arrives, Scan, Clear, EndsAsPromised, loopVars, cpuVars
<1>2. CASE Calls
  BY <1>0, <1>2 DEF Calls, Press, Ask, Answered, LetGo, Over, EndsAsPromised, loopVars, cpuVars,
     chipVars, Resumes, EndInv, StopKnown, LeftRunning, FirstStep, OpInv
<1>3. CASE ArrivalSteps
  BY <1>0, <1>3 DEF ArrivalSteps, Arm, Start, WaitSees, WaitSlice, List, Again, Abort, Expires,
     Takes, Finish, EndsAsPromised
<1>4. CASE FrameSteps
  BY <1>0, <1>4 DEF FrameSteps, Frame, FramesOver, EndsAsPromised
<1>5. CASE Ends
  BY <1>0, <1>5 DEF Ends, Breaks, Interrupt, EndsAsPromised
<1>6. CASE Begins
  BY <1>0, <1>6 DEF Begins, Begin, EndsAsPromised
<1>7. QED
  BY <1>1, <1>2, <1>3, <1>4, <1>5, <1>6, NextIs

LEMMA LoopsStep ==
  ASSUME LoopsInv, [Next]_vars
  PROVE  LoopsInv'
<1>1. CASE Next
  BY <1>1, SideInvStep, OpInvStep, LogInvStep, CountInvStep, TakenInvStep, EndInvStep,
     EndsAsPromisedStep DEF LoopsInv
<1>2. CASE UNCHANGED vars
  <2>1. SideInv' /\ OpInv' /\ CountInv' /\ TakenInv'
    BY <1>2 DEF vars, loopVars, cpuVars, chipVars, LoopsInv, SideInv, OpInv, CountInv, TakenInv,
       StopKnown, FallsBack, Unarmed
  <2>2. LogInv' /\ EndInv' /\ EndsAsPromised'
    BY <1>2 DEF vars, loopVars, cpuVars, chipVars, LoopsInv, LogInv, EndInv, EndsAsPromised,
       StopKnown, LeftRunning
  <2>3. QED
    BY <2>1, <2>2 DEF LoopsInv
<1>3. QED
  BY <1>1, <1>2

-----------------------------------------------------------------------------
(* The theorems.                                                             *)

\* What the sides, the counts and the machine have to do with one another at
\* each place of a loop, and what it leaves.
THEOREM LoopsInvariance == Spec => []LoopsInv
<1>1. QED
  BY LoopsInit, LoopsStep, PTL DEF Spec

\* The fallback of ops.py and audio.py on an unknown method never repeats what
\* the daemon has begun, nor does what it has refused.
THEOREM NothingTwice == Spec => []WorkOnce
<1>1. LoopsInv => WorkOnce
  <2> SUFFICES ASSUME LoopsInv PROVE WorkOnce
    OBVIOUS
  <2>1. SideInv
    BY DEF LoopsInv
  <2>2. QED
    BY <2>1 DEF SideInv, WorkOnce
<1>2. QED
  BY <1>1, LoopsInvariance, PTL

\* Each arrival is taken once, by its event or by hit_count, and each block of a
\* SID log has what was scheduled up to its frame.
THEOREM OwnArrivals == Spec => []TakesItsOwn
<1>1. LoopsInv => TakesItsOwn
  <2> SUFFICES ASSUME LoopsInv PROVE TakesItsOwn
    OBVIOUS
  <2>1. LogInv /\ CountInv
    BY DEF LoopsInv
  <2>2. QED
    BY <2>1 DEF LogInv, CountInv, TakesItsOwn
<1>2. QED
  BY <1>1, LoopsInvariance, PTL

\* What call, profile, until, hold and the SID log leave when they end as asked
\* or run out of time, whichever side ran them.
THEOREM PromisesKept == Spec => []EndsAsPromised
<1>1. LoopsInv => EndsAsPromised
  BY DEF LoopsInv
<1>2. QED
  BY <1>1, LoopsInvariance, PTL

-----------------------------------------------------------------------------
(* The loops: the types, by the groups of variables.                         *)

AskedType ==
  /\ daemon \in [knows : BOOLEAN, codes : BOOLEAN] /\ op \in Operations \cup {"none"}
  /\ opts \in [masked : BOOLEAN, aim : 0..Frames - 1, sane : BOOLEAN, release : BOOLEAN]
  /\ reply \in Replies

PlaceType ==
  /\ side \in {"none", "client", "daemon"} /\ begun \subseteq {"client", "daemon"}
  /\ pc \in {"idle", "ask", "reply", "press", "arm", "start", "wait", "list", "again",
             "abort", "taken", "finish", "frame", "lastframe", "letgo", "over"}
  /\ entryI \in BOOLEAN /\ gone \in BOOLEAN
  /\ outcome \in {"none", "fired", "expired", "refused", "broken", "gone"}

CpuType ==
  /\ cpu \in {"running", "halted"} /\ place \in {"program", "routine", "trap", "lost"}
  /\ armed \in BOOLEAN /\ event \in BOOLEAN /\ state \in {"running", "stopped"}
  /\ iflag \in BOOLEAN /\ timers \in {"free", "counting", "stopped"}
  /\ chip \in BOOLEAN /\ key \in BOOLEAN

\* There is room for one more arrival wherever one may still be taken.
Room ==
  (\/ pc \in {"press", "ask", "arm", "start", "wait", "list", "again", "taken"}
   \/ pc = "reply" /\ FallsBack)
    => taken < Count

CountType ==
  /\ taken \in 0..Count /\ hits \in 0..(Count + 1)
  /\ blocks \in Seq(BOOLEAN) /\ Len(blocks) <= Frames
  /\ Room

LoopsTyped == AskedType /\ PlaceType /\ CpuType /\ CountType

LEMMA AskedStep ==
  ASSUME AskedType, Next
  PROVE  AskedType'
<1>1. daemon' = daemon
  BY DEF Next, Arrives, Scan, Clear, Begin, Press, Ask, Answered, Arm, Start, WaitSees, WaitSlice,
         List, Again, Abort, Expires, Takes, Finish, Frame, FramesOver, Breaks, Interrupt, LetGo, Over
<1>2. CASE \E o \in Operations : Begin(o)
  <2>1. PICK o \in Operations : Begin(o)
    BY <1>2
  <2>2. /\ op' = o /\ reply' = NoReply
        /\ opts' \in [masked : {FALSE, o = "profile"},
                      aim : IF o = "sidlog" THEN 0..Frames - 1 ELSE {0},
                      sane : {TRUE, o /= "sidlog"}, release : {TRUE, o /= "hold"}]
    BY <2>1 DEF Begin
  <2>3. /\ {FALSE, o = "profile"} \subseteq BOOLEAN /\ {TRUE, o /= "sidlog"} \subseteq BOOLEAN
        /\ {TRUE, o /= "hold"} \subseteq BOOLEAN
    BY Zenon
  <2>4. (IF o = "sidlog" THEN 0..Frames - 1 ELSE {0}) \subseteq 0..Frames - 1
    BY LoopAssumption
  <2>5. opts' \in [masked : BOOLEAN, aim : 0..Frames - 1, sane : BOOLEAN, release : BOOLEAN]
    BY <2>2, <2>3, <2>4
  <2>6. NoReply \in Replies
    BY DEF NoReply, Replies
  <2> QED BY <1>1, <2>2, <2>5, <2>6 DEF AskedType
<1>3. CASE Ask \/ Breaks
  <2>1. op' = op /\ opts' = opts
    BY <1>3 DEF Ask, Breaks
  <2>2. UnknownMethod \in Replies /\ [NoReply EXCEPT !.err = "ValueError"] \in Replies
        /\ [NoReply EXCEPT !.err = "TimeoutError"] \in Replies
    BY DEF UnknownMethod, NoReply, Replies
  <2>3. reply' \in {reply, UnknownMethod, [NoReply EXCEPT !.err = "ValueError"],
                    [NoReply EXCEPT !.err = "TimeoutError"]}
    BY <1>3 DEF Ask, Breaks
  <2> QED BY <1>1, <2>1, <2>2, <2>3 DEF AskedType
<1>4. CASE ~(\E o \in Operations : Begin(o)) /\ ~Ask /\ ~Breaks
  <2>1. op' = op /\ opts' = opts /\ reply' = reply
    BY <1>4 DEF Next, Arrives, Scan, Clear, Press, Answered, Arm, Start, WaitSees, WaitSlice,
         List, Again, Abort, Expires, Takes, Finish, Frame, FramesOver, Interrupt, LetGo, Over,
         loopVars
  <2> QED BY <1>1, <2>1 DEF AskedType
<1> QED BY <1>2, <1>3, <1>4

LEMMA PlaceStep ==
  ASSUME PlaceType, CpuType, Next
  PROVE  PlaceType'
<1>1. side' \in {"none", "client", "daemon"} /\ begun' \subseteq {"client", "daemon"}
  BY DEF PlaceType, Next, Arrives, Scan, Clear, Begin, Press, Ask, Answered, Arm, Start, WaitSees,
         WaitSlice, List, Again, Abort, Expires, Takes, Finish, Frame, FramesOver, Breaks,
         Interrupt, LetGo, Over, loopVars
<1>2. entryI' \in BOOLEAN /\ gone' \in BOOLEAN
  BY DEF PlaceType, CpuType, Next, Arrives, Scan, Clear, Begin, Press, Ask, Answered, Arm, Start,
         WaitSees, WaitSlice, List, Again, Abort, Expires, Takes, Finish, Frame, FramesOver, Breaks,
         Interrupt, LetGo, Over, loopVars
<1>3. outcome' \in {"none", "fired", "expired", "refused", "broken", "gone"}
  BY DEF PlaceType, Next, Arrives, Scan, Clear, Begin, Press, Ask, Answered, Arm, Start, WaitSees,
         WaitSlice, List, Again, Abort, Expires, Takes, Finish, Frame, FramesOver, Breaks,
         Interrupt, LetGo, Over
<1>4. pc' \in {"idle", "ask", "reply", "press", "arm", "start", "wait", "list", "again",
               "abort", "taken", "finish", "frame", "lastframe", "letgo", "over"}
  BY DEF PlaceType, Next, Arrives, Scan, Clear, Begin, Press, Ask, Answered, Arm, Start, WaitSees,
         WaitSlice, List, Again, Abort, Expires, Takes, Finish, Frame, FramesOver, Breaks,
         Interrupt, LetGo, Over, FirstStep
<1> QED BY <1>1, <1>2, <1>3, <1>4 DEF PlaceType

LEMMA CpuStep ==
  ASSUME CpuType, PlaceType, CountType, Next
  PROVE  CpuType'
<1>1. cpu' \in {"running", "halted"} /\ state' \in {"running", "stopped"}
  BY DEF CpuType, Next, Arrives, Scan, Clear, Begin, Press, Ask, Answered, Arm, Start, WaitSees,
         WaitSlice, List, Again, Abort, Expires, Takes, Finish, Frame, FramesOver, Breaks,
         Interrupt, LetGo, Over, Resumes, cpuVars
<1>2. place' \in {"program", "routine", "trap", "lost"}
  BY DEF CpuType, Next, Arrives, Scan, Clear, Begin, Press, Ask, Answered, Arm, Start, WaitSees,
         WaitSlice, List, Again, Abort, Expires, Takes, Finish, Frame, FramesOver, Breaks,
         Interrupt, LetGo, Over, Resumes, cpuVars
<1>3. armed' \in BOOLEAN /\ event' \in BOOLEAN
  BY DEF CpuType, Next, Arrives, Scan, Clear, Begin, Press, Ask, Answered, Arm, Start, WaitSees,
         WaitSlice, List, Again, Abort, Expires, Takes, Finish, Frame, FramesOver, Breaks,
         Interrupt, LetGo, Over, Resumes, cpuVars
<1>4. timers' \in {"free", "counting", "stopped"} /\ iflag' \in BOOLEAN
  BY DEF CpuType, PlaceType, Next, Arrives, Scan, Clear, Begin, Press, Ask, Answered, Arm, Start,
         WaitSees, WaitSlice, List, Again, Abort, Expires, Takes, Finish, Frame, FramesOver, Breaks,
         Interrupt, LetGo, Over, chipVars
<1>5. chip' \in BOOLEAN
  BY DEF CpuType, Next, Arrives, Scan, Clear, Begin, Press, Ask, Answered, Arm, Start,
         WaitSees, WaitSlice, List, Again, Abort, Expires, Takes, Finish, Frame, FramesOver, Breaks,
         Interrupt, LetGo, Over, chipVars
<1>6. key' \in BOOLEAN
  BY DEF CpuType, Next, Arrives, Scan, Clear, Begin, Press, Ask, Answered, Arm, Start,
         WaitSees, WaitSlice, List, Again, Abort, Expires, Takes, Finish, Frame, FramesOver, Breaks,
         Interrupt, LetGo, Over, chipVars
<1> QED BY <1>1, <1>2, <1>3, <1>4, <1>5, <1>6 DEF CpuType

LEMMA CountStep ==
  ASSUME CountType, CpuType, Next
  PROVE  CountType'
<1>1. Count \in Nat /\ Count > 0 /\ Frames \in Nat /\ taken \in Nat /\ taken <= Count
      /\ hits \in Nat /\ hits <= Count + 1
  BY LoopAssumption DEF CountType
<1>2. blocks' \in Seq(BOOLEAN) /\ Len(blocks') <= Frames
  <2>1. CASE Frame
    <3>1. chip' \in BOOLEAN /\ blocks' = Append(blocks, chip') /\ Len(blocks) < Frames
      BY <2>1 DEF Frame, CpuType
    <3>2. blocks' \in Seq(BOOLEAN) /\ Len(blocks') = Len(blocks) + 1 /\ Len(blocks) \in Nat
      BY <3>1 DEF CountType
    <3> QED BY <1>1, <3>1, <3>2
  <2>2. CASE ~Frame
    <3>1. blocks' \in {blocks, <<>>}
      BY <2>2 DEF Next, Arrives, Scan, Clear, Begin, Press, Ask, Answered, Arm, Start, WaitSees,
         WaitSlice, List, Again, Abort, Expires, Takes, Finish, FramesOver, Breaks,
         Interrupt, LetGo, Over, loopVars
    <3>2. CASE blocks' = blocks
      BY <3>2 DEF CountType
    <3>3. CASE blocks' = <<>>
      <4>1. <<>> \in Seq(BOOLEAN) /\ Len(<<>>) = 0
        OBVIOUS
      <4> QED BY <1>1, <3>3, <4>1
    <3> QED BY <3>1, <3>2, <3>3
  <2> QED BY <2>1, <2>2
<1>3. taken' \in 0..Count /\ Room'
  <2>1. CASE Takes
    <3>1. taken < Count /\ taken' = taken + 1
      BY <2>1 DEF Takes, CountType, Room
    <3>2. pc' = "finish" \/ (pc' = "start" /\ taken + 1 /= Count)
      <4>1. PICK zero \in {FALSE, op = "profile"} :
              pc' = IF op \in {"call", "hold"} \/ zero \/ taken + 1 = Count
                    THEN "finish" ELSE "start"
        BY <2>1, Zenon DEF Takes
      <4> QED BY <4>1, Zenon
    <3> QED BY <1>1, <3>1, <3>2 DEF Room
  <2>2. CASE \E o \in Operations : Begin(o)
    <3>1. taken' = 0
      BY <2>2 DEF Begin
    <3> QED BY <1>1, <3>1 DEF Room
  <2>3. CASE ~Takes /\ ~\E o \in Operations : Begin(o)
    <3>1. taken' = taken
      BY <2>3 DEF Next, Arrives, Scan, Clear, Press, Ask, Answered, Arm, Start, WaitSees,
         WaitSlice, List, Again, Abort, Expires, Finish, Frame, FramesOver, Breaks,
         Interrupt, LetGo, Over, loopVars
    <3>2. Room'
      <4>1. CASE Ask \/ Answered \/ Press
        BY <3>1, <4>1 DEF Ask, Answered, Press, CountType, Room, FallsBack, FirstStep
      <4>2. CASE Breaks
        <5>1. pc' = "over" \/ (pc' = "reply" /\ ~FallsBack')
          BY <4>2 DEF Breaks, FallsBack, NoReply
        <5> QED BY <5>1 DEF Room
      <4>3. CASE Over
        BY <3>1, <4>3 DEF Over, Room
      <4>4. CASE ~Ask /\ ~Answered /\ ~Press /\ ~Breaks /\ ~Over
        BY <2>3, <3>1, <4>4 DEF Next, Arrives, Scan, Clear, Arm, Start, WaitSees,
         WaitSlice, List, Again, Abort, Expires, Finish, Frame, FramesOver,
         Interrupt, LetGo, CountType, Room, loopVars, FallsBack
      <4> QED BY <4>1, <4>2, <4>3, <4>4
    <3> QED BY <1>1, <3>1, <3>2
  <2> QED BY <2>1, <2>2, <2>3
<1>4. hits' \in 0..(Count + 1)
  <2>1. hits' \in {hits, 0, taken} \/ (hits <= Count /\ hits' = hits + 1)
    BY DEF Next, Arrives, Scan, Clear, Begin, Press, Ask, Answered, Arm, Start, WaitSees,
         WaitSlice, List, Again, Abort, Expires, Takes, Finish, Frame, FramesOver, Breaks,
         Interrupt, LetGo, Over, cpuVars
  <2> QED BY <1>1, <2>1
<1> QED BY <1>2, <1>3, <1>4 DEF CountType

LEMMA LoopsTypedInit ==
  ASSUME Init
  PROVE  LoopsTyped
<1>1. [masked |-> FALSE, aim |-> 0, sane |-> TRUE, release |-> TRUE] \in
        [masked : BOOLEAN, aim : 0..Frames - 1, sane : BOOLEAN, release : BOOLEAN]
  BY LoopAssumption
<1>2. AskedType
  BY <1>1 DEF Init, AskedType, NoReply, Replies
<1>3. PlaceType /\ CpuType
  BY DEF Init, PlaceType, CpuType
<1>4. CountType
  BY LoopAssumption DEF Init, CountType, Room
<1> QED BY <1>2, <1>3, <1>4 DEF LoopsTyped

\* Type correctness of the loops: no loop takes more arrivals than were asked
\* of it, and no log has more blocks than frames.
THEOREM LoopsTypeCorrect == Spec => []TypeOK
<1>1. Init => LoopsTyped
  BY LoopsTypedInit
<1>2. LoopsTyped /\ [Next]_vars => LoopsTyped'
  <2> SUFFICES ASSUME LoopsTyped, [Next]_vars PROVE LoopsTyped'
    OBVIOUS
  <2>1. CASE Next
    BY <2>1, AskedStep, PlaceStep, CpuStep, CountStep DEF LoopsTyped
  <2>2. CASE UNCHANGED vars
    <3>1. AskedType' /\ PlaceType' /\ CpuType'
      BY <2>2 DEF LoopsTyped, AskedType, PlaceType, CpuType, vars, loopVars, cpuVars, chipVars
    <3>2. CountType'
      BY <2>2 DEF LoopsTyped, CountType, Room, FallsBack, vars, loopVars, cpuVars
    <3> QED BY <3>1, <3>2 DEF LoopsTyped
  <2> QED BY <2>1, <2>2
<1>3. LoopsTyped => TypeOK
  BY DEF LoopsTyped, AskedType, PlaceType, CpuType, CountType, TypeOK
<1> QED BY <1>1, <1>2, <1>3, PTL DEF Spec
=============================================================================
