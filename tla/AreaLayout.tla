------------------------------ MODULE AreaLayout ------------------------------
(***************************************************************************)
(* `--area NAME=START:SIZE`: which lists of areas parse_areas (ops.py)     *)
(* accepts, the linker configuration that linker_config (build.py) makes   *)
(* of them, the flat .prg that ld65 links with it, and where the KERNAL    *)
(* loads it.  Addresses are scaled: BASIC_START, MAIN_END and TOP stand    *)
(* for $0801, $A000 and $10000.  A name is a word and the letters it is    *)
(* written in, which ld65 tells apart.                                     *)
(***************************************************************************)
EXTENDS Integers, Sequences, SequencesExt, FiniteSets

CONSTANTS
  BASIC_START,  \* the load address of a program
  MAIN_END,     \* the end of MAIN when there are no areas
  TOP           \* the end of the address space

ASSUME AddressAssumption ==
  /\ BASIC_START \in Nat /\ MAIN_END \in Nat /\ TOP \in Nat
  /\ BASIC_START < MAIN_END /\ MAIN_END < TOP

InCapitals(words) == [word : words, letters : {"capitals"}]
MAIN == [word |-> "MAIN", letters |-> "capitals"]

\* name.upper()
upper(name) == [name EXCEPT !.letters = "capitals"]

\* What the configuration defines of its own: memory areas, then segments.
ConfigNames ==
  InCapitals({"ZP", "HEADER", "MAIN"}
             \cup {"ZEROPAGE", "LOADADDR", "EXEHDR", "CODE", "RODATA", "DATA", "BSS"})

\* Mutant of RESERVED_AREA_NAMES: the segments are forgotten.
RESERVED_AREA_NAMES_Memory == InCapitals({"ZP", "HEADER", "MAIN"})

RESERVED_AREA_NAMES ==
  InCapitals({"ZP", "HEADER", "MAIN", "ZEROPAGE", "LOADADDR", "EXEHDR",
              "CODE", "RODATA", "DATA", "BSS"})

End(a) == a.start + a.size

\* What is wrong with an area, and with its name for those ahead of it.
Unusable(values, i) ==
  LET a == values[i]
  IN  \/ upper(a.name) \in RESERVED_AREA_NAMES
      \/ \E j \in 1..(i - 1) : values[j].name = a.name
      \/ a.size <= 0
      \/ a.start <= BASIC_START
      \/ End(a) > TOP

\* The areas by their starts; equal ones stay in their order.
Ahead(values, i, j) ==
  \/ values[i].start < values[j].start
  \/ values[i].start = values[j].start /\ i < j

Sorted(values) ==
  LET order == CHOOSE p \in Bijection(DOMAIN values, DOMAIN values) :
                 \A i, j \in DOMAIN values : i < j => Ahead(values, p[i], p[j])
  IN  [i \in DOMAIN values |-> values[order[i]]]

\* Mutant of Meet: a gap between two areas is let through.
Meet_Gap(below, above) == End(below) <= above.start

\* Neither an overlap nor a gap.
Meet(below, above) == End(below) = above.start

parse_areas(values) ==
  IF \E i \in DOMAIN values : Unusable(values, i) THEN [ok |-> FALSE, areas |-> <<>>]
  ELSE LET areas == Sorted(values)
       IN  IF \A i \in 1..(Len(areas) - 1) : Meet(areas[i], areas[i + 1])
           THEN [ok |-> TRUE, areas |-> areas]
           ELSE [ok |-> FALSE, areas |-> <<>>]

\* The memory areas of the configuration, in the order of the file: MAIN, which
\* stops where the first area starts, and the areas; all but the last are
\* filled, and nothing is when there are no areas.
linker_config(areas) ==
  LET last == Len(areas)
      main == [name |-> MAIN, start |-> BASIC_START,
               size |-> (IF areas = <<>> THEN MAIN_END ELSE areas[1].start) - BASIC_START,
               fill |-> areas # <<>>]
  IN  <<main>> \o [i \in DOMAIN areas |->
                     [name |-> areas[i].name, start |-> areas[i].start,
                      size |-> areas[i].size, fill |-> i < last]]

-----------------------------------------------------------------------------
(* ld65 and the KERNAL: external.                                          *)

Byte(name, i) == [of |-> name, i |-> i]
Fill == Byte(MAIN, 0)

\* A segment that does not fit.  needs gives the size of that of each area.
Overflows(config, needs) == \E i \in DOMAIN config : needs[i] > config[i].size

\* What ld65 accepts: names that differ from one another and from those of the
\* rest of the configuration, sizes that are positive, segments that fit.
Links(config, needs) ==
  /\ \A i, j \in DOMAIN config : config[i].name = config[j].name => i = j
  /\ \A i \in 2..Len(config) : config[i].name \notin ConfigNames
  /\ \A i \in DOMAIN config : config[i].size > 0
  /\ ~Overflows(config, needs)

\* The flat file: one memory area after the other.
ld65(config, needs) ==
  FlattenSeq([i \in DOMAIN config |->
    [b \in 1..(IF config[i].fill THEN config[i].size ELSE needs[i]) |->
       IF b <= needs[i] THEN Byte(config[i].name, b) ELSE Fill]])

\* Every segment is where its area says, and all of it in memory.
Lands(config, needs) ==
  LET file == ld65(config, needs)
  IN  \A i \in DOMAIN config : \A b \in 1..needs[i] :
        LET at == config[i].start + b - BASIC_START
        IN  /\ at \in DOMAIN file /\ file[at] = Byte(config[i].name, b)
            /\ config[i].start + b <= TOP
=============================================================================
