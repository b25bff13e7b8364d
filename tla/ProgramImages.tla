----------------------------- MODULE ProgramImages -----------------------------
(***************************************************************************)
(* What the builders make, put to the machine: a program linked with areas *)
(* is loaded, a program wrapped into a cartridge (wrap_prg of              *)
(* cart_build.py) is copied down by its launcher and started, the banks of *)
(* an EasyFlash cartridge are read back.  A behaviour is one build.        *)
(*                                                                         *)
(* The launcher is the 6502 program _LAUNCHER, a byte a step: whole pages, *)
(* then the odd bytes.  Its addresses are scaled as well: a page is PAGE   *)
(* bytes, and ROML to CHIPS are the bounds of what is mapped over the RAM. *)
(***************************************************************************)
EXTENDS AreaLayout, EasyFlashImage

CONSTANTS
  PAGE,            \* the size of a page, $100
  SCRATCH,         \* the launcher's own memory ends here: the stack, $FB-$FE
  ROML, ROMH, FREE, IO, KERNAL,  \* $8000, $A000, $C000, $D000, $E000
  LAUNCHER_BYTES,  \* what wrap_prg reserves for the launcher
  AreaJobs,        \* [values |-> areas asked for, needs |-> sizes of the segments]
  WrapJobs,        \* [load, size, basic, type]: a .prg and a cartridge type
  BankJobs         \* manifests

ASSUME MapAssumption ==
  /\ PAGE \in Nat \ {0} /\ SCRATCH \in Nat /\ LAUNCHER_BYTES \in Nat
  /\ {ROML, ROMH, FREE, IO, KERNAL} \subseteq Nat
  /\ SCRATCH < BASIC_START /\ BASIC_START < ROML
  /\ ROML < ROMH /\ ROMH < FREE /\ FREE < IO /\ IO < KERNAL /\ KERNAL < TOP

\* A .prg has a load address of 16 bits; a bank has each of its windows once.
ASSUME JobsAssumption ==
  /\ \A j \in AreaJobs :
       /\ j.values \in Seq([name : [word : STRING, letters : STRING], start : Int, size : Int])
       /\ j.needs \in [1..(Len(j.values) + 1) -> Nat]
  /\ WrapJobs \subseteq
       [load : 0..(TOP - 1), size : Nat, basic : BOOLEAN, type : {"8k", "16k", "ultimax"}]
  /\ \A m \in BankJobs :
       /\ m \in Seq([bank : Int, key : {"int", "string"}, window : Range(EF_WINDOWS),
                     linked : BOOLEAN, size : Nat, tail : BOOLEAN, strays : BOOLEAN])
       /\ \A i, j \in DOMAIN m :
            m[i].bank = m[j].bank /\ m[i].key = m[j].key /\ m[i].window = m[j].window => i = j

VARIABLES
  build,   \* what is built
  phase,   \* the step of the build, or of the machine
  x, y,    \* the launcher's registers
  from, to,\* its pointers
  ram      \* the memory that the copy reaches: the byte of the program in it

regs == <<x, y, from, to>>
imagesVars == <<build, phase, regs, ram>>

ImagesInit ==
  /\ \/ build \in [kind : {"areas"}, spec : AreaJobs]
     \/ build \in [kind : {"wrap"}, spec : WrapJobs]
     \/ build \in [kind : {"banks"}, spec : BankJobs]
  /\ phase = "begin" /\ x = 0 /\ y = 0 /\ from = 0 /\ to = 0
  /\ ram = [a \in 0..(TOP - 1) |-> 0]

Ends(step) == phase' = step /\ UNCHANGED <<build, regs, ram>>

-----------------------------------------------------------------------------
(* c64 build, with areas.                                                  *)

Config == linker_config(parse_areas(build.spec.values).areas)

Links_areas ==
  /\ phase = "begin" /\ build.kind = "areas"
  /\ Ends(IF ~parse_areas(build.spec.values).ok THEN "refused"
          ELSE IF Links(Config, build.spec.needs) THEN "loaded" ELSE "link error")

-----------------------------------------------------------------------------
(* Wrapping a program into a cartridge.                                    *)

load == build.spec.load
size == build.spec.size
prog_end == load + size

\* How many bytes a cartridge maps from ROML on.
image_bytes == IF build.spec.type = "16k" THEN FREE - ROML ELSE ROMH - ROML
win_end == ROML + image_bytes - 1

\* _wrap_kind: a line of BASIC at the BASIC start.
_wrap_kind == IF load = BASIC_START /\ build.spec.basic THEN "basic" ELSE "ml"

_WRAP_NO_COPY == {<<ROMH, FREE - 1>>, <<IO, KERNAL - 1>>, <<KERNAL, TOP - 1>>}

Overlaps(lo, hi) == load <= hi /\ prog_end > lo

Misplaced == Overlaps(ROML, win_end) \/ \E r \in _WRAP_NO_COPY : Overlaps(r[1], r[2])

wrap_prg ==
  /\ phase = "begin" /\ build.kind = "wrap"
  /\ IF \/ build.spec.type = "ultimax"
        \/ size = 0
        \/ _wrap_kind = "basic" /\ build.spec.type = "16k"
        \/ Misplaced
        \/ size + LAUNCHER_BYTES > image_bytes
     THEN Ends("refused")
     ELSE /\ x' = size \div PAGE /\ y' = 0 /\ from' = 0 /\ to' = load
          /\ phase' = IF x' = 0 THEN "tail" ELSE "page"
          /\ UNCHANGED <<build, ram>>

\* A byte is copied: the low byte of a pointer does not change, y runs ahead.
Copies == ram' = [ram EXCEPT ![(to + y) % TOP] = from + y + 1]

_page ==
  /\ phase = "page" /\ Copies
  /\ y' = (y + 1) % PAGE
  /\ IF y' # 0 THEN UNCHANGED <<phase, x, from, to>>
     ELSE /\ from' = from + PAGE /\ to' = to + PAGE /\ x' = x - 1
          /\ phase' = IF x' = 0 THEN "tail" ELSE "page"
  /\ UNCHANGED build

\* Mutant of Odd: the copy is rounded up to a page.
Odd_Page == IF size % PAGE = 0 THEN 0 ELSE PAGE

\* How far the last page is to be copied.
Odd == size % PAGE

_tail ==
  /\ phase = "tail" /\ y # Odd
  /\ Copies /\ y' = y + 1
  /\ UNCHANGED <<build, phase, x, from, to>>

_copied == phase = "tail" /\ y = Odd /\ Ends("started")

-----------------------------------------------------------------------------
(* An EasyFlash cartridge.                                                 *)

Banked(m) == {m[i] : i \in DOMAIN m}
crt == cartconv(build_easyflash(build.spec))

build_banks ==
  /\ phase = "begin" /\ build.kind = "banks"
  /\ Ends(IF load_manifest(build.spec) /\ \A e \in Banked(build.spec) : Fits(e)
          THEN "flashed" ELSE "refused")

ImagesNext == Links_areas \/ wrap_prg \/ _page \/ _tail \/ _copied \/ build_banks

ImagesSpec == ImagesInit /\ [][ImagesNext]_imagesVars

-----------------------------------------------------------------------------
(* What must hold.                                                         *)

\* The list would have linked and landed, for a program that uses all of its
\* areas.
WouldLand(values) ==
  LET config == linker_config(Sorted(values))
      full   == [i \in DOMAIN config |-> IF i = 1 THEN 1 ELSE config[i].size]
  IN  Links(config, full) /\ Lands(config, full)

\* A name that is one of the configuration's own but for its letters.
NearlyReserved(name) == upper(name) \in ConfigNames /\ name \notin ConfigNames

\* An accepted list of areas links unless the program is too large for it, and
\* every segment is then where it was asked for; a refused one would not have
\* linked and landed, unless one of its names is reserved in other letters.
AreasLand ==
  /\ phase = "loaded" => Lands(Config, build.spec.needs)
  /\ phase = "link error" => Overflows(Config, build.spec.needs)
  /\ phase = "refused" /\ build.kind = "areas" =>
       \/ ~WouldLand(build.spec.values)
       \/ \E i \in DOMAIN build.spec.values : NearlyReserved(build.spec.values[i].name)

\* docstring of parse_areas: "Every rejection here is one ld65 would either
\* accept and mis-link, or reject".  Its names are case-sensitive: main=$C000:$100
\* is refused although it links and lands, so this does not hold.
RefusalsAreNeeded ==
  phase = "refused" /\ build.kind = "areas" => ~WouldLand(build.spec.values)

Program == load..(prog_end - 1)

\* What a read of the CPU sees while the launcher runs and after it.
Mapped(a) == a \in ROML..win_end \/ a \in ROMH..(FREE - 1) \/ a \in IO..(TOP - 1)

\* A wrapped program is there, whole and readable, when the launcher starts it;
\* nothing else has been written, no register of a chip, and the interpreter
\* that a BASIC program needs is not hidden.  A program that is refused for its
\* place has a byte that could not be copied or read.  Programs that load over
\* the launcher's own stack and pointers are accepted, and not told of here.
WrapBoots ==
  /\ phase = "started" /\ load > SCRATCH =>
       /\ \A i \in 1..size : ram[load + i - 1] = i
       /\ \A a \in DOMAIN ram \ Program : ram[a] = 0
       /\ \A a \in Program : ~Mapped(a)
       /\ _wrap_kind = "basic" => win_end < ROMH
  /\ phase = "refused" /\ build.kind = "wrap" /\ size > 0 /\ Misplaced =>
       \E a \in Program : Mapped(a) \/ a >= TOP

Window(e) == Bytes(e) \o Blank(BANK_WINDOW - Len(Bytes(e)))
FillOf(bytes) == Cardinality({i \in DOMAIN bytes : \A j \in i..Len(bytes) : bytes[j] = FF})

\* Each window of a cartridge that was built reads back as its own entry and the
\* others are empty; the pre-flight check objects when the vector of the boot
\* window was left out or points outside of ROMH, and only then; and a window
\* reports no byte as free that is not fill.
BanksLand ==
  phase = "flashed" =>
    /\ \A e \in Banked(build.spec) :
         LET found == chip(crt, e.bank, e.window)
         IN  IF Window(e) = Blank(BANK_WINDOW) THEN found = {}
             ELSE \E c \in found : found = {c} /\ c.data = Window(e)
    /\ \A c \in crt : \E e \in Banked(build.spec) : c.bank = e.bank /\ c.window = e.window
    /\ cart_verify(crt) = {} <=>
         \E e \in Banked(build.spec) : boot(e) /\ Bytes(e)[BANK_WINDOW] # FF /\ ~e.strays
    /\ \A e \in Banked(build.spec) :
         /\ _ef_window_used(e) >= Cardinality({i \in DOMAIN Bytes(e) : Bytes(e)[i] # FF})
         /\ ~boot(e) /\ e.window = "hi" =>
              Len(Bytes(e)) - _ef_window_used(e) = FillOf(Bytes(e))
=============================================================================
