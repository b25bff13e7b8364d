---------------------------- MODULE EasyFlashImage ----------------------------
(***************************************************************************)
(* An EasyFlash cartridge: the banks of a manifest (load_manifest of       *)
(* cart_build.py) put into one raw image (build_easyflash), made a .crt by *)
(* cartconv, and read back (parse_crt, cart_dump and cart_verify of        *)
(* cartridge.py).  A bank is two windows, "lo" and "hi"; windows are       *)
(* scaled to BANK_WINDOW bytes, of which the last VECTORS_SIZE of the boot *)
(* window are the reset vectors and the last JT_SIZE of a linked "lo"      *)
(* window the jump table.  A byte is told by its window and place, and by  *)
(* whether its file, as the boot window, would start outside of ROMH.      *)
(***************************************************************************)
EXTENDS Integers, Sequences, SequencesExt, FiniteSets

CONSTANTS BANK_WINDOW, VECTORS_SIZE, JT_SIZE, EF_MAX_BANKS

ASSUME WindowAssumption ==
  /\ BANK_WINDOW \in Nat /\ VECTORS_SIZE \in 1..BANK_WINDOW /\ JT_SIZE \in 1..BANK_WINDOW
  /\ EF_MAX_BANKS \in Nat

EF_WINDOWS == <<"lo", "hi">>
EF_IMAGE_BYTES == EF_MAX_BANKS * 2 * BANK_WINDOW

\* $FF, which fills what nothing is written to.
FF == [tag |-> "fill", i |-> 0]
Data(tag, i) == [tag |-> tag, i |-> i]
Blank(n) == [i \in 1..n |-> FF]

\* load_manifest: the entries are [bank, window, file], in the order of the
\* manifest; a bank may have been written as two keys, 0 and "0".
Keys(m) == {<<m[i].bank, m[i].key>> : i \in DOMAIN m}

load_manifest(m) ==
  /\ \A p, q \in Keys(m) : p[1] = q[1] => p = q
  /\ \A i \in DOMAIN m : m[i].bank \in 0..(EF_MAX_BANKS - 1)
  /\ \E i \in DOMAIN m : m[i].bank = 0 /\ m[i].window = "hi"

boot(e) == e.bank = 0 /\ e.window = "hi"

\* e.strays: the reset vector in its last bytes, if any, points outside of ROMH.
Tag(e) == <<e.bank, e.window, e.strays>>

\* The bytes of an entry: a binary as it is; a linked source fills its window,
\* with what it has at the end, a jump table or vectors, in its last bytes.
Bytes(e) ==
  IF e.linked
  THEN [i \in 1..BANK_WINDOW |->
          IF i <= e.size \/ (e.tail /\ i = BANK_WINDOW) THEN Data(Tag(e), i) ELSE FF]
  ELSE [i \in 1..e.size |-> IF e.tail THEN FF ELSE Data(Tag(e), i)]

\* The linker refuses what does not fit, build_easyflash a binary that does not
\* and a boot window that is not full.
Fits(e) ==
  /\ Len(Bytes(e)) <= BANK_WINDOW
  /\ e.linked => e.size <= BANK_WINDOW - (IF boot(e) THEN VECTORS_SIZE
                                          ELSE IF e.window = "lo" THEN JT_SIZE ELSE 0)
  /\ boot(e) => Len(Bytes(e)) = BANK_WINDOW

\* Mutant of Offset: the windows of a bank the other way round.
Offset_Swapped(bank, window) ==
  bank * 2 * BANK_WINDOW + (IF window = "lo" THEN BANK_WINDOW ELSE 0)

Offset(bank, window) ==
  bank * 2 * BANK_WINDOW + (IF window = "lo" THEN 0 ELSE BANK_WINDOW)

\* Each entry's bytes over the blank image; the last to write a byte has it.
build_easyflash(m) ==
  [i \in 1..EF_IMAGE_BYTES |->
     LET Place(n) == i - Offset(m[n].bank, m[n].window)
         writers  == {n \in DOMAIN m : Place(n) \in DOMAIN Bytes(m[n])}
         last     == CHOOSE n \in writers : \A other \in writers : other <= n
     IN  IF writers = {} THEN FF ELSE Bytes(m[last])[Place(last)]]

\* Bytes without the fill at their end.
Stripped(bytes) ==
  LET used == {i \in DOMAIN bytes : bytes[i] # FF}
  IN  IF used = {} THEN 0 ELSE CHOOSE i \in used : \A j \in used : j <= i

_used_bytes(bytes, reserved_tail) ==
  Stripped(SubSeq(bytes, 1, Len(bytes) - reserved_tail)) + reserved_tail

_ef_window_used(e) ==
  LET bytes == Bytes(e)
      body  == BANK_WINDOW - JT_SIZE
  IN  IF boot(e) /\ Len(bytes) = BANK_WINDOW THEN _used_bytes(bytes, VECTORS_SIZE)
      ELSE IF e.window = "lo" /\ Len(bytes) > body
      THEN _used_bytes(SubSeq(bytes, 1, body), 0)
           + _used_bytes(SubSeq(bytes, body + 1, Len(bytes)), 0)
      ELSE _used_bytes(bytes, 0)

-----------------------------------------------------------------------------
(* The .crt.                                                               *)

\* cartconv, external: a packet for each window that is not blank.
cartconv(image) ==
  LET Packet(bank, window) ==
        [bank |-> bank, window |-> window,
         data |-> SubSeq(image, bank * 2 * BANK_WINDOW
                                  + (IF window = "lo" THEN 1 ELSE BANK_WINDOW + 1),
                         bank * 2 * BANK_WINDOW
                                  + (IF window = "lo" THEN BANK_WINDOW ELSE 2 * BANK_WINDOW))]
  IN  {p \in {Packet(bank, window) : bank \in 0..(EF_MAX_BANKS - 1), window \in {"lo", "hi"}} :
         p.data # Blank(BANK_WINDOW)}

\* Crt.chip, and cart_dump, which has no answer without a packet.
chip(crt, bank, window) == {c \in crt : c.bank = bank /\ c.window = window}

\* The reset vector lies in the boot window's last bytes.
UnfilledVector(c) == c.data[BANK_WINDOW] = FF
StrayVector(c) == ~UnfilledVector(c) /\ c.data[BANK_WINDOW].tag[3]

\* _verify_easyflash: what would not boot.  The packets of cartconv are of the
\* right size, at the right address, and none is there twice.
cart_verify(crt) ==
  (IF chip(crt, 0, "hi") = {} THEN {"no boot window"} ELSE {})
  \cup {"unfilled vector" : c \in {c \in chip(crt, 0, "hi") : UnfilledVector(c)}}
  \cup {"outside ROMH" : c \in {c \in chip(crt, 0, "hi") : StrayVector(c)}}
=============================================================================
