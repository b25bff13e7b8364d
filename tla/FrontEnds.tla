------------------------------ MODULE FrontEnds ------------------------------
(***************************************************************************)
(* The two front ends: every command of cli.py and every tool of           *)
(* mcp_server.py, each the list of the steps its body takes, and one       *)
(* interpreter for what a step does to the machine, which exceptions it    *)
(* may raise and where they end.                                           *)
(*                                                                         *)
(* Steps are told apart by what they do to the run/stop state, by the      *)
(* kinds of exception they may raise and by the kinds the body's own       *)
(* handlers take; what a payload says is left out but for its claims       *)
(* about that state.  The link below (an exchange with VICE, a checkpoint  *)
(* that fires in its midst) is in MonitorDaemon, the loops behind until,   *)
(* call, profile and hold in ClientLoops, sessions in SessionRegistry.     *)
(* One command runs at a time; the program in the machine runs beside it.  *)
(***************************************************************************)
EXTENDS Naturals, Sequences

VARIABLES
  link,     \* how the session is reached: its "daemon", or "direct"ly
  command,  \* the command or tool: who it is for, what it promises, its steps
  pos,      \* the step it is at
  open,     \* it has a monitor open
  error,    \* the exception on its way: its kind, and whether a handler of
            \* the body's own takes it
  before,   \* machine_state ahead of a wait
  processor, \* "running" or "halted"
  held,     \* the run/stop state the daemon holds
  found,    \* the state as the command found it
  hit,      \* the program has run into a checkpoint since
  ran,      \* the machine ran at some time of the wait
  out,      \* the documents written
  claim,    \* the state that the last one claims
  exit      \* how the command ended

machine == <<processor, held, hit>>
report == <<out, claim, exit>>
frontVars == <<link, command, pos, open, error, before, found, ran, machine, report>>

-----------------------------------------------------------------------------
(* Exceptions.                                                             *)

\* Mutant of INPUT_ERRORS: the errors of files and sockets are forgotten.
INPUT_ERRORS_NoFiles ==
  {"Value", "Key", "Audio", "Basic", "Build", "Cart", "Disk", "Monitor",
   "Package", "Protocol", "Session", "Test", "YAML"}

\* What JsonAwareGroup.invoke reports of what no command has caught.
INPUT_ERRORS ==
  {"Value", "Key", "OS", "Audio", "Basic", "Build", "Cart", "Disk", "Monitor",
   "Package", "Protocol", "Session", "Test", "YAML"}

\* RuntimeError and its kind: AudioError, a profile that counted nothing, and
\* what raise_remote makes of an error of the daemon's that it does not know.
RuntimeErrors == {"Audio", "Zero", "Remote"}

\* What a request to the machine may raise.
Faults == IF link = "daemon" THEN {"Monitor", "OS", "Key", "Value", "Remote"}
                             ELSE {"Monitor", "OS", "Value", "Protocol"}

\* What opening a monitor may raise: with a daemon, its respawn fails too.
Unopened == IF link = "daemon" THEN {"Session", "OS"} ELSE {"OS"}

-----------------------------------------------------------------------------
(* Steps.                                                                  *)

Step(do, can, by) == [do |-> do, can |-> can, by |-> by, says |-> "none"]

Does(can, by) == <<Step("work", can, by)>>      \* no machine in it
Works(by) == Does(by \cup {"OS"}, by)           \* a library call on files
Guard == Does({"Usage"}, {"Usage"})             \* its own fail() or raise
attach == Does({"Session", "OS"}, {"Session"})
session_labels == Does({"Value"}, {})
resolve_ref == <<Step("look", {"Key", "Value"}, {"Key", "Value"})>>
parse_count == Does({"Value"}, {"Value"})
set_labels_path == Does({"OS"}, {})
Look(can, by) == <<Step("look", can, by)>>      \* brackets that only inspect

Open == <<Step("open", {}, {})>>
Exchange == <<Step("ask", {}, {})>>
Close == <<Step("close", {}, {})>>

\* Mutant of Inspects: the inspection lets the machine go.
Inspects_Resume == Open \o Exchange \o <<Step("finally resume", {}, {})>> \o Close

\* with s.monitor() as mon: try: ... finally: mon.release()
Inspects == Open \o Exchange \o <<Step("finally release", {}, {})>> \o Close

\* with s.monitor() as mon: try: ... finally: mon.resume()
Restarts == Open \o Exchange \o <<Step("finally resume", {}, {})>> \o Close

\* with s.monitor() as mon: mon.step() or mon.finish()
Steps == Open \o <<Step("halt", {}, {})>> \o Close

machine_state == <<Step("sample", {}, {})>>
Loop(can, by, says) == <<[Step("loop", can, by) EXCEPT !.says = says]>>
Boots == <<Step("boot", {"Session", "Key", "OS"}, {"Session", "Key"})>>
Polls == <<Step("poll", {}, {})>>
\* Brackets that end in mon.resume().
Logs(by) == <<Step("log", {"Audio", "Value", "OS"}, by)>>
Says(what) == <<[Step("emit", {}, {}) EXCEPT !.says = what]>>
emit == Says("none")
_emit_stopped_regs == Says("stopped")
Verdict == <<Step("verdict", {}, {})>>          \* emit, then exit 1 if it is bad
_wait_verdict == <<Step("timed out", {}, {})>>

Cli(leaves, steps) == [front |-> "cli", leaves |-> leaves, steps |-> steps]

\* A tool has no handlers of its own and no exit code: what its body raises is
\* the tool's error, and a bad verdict is data.
Tool(leaves, steps) ==
  [front |-> "mcp", leaves |-> leaves,
   steps |-> [i \in DOMAIN steps |->
                [steps[i] EXCEPT !.by = {}, !.do = IF @ = "verdict" THEN "emit" ELSE @]]]

Target == attach \o session_labels \o resolve_ref

-----------------------------------------------------------------------------
(* The commands of cli.py.                                                 *)

session_start == Cli("as found", Works({"Session", "Disk", "Key"}) \o set_labels_path \o emit)
session_ensure == Cli("as found", Works({"Session", "Key"}) \o emit)
session_list == Cli("as found", Does({"Session", "OS"}, {}) \o emit)
session_stop == {
  Cli("as found", Guard \o Works({"Session"}) \o emit),
  Cli("as found", Guard \o attach \o Works({"Session", "OS"}) \o emit)}
session_reset == Cli("running",
  attach \o Open \o Exchange \o <<Step("resume", {}, {})>> \o Close \o emit)
screen_cmd == Cli("as found",
  attach \o Open \o Exchange \o emit \o <<Step("finally release", {}, {})>> \o Close)
status_cmd == Cli("as found", attach \o machine_state \o Says("sampled"))
mem_read == Cli("as found", Target \o parse_count \o Inspects \o emit)
mem_write == Cli("as found", Guard \o Target \o parse_count \o Inspects \o emit)
mem_get == Cli("as found", Target \o parse_count \o Inspects \o emit)
mem_find == Cli("as found", Target \o parse_count \o parse_count \o Inspects \o emit)
reg == Cli("as found", attach \o Inspects \o session_labels \o machine_state \o Says("sampled"))
reg_set == Cli("as found", attach \o parse_count \o Inspects \o emit)
build_cmd == Cli("as found", Works({"Build", "Value", "Key"}) \o emit)
package_cmd == Cli("as found",
  Works({"Build", "Basic", "Disk", "Package", "Cart", "Value", "Key"}) \o emit)
basic_tokenize == Cli("as found", Works({"Basic", "Key"}) \o emit)
basic_detokenize == Cli("as found", Works({"Basic", "Key"}) \o emit)
basic_check == Cli("as found", Does({"OS", "Value"}, {}) \o Verdict)
basic_type == Cli("as found",
  attach \o Does({"OS", "Value"}, {}) \o Look({"Value"}, {"Value"}) \o emit)
load_cmd == {
  Cli("running", attach \o Restarts \o symbols \o set_labels_path \o emit) :
    symbols \in {<<>>, set_labels_path}}
run_cmd == {
  Cli("running", Guard \o Boots \o emit)} \cup {
  Cli("running", Guard \o attach \o Works({"Basic", "Build", "Value"}) \o Restarts \o symbols
                 \o set_labels_path \o emit) : symbols \in {<<>>, set_labels_path}}
break_add == {Cli("as found", Target \o Open \o condition
                              \o <<Step("finally release", {}, {})>> \o Close \o emit) :
                condition \in {Exchange, Exchange \o Exchange}}
break_list == Cli("as found", attach \o session_labels \o Inspects \o emit)
break_remove == Cli("as found", attach \o Inspects \o emit)
break_enable == Cli("as found", attach \o Inspects \o emit)
break_disable == Cli("as found", attach \o Inspects \o emit)
break_clear == Cli("as found", attach \o Inspects \o emit)
watch_add == Cli("as found", Target \o Inspects \o emit)
watch_clear == Cli("as found", attach \o Inspects \o emit)
step_cmd == Cli("stopped", attach \o session_labels \o parse_count \o Steps \o _emit_stopped_regs)
finish_cmd == Cli("stopped", attach \o session_labels \o Steps \o _emit_stopped_regs)
continue_cmd == Cli("running", attach \o Open \o <<Step("resume", {}, {})>> \o Close \o Says("running"))
until_cmd == Cli("stopped", Target \o Loop({}, {}, "none") \o _emit_stopped_regs)
call_cmd == Cli("stopped", Target \o parse_count \o Loop({}, {}, "none") \o _emit_stopped_regs)
profile_cmd == Cli("stopped",
  Guard \o Target \o Loop({"Zero", "Value"}, RuntimeErrors \cup {"Value"}, "stopped") \o emit)
wait_cmd == {
  Cli("as found", Guard \o attach \o session_labels \o condition \o machine_state \o Polls
                  \o _wait_verdict) :
    condition \in {<<>>, parse_count \o resolve_ref \o parse_count}} \cup {
  Cli("stopped", Guard \o attach \o session_labels \o parse_count \o Loop({}, {}, "none") \o emit)}
disk_create == Cli("as found", Works({"Disk"}) \o emit)
disk_ls == Cli("as found", Works({"Disk"}) \o emit)
disk_put == Cli("as found", Works({"Disk"}) \o emit)
disk_get == Cli("as found", Works({"Disk"}) \o emit)
disk_boot == {Cli("running", attach \o Restarts \o symbols \o emit) :
                symbols \in {<<>>, set_labels_path}}
disk_rename == Cli("as found", Works({"Disk"}) \o emit)
disk_rm == Cli("as found", Works({"Disk"}) \o emit)
disk_block_read == {Cli("as found", Works({"Disk"}) \o output \o emit) :
                      output \in {<<>>, Works({"OS"})}}
disk_block_write == Cli("as found", Works({"Disk", "Value"}) \o emit)
disk_validate == Cli("as found", Works({"Disk"}) \o emit)
disk_build == Cli("as found", Does({"Disk", "Build", "Basic", "Key", "OS", "YAML", "Value"},
                                   {"Disk", "Build", "Basic", "Key"}) \o emit)
cart_build == Cli("as found", Works({"Cart", "Build"}) \o emit)
cart_info_cmd == Cli("as found", Works({"Cart"}) \o emit)
cart_verify_cmd == Cli("as found", Works({"Cart"}) \o Verdict)
cart_dump_cmd == Cli("as found", Works({"Cart"}) \o Works({"OS"}) \o emit)
cart_bank == Cli("as found", attach \o Inspects \o emit)
cart_convert == Cli("as found", Works({"Cart"}) \o emit)
rom_info == Cli("as found", attach \o Inspects \o emit)
rom_disasm == Cli("as found", Target \o parse_count \o Inspects \o emit)
test_run == Cli("as found", Works({"Test", "Key", "Basic", "Build", "Session"}) \o Verdict)
test_programs == Cli("as found",
  Guard \o Works({"Test", "Key", "Basic", "Build", "Session"}) \o Verdict)
key_type == Cli("as found", attach \o Look({"Value"}, {"Value"}) \o emit)
key_hold == {
  Cli("as found", Target \o parse_count \o emit),
  Cli("stopped", Target \o Loop({"Value"}, {"Value"}, "none") \o _emit_stopped_regs)}
sprite_status == Cli("as found", attach \o Inspects \o emit)
sprite_show == Cli("as found", attach \o Look({"Key", "Value"}, {"Key", "Value"}) \o emit)
sprite_png == Cli("as found",
  attach \o Look({"Key", "Value", "OS"}, {"Key", "Value"}) \o emit)
sprite_from_png == Cli("as found", Does({"OS", "Image"}, {"Image"}) \o Works({}) \o emit)
sprite_encode == Cli("as found", Guard \o Works({"Value"}) \o Works({}) \o emit)
charset_encode == Cli("as found", Works({"Value"}) \o Works({}) \o emit)
Reported == RuntimeErrors \cup {"OS", "Value", "Monitor", "Session"}
audio_record == Cli("running", Guard \o attach \o Logs(Reported) \o emit)
audio_sidlog == Cli("running", attach \o Logs(Reported) \o emit)
audio_report == {
  Cli("as found", Guard \o clock
                  \o Works({"Audio", "OS", "Value", "Key"}) \o Verdict) :
    clock \in {<<>>, attach}}
audio_score == Cli("as found", Works({"OS", "Value", "YAML"}) \o emit)
audio_capture == Cli("running",
  attach \o Look({"Value"}, {"Value"}) \o Logs(Reported) \o Verdict)

-----------------------------------------------------------------------------
(* The tools of mcp_server.py.                                             *)

c64_session_list == Tool("as found", Does({"Session", "OS"}, {}) \o emit)
c64_session_start == Tool("as found", Works({"Session", "Disk", "Key"}) \o set_labels_path \o emit)
c64_session_ensure == Tool("as found", Works({"Session", "Key"}) \o emit)
c64_session_stop == {
  Tool("as found", Guard \o Works({"Session"}) \o emit),
  Tool("as found", attach \o Works({"Session"}) \o emit)}
c64_session_reset == Tool("running", attach \o Restarts \o emit)
c64_status == Tool("as found", attach \o machine_state \o Says("sampled"))
c64_screen_text == Tool("as found", attach \o Inspects \o emit)
c64_screen_codes == Tool("as found", attach \o Inspects \o emit)
c64_screenshot == Tool("as found", attach \o Inspects \o emit)
c64_mem_read == Tool("as found", Target \o Inspects \o emit)
c64_mem_find == Tool("as found", Target \o parse_count \o Inspects \o emit)
c64_mem_write == Tool("as found", Target \o Inspects \o emit)
c64_reg_get == Tool("as found",
  attach \o Inspects \o session_labels \o machine_state \o Says("sampled"))
c64_reg_set == Tool("as found", attach \o parse_count \o Inspects \o emit)
c64_break_add == {Tool("as found", Target \o Open \o condition
                                  \o <<Step("finally release", {}, {})>> \o Close \o emit) :
                    condition \in {Exchange, Exchange \o Exchange}}
c64_break_list == Tool("as found", attach \o session_labels \o Inspects \o emit)
c64_break_remove == Tool("as found", attach \o Inspects \o emit)
c64_break_clear == Tool("as found", attach \o Inspects \o emit)
c64_break_enable == Tool("as found", attach \o Inspects \o emit)
c64_break_disable == Tool("as found", attach \o Inspects \o emit)
c64_watch_clear == Tool("as found", attach \o Inspects \o emit)
c64_watch_add == Tool("as found", Target \o Inspects \o emit)
c64_step == Tool("stopped", attach \o Steps \o session_labels \o _emit_stopped_regs)
c64_finish == Tool("stopped", attach \o Steps \o session_labels \o _emit_stopped_regs)
c64_continue == Tool("running", attach \o Open \o <<Step("resume", {}, {})>> \o Close \o Says("running"))
c64_until == Tool("stopped", Target \o Loop({}, {}, "none") \o session_labels \o _emit_stopped_regs)
c64_wait_text == Tool("as found", attach \o machine_state \o Polls \o _wait_verdict)
c64_wait_mem == Tool("as found",
  attach \o machine_state \o resolve_ref \o parse_count \o Polls \o _wait_verdict)
c64_wait_idle == Tool("as found", attach \o machine_state \o Polls \o _wait_verdict)
c64_call == Tool("stopped", Target \o Loop({}, {}, "none") \o emit)
c64_profile == Tool("stopped", Target \o Loop({"Zero", "Value"}, {}, "none") \o emit)
c64_wait_break == Tool("stopped", attach \o Loop({}, {}, "data") \o session_labels \o emit)
c64_build == Tool("as found", Works({"Build", "Value", "Key"}) \o emit)
c64_package == Tool("as found",
  Works({"Build", "Basic", "Disk", "Package", "Cart", "Value", "Key"}) \o emit)
c64_run == {Tool("running", Guard \o Boots \o emit)} \cup {
  Tool("running", Guard \o attach \o Works({"Basic", "Build", "Value"}) \o Restarts \o symbols
                  \o set_labels_path \o emit) : symbols \in {<<>>, set_labels_path}}
c64_load == {Tool("running", attach \o Restarts \o symbols \o set_labels_path \o emit) :
               symbols \in {<<>>, set_labels_path}}
c64_basic_check == Tool("as found", Does({"OS", "Value"}, {}) \o Verdict)
c64_basic_type == Tool("as found", attach \o Look({"Value"}, {}) \o emit)
c64_basic_tokenize == Tool("as found", Works({"Basic", "Key"}) \o emit)
c64_basic_detokenize == Tool("as found", Works({"Basic", "Key"}) \o emit)
c64_key_type == Tool("as found", attach \o Look({"Value"}, {}) \o emit)
c64_key_hold == {
  Tool("as found", Target \o parse_count \o emit),
  Tool("stopped", Target \o Loop({"Value"}, {}, "none") \o session_labels \o _emit_stopped_regs)}
c64_disk_create == Tool("as found", Works({"Disk"}) \o emit)
c64_disk_ls == Tool("as found", Works({"Disk"}) \o emit)
c64_disk_put == Tool("as found", Works({"Disk"}) \o emit)
c64_disk_get == Tool("as found", Works({"Disk"}) \o emit)
c64_disk_boot == {Tool("running", attach \o Restarts \o symbols \o emit) :
                    symbols \in {<<>>, set_labels_path}}
c64_disk_rename == Tool("as found", Works({"Disk"}) \o emit)
c64_disk_rm == Tool("as found", Works({"Disk"}) \o emit)
c64_disk_block_read == {Tool("as found", Works({"Disk"}) \o output \o emit) :
                          output \in {<<>>, Works({"OS"})}}
c64_disk_block_write == Tool("as found", Works({"Disk", "Value"}) \o emit)
c64_disk_validate == Tool("as found", Works({"Disk"}) \o emit)
c64_disk_build == Tool("as found", Works({"Disk", "Build", "Basic", "Key"}) \o emit)
c64_cart_build == Tool("as found", Works({"Cart", "Build"}) \o emit)
c64_cart_info == Tool("as found", Works({"Cart"}) \o emit)
c64_cart_verify == Tool("as found", Works({}) \o emit)
c64_cart_dump == Tool("as found", Works({"Cart"}) \o Works({}) \o emit)
c64_cart_bank == Tool("as found", attach \o Inspects \o emit)
c64_cart_convert == Tool("as found", Works({"Cart"}) \o emit)
c64_rom_info == Tool("as found", attach \o Inspects \o emit)
c64_rom_disasm == Tool("as found", Target \o Inspects \o emit)
c64_test_run == Tool("as found", Works({"Test", "Key", "Basic", "Build", "Session"}) \o Verdict)
c64_test_programs == Tool("as found", Works({"Test", "Key", "Basic", "Build", "Session"}) \o Verdict)
c64_sprite_status == Tool("as found", attach \o Inspects \o emit)
c64_sprite_show == Tool("as found", attach \o Look({"Key", "Value"}, {}) \o emit)
c64_sprite_png == Tool("as found", attach \o Look({"Key", "Value", "OS"}, {}) \o emit)
c64_sprite_from_png == Tool("as found", Does({"OS", "Image"}, {}) \o emit)
c64_sprite_encode == Tool("as found", Guard \o Works({"Value"}) \o emit)
c64_charset_encode == Tool("as found", Works({"Value"}) \o emit)
c64_audio_record == Tool("running", attach \o Guard \o Logs({}) \o emit)
c64_sid_log == Tool("running", attach \o Logs({}) \o emit)
_strict_verdict == Does({"Strict"}, {}) \o emit
c64_sid_report == {
  Tool("as found", Guard \o clock \o Works({"Audio", "Value", "Key"}) \o _strict_verdict) :
    clock \in {<<>>, attach}}
c64_audio_score == Tool("as found", Works({"Value", "YAML"}) \o emit)
c64_audio_capture == Tool("running",
  attach \o Look({"Value"}, {}) \o Logs({}) \o _strict_verdict)

Commands ==
  (UNION {session_stop, load_cmd, run_cmd, break_add, wait_cmd, disk_boot, disk_block_read,
          key_hold, audio_report, c64_session_stop, c64_break_add, c64_run, c64_load,
          c64_key_hold, c64_disk_boot, c64_disk_block_read, c64_sid_report})
  \cup {session_start, session_ensure, session_list, session_reset, screen_cmd, status_cmd,
        mem_read, mem_write, mem_get, mem_find, reg, reg_set, build_cmd, package_cmd,
        basic_tokenize, basic_detokenize, basic_check, basic_type, break_list,
        break_remove, break_enable, break_disable, break_clear, watch_add, watch_clear,
        step_cmd, finish_cmd, continue_cmd, until_cmd, call_cmd, profile_cmd, disk_create,
        disk_ls, disk_put, disk_get, disk_rename, disk_rm, disk_block_write, disk_validate,
        disk_build, cart_build, cart_info_cmd, cart_verify_cmd, cart_dump_cmd, cart_bank,
        cart_convert, rom_info, rom_disasm, test_run, test_programs, key_type,
        sprite_status, sprite_show, sprite_png, sprite_from_png, sprite_encode,
        charset_encode, audio_record, audio_sidlog, audio_score, audio_capture,
        c64_session_list, c64_session_start, c64_session_ensure, c64_session_reset,
        c64_status, c64_screen_text, c64_screen_codes, c64_screenshot, c64_mem_read,
        c64_mem_find, c64_mem_write, c64_reg_get, c64_reg_set, c64_break_list,
        c64_break_remove, c64_break_clear, c64_break_enable, c64_break_disable,
        c64_watch_clear, c64_watch_add, c64_step, c64_finish, c64_continue, c64_until,
        c64_wait_text, c64_wait_mem, c64_wait_idle, c64_call, c64_profile, c64_wait_break,
        c64_build, c64_package, c64_basic_check, c64_basic_type, c64_basic_tokenize,
        c64_basic_detokenize, c64_key_type, c64_disk_create, c64_disk_ls, c64_disk_put,
        c64_disk_get, c64_disk_rename, c64_disk_rm, c64_disk_block_write,
        c64_disk_validate, c64_disk_build, c64_cart_build, c64_cart_info, c64_cart_verify,
        c64_cart_dump, c64_cart_bank, c64_cart_convert, c64_rom_info, c64_rom_disasm,
        c64_test_run, c64_test_programs, c64_sprite_status, c64_sprite_show,
        c64_sprite_png, c64_sprite_from_png, c64_sprite_encode, c64_charset_encode,
        c64_audio_record, c64_sid_log, c64_audio_score, c64_audio_capture}

-----------------------------------------------------------------------------
(* The interpreter.                                                        *)

Halts == {"running", "stopped"}
CpuIn(s) == IF s = "stopped" THEN "halted" ELSE "running"

FrontInit ==
  /\ link \in {"daemon", "direct"}
  /\ command = Cli("as found", <<>>) /\ pos = 1 /\ open = FALSE
  /\ error = [kind |-> "none", caught |-> FALSE] /\ before = "unknown"
  /\ held \in Halts /\ processor = CpuIn(held) /\ hit = FALSE
  /\ found = held /\ ran = FALSE
  /\ out = <<>> /\ claim = "none" /\ exit = "0"

\* The user, a script or a client asks for something.
Invoke ==
  /\ exit /= "none"
  /\ command' \in Commands
  /\ pos' = 1 /\ open' = FALSE /\ error' = [kind |-> "none", caught |-> FALSE]
  /\ before' = "unknown" /\ found' = (IF processor = "halted" THEN "stopped" ELSE "running")
  /\ ran' = FALSE /\ hit' = FALSE
  /\ out' = <<>> /\ claim' = "none" /\ exit' = "none"
  /\ UNCHANGED <<link, processor, held>>

\* The program runs into a checkpoint of the user's, and the daemon notes it.
Hit ==
  /\ link = "daemon" /\ exit = "none" /\ ~open /\ processor = "running" /\ held = "running"
  /\ processor' = "halted" /\ held' = "stopped" /\ hit' = TRUE
  /\ UNCHANGED <<link, command, pos, open, error, before, found, ran, report>>

Here == command.steps[pos]
At(do) == exit = "none" /\ pos <= Len(command.steps) /\ Here.do = do
Fine == error.kind = "none"

Raises ==
  CASE Here.do = "open" -> Unopened
    [] Here.do \in {"ask", "halt", "resume", "finally release", "finally resume"} -> Faults
    [] Here.do \in {"look", "loop", "poll", "log"} -> Here.can \cup Faults \cup Unopened
    [] Here.do \in {"sample", "timed out"} ->
         IF link = "daemon" THEN {"Session", "Remote"} ELSE {}
    [] OTHER -> Here.can

\* Where a direct connection leaves the CPU is VICE's affair; the daemon's
\* _restore resumes what it holds to be running.
Left(kept, now) ==
  IF link = "direct" THEN {"running", "halted"}
  ELSE IF kept = "running" THEN {"running"} ELSE {now}

\* What a step may do to CPU and held state, done or (but for emits) failed.
Effects(done) ==
  CASE Here.do = "open" ->
         {<<IF done /\ link = "direct" THEN "halted" ELSE processor, held>>}
    [] Here.do = "ask" ->
         {<<"halted", held>>} \cup (IF done THEN {} ELSE {<<processor, held>>})
    [] Here.do = "halt" ->
         {<<"halted", "stopped">>} \cup (IF done THEN {} ELSE {<<processor, held>>})
    [] Here.do \in {"resume", "finally resume", "log"} ->
         {<<"running", "running">>} \cup (IF done THEN {} ELSE {<<processor, held>>})
    [] Here.do = "finally release" ->
         IF link = "daemon" /\ held = "stopped" THEN {<<processor, held>>}
         ELSE {<<"running", held>>} \cup (IF done THEN {} ELSE {<<processor, held>>})
    [] Here.do \in {"close", "look", "poll", "sample", "timed out"} ->
         {<<c, held>> : c \in Left(held, processor)}
    [] Here.do = "loop" -> {<<"halted", "stopped">>} \cup
                           (IF done THEN {} ELSE {<<"running", "running">>})
    [] Here.do = "boot" -> IF done THEN {<<"running", "running">>} ELSE {<<processor, held>>}
    [] OTHER -> {<<processor, held>>}

Moves(done) == \E e \in Effects(done) : processor' = e[1] /\ held' = e[2]

\* A step that goes well, and neither writes nor samples anything.
Pass ==
  /\ exit = "none" /\ pos <= Len(command.steps)
  /\ Fine \/ open
  /\ Here.do \notin {"emit", "verdict", "sample", "poll", "timed out"}
  /\ Moves(TRUE)
  /\ open' = IF Here.do = "open" THEN TRUE ELSE IF Here.do = "close" THEN FALSE ELSE open
  /\ pos' = pos + 1
  /\ UNCHANGED <<link, command, error, before, found, hit, ran, report>>

\* The finally of an open monitor, or its close.
Unwinds(i) == i > pos /\ command.steps[i].do \in {"finally release", "finally resume", "close"}

\* A step raises: through the finally and the close of an open monitor.
Raise ==
  /\ exit = "none" /\ pos <= Len(command.steps)
  /\ Fine \/ open
  /\ \E k \in Raises : error' = [kind |-> k, caught |-> k \in Here.by]
  /\ Moves(FALSE)
  /\ error'.kind = "Zero" => processor' = "halted"   \* counted after the loop's halt
  /\ pos' = IF open THEN CHOOSE i \in DOMAIN command.steps :
                          /\ Unwinds(i)
                          /\ \A j \in DOMAIN command.steps : Unwinds(j) => i <= j
            ELSE Len(command.steps) + 1
  /\ claim' = IF Here.says = "stopped" /\ error'.kind \in RuntimeErrors THEN "stopped" ELSE claim
  /\ UNCHANGED <<link, command, open, before, found, hit, ran, out, exit>>

\* until, call, profile, hold or wait --break comes to its deadline, which
\* leaves the machine running: an error, but for the tool that waits.
GivesUp ==
  /\ At("loop") /\ Fine
  /\ processor' \in Left("running", processor) /\ held' = "running"
  /\ out' = Append(out, IF Here.says = "data" THEN "data" ELSE "error")
  /\ claim' = "running"
  /\ exit' = IF command.front = "cli" THEN "1" ELSE out'[Len(out')]
  /\ pos' = Len(command.steps) + 1
  /\ UNCHANGED <<link, command, open, error, before, found, hit, ran>>

\* machine_state: "unknown" without a daemon, and where the daemon is too busy.
Sample ==
  /\ At("sample") /\ Fine
  /\ before' \in (IF link = "daemon" THEN {held} ELSE {}) \cup {"unknown"}
  /\ Moves(TRUE)
  /\ ran' = (processor' = "running")
  /\ pos' = pos + 1
  /\ UNCHANGED <<link, command, open, error, found, hit, report>>

\* A look at the screen, the byte or the PC: once more, or the deadline, or
\* what the wait is for.
Poll ==
  /\ At("poll") /\ Fine
  /\ Moves(TRUE)
  /\ ran' = (ran \/ processor' = "running")
  /\ \/ pos' \in {pos, pos + 1} /\ UNCHANGED out
     \/ pos' = Len(command.steps) + 1 /\ out' = Append(out, "data")
  /\ UNCHANGED <<link, command, open, error, before, found, hit, claim, exit>>

\* Mutant of Stopped: only the second sample counts.
Stopped_AtTheEnd(after) == after = "stopped"

Stopped(after) == before = "stopped" /\ after = "stopped"

\* _wait_verdict.  "stopped" means throughout, and "running" at some time; with
\* a sample unknown and the other one stopped, "running" is but a guess.
TimedOut ==
  /\ At("timed out") /\ Fine
  /\ Moves(TRUE)
  /\ \E after \in (IF link = "daemon" THEN {held} ELSE {}) \cup {"unknown"} :
       claim' = IF Stopped(after) THEN "stopped throughout"
                ELSE IF "running" \in {before, after} THEN "running meanwhile" ELSE "guess"
  /\ out' = Append(out, IF command.front = "cli" THEN "error" ELSE "data")
  /\ exit' = IF command.front = "cli" THEN "1" ELSE "data"
  /\ pos' = pos + 1
  /\ UNCHANGED <<link, command, open, error, before, found, hit, ran>>

\* emit: the payload, with what it says of the machine.
Emits ==
  /\ At("emit") \/ At("verdict")
  /\ Fine
  /\ out' = Append(out, "data")
  /\ claim' = IF Here.says = "sampled" THEN before ELSE Here.says
  /\ \E bad \in {FALSE, Here.do = "verdict"} : exit' = IF bad THEN "1" ELSE exit
  /\ pos' = pos + 1
  /\ UNCHANGED <<link, command, open, error, before, found, hit, ran, processor, held>>

\* The body is through.
Returns ==
  /\ exit = "none" /\ pos > Len(command.steps) /\ Fine
  /\ exit' = IF command.front = "cli" THEN "0" ELSE "data"
  /\ UNCHANGED <<link, command, pos, open, error, before, found, ran, machine, out, claim>>

\* A body's own handler or the group's funnel reports with fail(); what
\* neither takes is a traceback.  A tool's exception is the tool's error.
Fails ==
  /\ exit = "none" /\ ~open /\ ~Fine
  /\ IF command.front = "mcp" \/ error.caught \/ error.kind \in INPUT_ERRORS
     THEN /\ out' = Append(out, "error")
          /\ exit' = IF command.front = "cli" THEN "1" ELSE "error"
     ELSE exit' = "traceback" /\ UNCHANGED out
  /\ UNCHANGED <<link, command, pos, open, error, before, found, ran, machine, claim>>

FrontNext ==
  \/ Invoke \/ Hit
  \/ Pass \/ Raise \/ GivesUp \/ Sample \/ Poll \/ TimedOut \/ Emits \/ Returns \/ Fails

FrontSpec == FrontInit /\ [][FrontNext]_frontVars

-----------------------------------------------------------------------------
(* What must hold.                                                         *)

Ended == exit /= "none"

\* Over a daemon a command leaves the machine in the state its
\* documentation names: an inspection as it found it, whatever it raised and
\* however it ended, but for a checkpoint that the program has run into; a
\* command that resumes or halts, where it succeeds, running or halted.
LeavesAsDocumented ==
  Ended /\ link = "daemon" =>
    /\ command.leaves = "as found" => processor = CpuIn(IF hit THEN "stopped" ELSE found)
    /\ command.leaves = "running" /\ exit \in {"0", "data"} => processor = "running" \/ hit
    /\ command.leaves = "stopped" /\ exit \in {"0", "data"} /\ claim /= "running" =>
         processor = "halted"

\* What the last document says of the machine is so.  Left out is what a
\* profile makes of a RuntimeError of the daemon's, and the guess of a wait.
ReportIsTrue ==
  Ended /\ link = "daemon" /\ error.kind /= "Remote" =>
    CASE claim \in Halts -> processor = CpuIn(claim) \/ hit
      [] claim = "stopped throughout" -> ~ran
      [] claim = "running meanwhile" -> ran
      [] OTHER -> TRUE

\* One document tells how it went, and the exit code agrees with it.  Left
\* out are the errors that the roster leaves out, and the screen command,
\* whose payload is out before its monitor is released.
OneDocument ==
  Ended /\ error.kind \notin RuntimeErrors \ INPUT_ERRORS /\ command /= screen_cmd
       /\ command \in Commands =>
    /\ Len(out) = 1
    /\ error.kind /= "none" => out = <<"error">> /\ exit \in {"1", "error"}
    /\ exit \in {"0", "data"} => out = <<"data">>
    /\ exit \in {"error", "traceback"} => out = <<"error">>

\* docs/cli.md: exit code 1 on error; JsonAwareGroup.invoke: never a traceback
\* over an empty stdout.  Whatever a session's machine or daemon answers with
\* is reported.
FailuresAreReported ==
  Ended /\ error.kind /= "none" => out /= <<>>
=============================================================================
