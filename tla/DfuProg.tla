------------------------------ MODULE DfuProg ------------------------------
(* dfu-prog, the tool that erases, flashes and reads the board over its DFU *)
(* boot loader (src/API/dfu-prog), for the AVR32 chips of the board.        *)
(*                                                                          *)
(* One action is one control transfer of the tool, with the code around it  *)
(* up to the next one, because a transfer is what can fail: it times out    *)
(* before or after the device acted on it, the device stalls it, an upload  *)
(* or a status comes back short.  The tool may be killed at any transfer    *)
(* and run again (Start) on the device as it was left.  The device is the   *)
(* chip's ROM boot loader, which is not in the repository: it programs by   *)
(* clearing bits, and a write or an erase may leave a byte as it was.       *)
(*                                                                          *)
(* A byte is the set of its one bits, an image a function on the addresses  *)
(* the hex file sets (hex_data[i] = -1 elsewhere).                          *)
EXTENDS Integers, Sequences, FiniteSetsExt

CONSTANTS
  Bits,         \* the bits of a byte
  PageSize,     \* 0x10000, what a 16-bit address of the protocol reaches
  Pages,        \* pages of the flash
  BootSize,     \* bootloader_size, at the bottom of the flash
  UserSize,     \* flash_page_size, the size of the user page
  MaxTransfer,  \* ATMEL_MAX_TRANSFER_SIZE
  Space,        \* 0x80000000, where the flash is in the addresses of a hex file
  Files,        \* the hex files: sequences of records
  MaxFaults,    \* bound: transfers, writes and erasures that go wrong
  MaxSessions   \* bound: runs of the tool

Least(a, b) == IF a < b THEN a ELSE b

\* An array in which some bytes are replaced.
Over(new, old) ==
  [a \in DOMAIN new \cup DOMAIN old |-> IF a \in DOMAIN new THEN new[a] ELSE old[a]]

Byte  == SUBSET Bits

\* A line of a hex file: its type, its address (the base that it sets, of a line of
\* type 2, 4 or 5), its bytes, and whether intel_validate_line takes it.
Record == [type : 0 .. 5, address : Nat, data : Seq(Byte), valid : BOOLEAN]

ASSUME DfuProgAssumption ==
  /\ PageSize \in Nat /\ BootSize \in 1 .. PageSize - 2
  /\ Pages \in Nat /\ Pages > 1
  /\ MaxTransfer \in Nat /\ UserSize \in 1 .. Least(MaxTransfer, PageSize)
  /\ Space \in Nat /\ Space > 0
  /\ Files \subseteq Seq(Record)
  /\ MaxFaults \in Nat /\ MaxSessions \in Nat

Blank == Bits                     \* 0xFF
End   == Pages * PageSize         \* flash_address_top + 1
Bootloader  == 0 .. BootSize - 1  \* bootloader_bottom .. bootloader_top
Application == BootSize .. End - 1
Nothing == [a \in {} |-> {}]

\* suppress: --suppress-validation; skip: --suppress-bootloader-mem.
CommandLines ==
  [command : {"flash"}, file : Files, suppress : BOOLEAN, skip : BOOLEAN]
  \cup [command : {"user"}, file : Files, suppress : BOOLEAN, skip : {FALSE}]
  \cup [command : {"erase", "dump", "udump", "start_app", "reset"}, file : {<<>>},
        suppress : {FALSE}, skip : {FALSE}]
OnUserPage(command) == command \in {"user", "udump"}

\* DFU states the device can be found in; BUSY stands for dfuDNBUSY and
\* dfuMANIFEST, SYNC for the idle and sync states a status or an abort leaves.
States == {"IDLE", "DNLOAD_IDLE", "UPLOAD_IDLE", "SYNC", "BUSY", "ERROR",
           "APP_IDLE", "APP_DETACH", "WAIT_RESET", "GONE"}
Ready == {"IDLE", "DNLOAD_IDLE"}

VARIABLES
  dev,       \* the device: DFU state and status, unit and page selected, memories
  args,      \* the command line
  pc,        \* the transfer the tool does next, or how it ended
  hex,       \* hex_data
  first,     \* address reached by a write, a read or a blank check
  last,      \* end of the block being written or of the chunk being read
  mem_page,  \* page counter of the loops
  retries,   \* retries of dfu_make_idle and of the status loops
  buffer,    \* what was read back
  faults,    \* transfers that went wrong so far
  sessions,  \* runs of the tool so far
  clean,     \* nothing went wrong in this session
  partial    \* an upload of this session was short

loops == <<first, last, mem_page, retries>>
vars == <<dev, args, pc, hex, loops, buffer, faults, sessions, clean, partial>>

Ended == {"off", "done", "failed", "no_device", "killed"}

-----------------------------------------------------------------------------
(* The hex file.                                                            *)

\* Mutant: no check of the address against the size.
MutantProcessRecord(size, acc, r) ==
  LET base  == acc.offset + r.address
      bytes == [a \in base .. base + Len(r.data) - 1 |-> r.data[a - base + 1]]
  IN IF acc.state # "reading" THEN acc
     ELSE IF ~ r.valid THEN [acc EXCEPT !.state = "error"]
     ELSE CASE r.type = 0 -> [acc EXCEPT !.memory = Over(bytes, @)]
       [] r.type = 1 -> [acc EXCEPT !.state = "loaded"]
       [] r.type \in {2, 4, 5} -> [acc EXCEPT !.offset = r.address % Space]
       [] r.type = 3 -> acc

\* One record: data goes behind the current offset, an address record moves the
\* offset and loses the bit that puts the flash at 0x80000000, type 3 is ignored.
ProcessRecord(size, acc, r) ==
  LET base  == acc.offset + r.address
      bytes == [a \in base .. base + Len(r.data) - 1 |-> r.data[a - base + 1]]
  IN IF acc.state # "reading" THEN acc
     ELSE IF ~ r.valid \/ (r.type = 0 /\ ~ (DOMAIN bytes \subseteq 0 .. size - 1))
     THEN [acc EXCEPT !.state = "error"]
     ELSE CASE r.type = 0 -> [acc EXCEPT !.memory = Over(bytes, @)]
       [] r.type = 1 -> [acc EXCEPT !.state = "loaded"]
       [] r.type \in {2, 4, 5} -> [acc EXCEPT !.offset = r.address % Space]
       [] r.type = 3 -> acc

intel_hex_to_buffer(file, size) ==
  LET read[n \in 0 .. Len(file)] ==
        IF n = 0 THEN [offset |-> 0, memory |-> Nothing, state |-> "reading"]
                 ELSE ProcessRecord(size, read[n - 1], file[n])
  IN read[Len(file)]

\* What each file gives for the flash and for the user page.
Loaded == [size \in {End, UserSize} |-> [file \in Files |-> intel_hex_to_buffer(file, size)]]

-----------------------------------------------------------------------------
(* The device (external) and the transfers.                                 *)

Device == [state : States, status : {"OK", "ERROR"}, unit : {"flash", "user"}, page : 0 .. Pages,
           memory : [flash : [0 .. End - 1 -> Byte], user : [0 .. UserSize - 1 -> Byte]]]

Where(d, a) == IF d.unit = "flash" THEN d.page * PageSize + a ELSE a

Stalled(d) == [d EXCEPT !.state  = IF @ \in {"APP_IDLE", "APP_DETACH", "GONE"} THEN @
                                   ELSE "ERROR",
                        !.status = "ERROR"]

\* Programming clears bits; a byte the flash refuses keeps its value.
Programmed(d, from, bytes) ==
  [d EXCEPT !.memory[d.unit] =
     [a \in DOMAIN @ |->
        IF \E i \in 1 .. Len(bytes) : a = Where(d, (from + i - 1) % PageSize)
        THEN @[a] \cap bytes[CHOOSE i \in 1 .. Len(bytes) :
                               a = Where(d, (from + i - 1) % PageSize)]
        ELSE @[a]]]

\* ld_erase spares the boot loader; `kept` is what it fails to erase.
Erased(d, kept) ==
  [d EXCEPT !.memory["flash"] =
     [a \in DOMAIN @ |-> IF a \in Application \ kept THEN Blank ELSE @[a]]]

\* Blank check of the offsets 0 .. size of the page, the boot loader aside.
Checked(d, size) ==
  IF \A a \in 0 .. size : Where(d, a) \in Application =>
                            d.memory["flash"][Where(d, a)] = Blank
  THEN d ELSE [d EXCEPT !.state = "ERROR", !.status = "ERROR"]

CanFail == faults < MaxFaults

\* The transfer is answered, and the tool goes on at `next`.
Answered(after, next) == dev' = after /\ pc' = next /\ UNCHANGED <<faults, clean>>

\* Something goes wrong, with the device in one of `after`.
Fault(after, next) == /\ CanFail
                      /\ faults' = faults + 1 /\ clean' = FALSE
                      /\ dev' \in after /\ pc' = next

\* A request with no reply: `after` when the device accepts it, else a stall, which
\* a protected device also answers to what it could do.
dfu_transfer_out(accepted, after, ok, stall, lost) ==
  \/ IF accepted THEN Answered(after, ok) ELSE Answered(Stalled(dev), stall)
  \/ Fault({Stalled(dev)}, stall)
  \/ Fault({dev, IF accepted THEN after ELSE dev}, lost)

\* DNLOAD; the status of the command is what the device keeps for GETSTATUS.
dfu_download(after, ok, stall) ==
  dfu_transfer_out(dev.state \in Ready,
                   [after EXCEPT !.state = IF @ = "IDLE" THEN "DNLOAD_IDLE" ELSE @],
                   ok, stall, "failed")

dfu_abort(next) ==
  dfu_transfer_out(dev.state \in {"IDLE", "DNLOAD_IDLE", "UPLOAD_IDLE", "SYNC"},
                   [dev EXCEPT !.state = "IDLE"], next, next, next)

dfu_clear_status(next) ==
  dfu_transfer_out(dev.state \in {"ERROR", "IDLE"},
                   [dev EXCEPT !.state = "IDLE", !.status = "OK"], next, next, next)

dfu_detach(next) ==
  dfu_transfer_out(dev.state = "APP_IDLE", [dev EXCEPT !.state = "APP_DETACH"],
                   next, next, next)

\* What dfu_get_status can return: the device's status, an unknown error and
\* success when no answer came, -2 when the answer was too short.
StatusReplies ==
  {[code |-> 0, status |-> dev.status, state |-> dev.state, fault |-> FALSE]}
  \cup IF CanFail
       THEN {[code |-> 0,  status |-> "ERROR", state |-> "ERROR", fault |-> TRUE],
             [code |-> -2, status |-> "ERROR", state |-> "ERROR", fault |-> TRUE]}
       ELSE {}

dfu_get_status(r) ==
  /\ r \in StatusReplies
  /\ dev' = [dev EXCEPT !.state = IF @ = "SYNC" THEN "DNLOAD_IDLE" ELSE @]
  /\ faults' = IF r.fault THEN faults + 1 ELSE faults
  /\ clean'  = (clean /\ ~ r.fault)

-----------------------------------------------------------------------------
(* Start, and the device brought to dfuIDLE.                                *)

Init ==
  /\ dev \in [state : States, status : {"OK", "ERROR"}, unit : {"flash"}, page : {0},
              memory : {[flash |-> [a \in 0 .. End - 1 |-> IF a \in Bootloader THEN Blank
                                                                          ELSE old],
                         user  |-> [a \in 0 .. UserSize - 1 |-> Blank \ old]] : old \in {Blank, {}}}]
  /\ args = [command |-> "dump", file |-> <<>>, suppress |-> FALSE, skip |-> FALSE]
  /\ pc = "off" /\ hex = Nothing /\ buffer = Nothing
  /\ first = 0 /\ last = 0 /\ mem_page = 0 /\ retries = 0
  /\ faults = 0 /\ sessions = 0 /\ clean = TRUE /\ partial = FALSE

\* main: dfu_device_init finds the device, or there is none.
Start ==
  /\ pc \in Ended /\ sessions < MaxSessions
  /\ sessions' = sessions + 1
  /\ args' \in CommandLines
  /\ pc' = IF dev.state = "GONE" THEN "no_device" ELSE "make_idle"
  /\ retries' = 4
  /\ hex' = Nothing /\ buffer' = Nothing /\ first' = 0 /\ last' = 0 /\ mem_page' = 0
  /\ clean' = TRUE /\ partial' = FALSE
  /\ UNCHANGED <<dev, faults>>

\* dfu_make_idle: one status, and the request its state asks for.
dfu_make_idle ==
  /\ pc = "make_idle"
  /\ \E r \in StatusReplies :
       /\ dfu_get_status(r)
       /\ pc' = CASE r.code # 0 -> "clear_again"
                  [] r.code = 0 /\ r.state = "IDLE" /\ r.status = "OK" -> "execute"
                  [] r.code = 0 /\ (r.state = "ERROR" \/ (r.state = "IDLE" /\ r.status # "OK"))
                       -> "clear"
                  [] r.code = 0 /\ r.state \in {"SYNC", "DNLOAD_IDLE", "UPLOAD_IDLE", "BUSY"}
                       -> "abort"
                  [] r.code = 0 /\ r.state = "APP_IDLE" -> "detach"
                  [] r.code = 0 /\ r.state \in {"APP_DETACH", "WAIT_RESET"} -> "reset"
  /\ UNCHANGED <<args, hex, loops, buffer, sessions, partial>>

\* The request, and another turn of the loop while retries are left.
MakeIdleRequest ==
  LET next == IF retries > 1 \/ pc = "clear_again" THEN "make_idle" ELSE "no_device"
  IN /\ \/ pc \in {"clear", "clear_again"} /\ dfu_clear_status(next)
        \/ pc = "abort"  /\ dfu_abort(next)
        \/ pc = "detach" /\ dfu_detach(next)
     /\ retries' = IF pc = "clear_again" THEN retries ELSE retries - 1
     /\ UNCHANGED <<args, hex, first, last, mem_page, buffer, sessions, partial>>

\* The reset ends dfu_make_idle with 1 whether it worked or not, and dfu_device_init looks
\* for the device again, as often as it takes: with libusb 1.0 nothing reads its `retries`.
MakeIdleReset ==
  /\ pc = "reset"
  /\ \/ Answered([dev EXCEPT !.state = "IDLE", !.status = "OK", !.unit = "flash", !.page = 0],
                 "make_idle")
     \/ Fault({dev}, "make_idle")
  /\ retries' = 4
  /\ UNCHANGED <<args, hex, first, last, mem_page, buffer, sessions, partial>>

\* execute_command: the command the arguments name begins.
Execute(command, next) ==
  /\ pc = "execute" /\ args.command = command
  /\ pc' = next
  /\ UNCHANGED <<dev, args, first, last, mem_page, faults, sessions, clean, partial>>

execute_erase == Execute("erase", "erase") /\ retries' = 10 /\ UNCHANGED <<hex, buffer>>

\* hex_data, and the buffer that the validation reads into, cleared.
Image(command, size, dropped, addresses) ==
  LET loaded == Loaded[size][args.file]
      overlap == DOMAIN loaded.memory \cap dropped
  IN /\ UNCHANGED retries
     /\ IF loaded.state = "loaded" /\ (overlap = {} \/ args.skip)
        THEN /\ Execute(command, "select")
             /\ hex' = [a \in DOMAIN loaded.memory \ overlap |-> loaded.memory[a]]
             /\ buffer' = [a \in addresses |-> {}]
        ELSE Execute(command, "failed") /\ UNCHANGED <<hex, buffer>>

\* Bytes of the boot loader are an error, or are dropped from the image.
execute_flash_normal == args.command = "flash" /\ Image("flash", End, Bootloader, Application)

execute_flash_user_page == args.command = "user" /\ Image("user", UserSize, {}, 0 .. UserSize - 1)

execute_dump_normal    == Execute("dump", "read_select")  /\ UNCHANGED <<hex, buffer, retries>>
execute_dump_user_page == Execute("udump", "read_select") /\ UNCHANGED <<hex, buffer, retries>>

execute_command ==
  \/ execute_erase \/ execute_flash_normal \/ execute_flash_user_page
  \/ execute_dump_normal \/ execute_dump_user_page
  \/ Execute("start_app", "start_app") /\ UNCHANGED <<hex, buffer, retries>>
  \/ Execute("reset", "reset_command") /\ UNCHANGED <<hex, buffer, retries>>

-----------------------------------------------------------------------------
(* Erase and blank check.                                                   *)

\* The status loops of the erase and of the blank check: any answer ends them.
AwaitStatus(ok) ==
  \E r \in StatusReplies :
    /\ dfu_get_status(r)
    /\ retries' = IF r.code = 0 THEN 0 ELSE retries - 1
    /\ pc' = CASE r.code = 0 /\ r.status = "OK" -> ok
               [] r.code = 0 /\ r.status # "OK" -> "failed"
               [] r.code # 0 -> IF retries > 1 THEN pc ELSE "failed"

atmel_erase_flash ==
  /\ \/ /\ pc = "erase"
        /\ \/ dfu_download(Erased(dev, {}), "erase_status", "failed")
           \/ /\ dev.state \in Ready
              /\ \E a \in Application : Fault({Erased(dev, {a})}, "erase_status")
        /\ UNCHANGED retries
     \/ pc = "erase_status" /\ AwaitStatus("check_select")
  /\ UNCHANGED <<args, hex, first, last, mem_page, buffer, sessions, partial>>

\* The check of a page is of its offsets 0 .. size, whatever `first` is.
CheckSize(from) == Least(End - 1 - from, PageSize - 1)

\* Mutant: the page counter is not advanced.
MutantBlankCheck ==
  /\ \/ /\ pc = "check_select"
        /\ dfu_download([dev EXCEPT !.unit = "flash"], "check_page", "failed")
        /\ first' = BootSize /\ mem_page' = 0
        /\ UNCHANGED retries
     \/ /\ pc = "check_page"
        /\ dfu_download([dev EXCEPT !.page = mem_page], "check", "failed")
        /\ UNCHANGED <<first, mem_page, retries>>
     \/ /\ pc = "check"
        /\ dfu_download(Checked(dev, CheckSize(first)),
                        IF first + CheckSize(first) + 1 < End - 1 THEN "check_page"
                                                                  ELSE "check_status",
                        "failed")
        /\ first' = first + CheckSize(first) + 1
        /\ UNCHANGED mem_page
        /\ retries' = 20
     \/ /\ pc = "check_status" /\ AwaitStatus("done")
        /\ UNCHANGED <<first, mem_page>>
  /\ UNCHANGED <<args, hex, last, buffer, sessions, partial>>

atmel_blank_check ==
  /\ \/ /\ pc = "check_select"
        /\ dfu_download([dev EXCEPT !.unit = "flash"], "check_page", "failed")
        /\ first' = BootSize /\ mem_page' = 0
        /\ UNCHANGED retries
     \/ /\ pc = "check_page"
        /\ dfu_download([dev EXCEPT !.page = mem_page], "check", "failed")
        /\ UNCHANGED <<first, mem_page, retries>>
     \/ /\ pc = "check"
        /\ dfu_download(Checked(dev, CheckSize(first)),
                        IF first + CheckSize(first) + 1 < End - 1 THEN "check_page"
                                                                  ELSE "check_status",
                        "failed")
        /\ first' = first + CheckSize(first) + 1
        /\ mem_page' = mem_page + 1
        /\ retries' = 20
     \/ /\ pc = "check_status" /\ AwaitStatus("done")
        /\ UNCHANGED <<first, mem_page>>
  /\ UNCHANGED <<args, hex, last, buffer, sessions, partial>>

-----------------------------------------------------------------------------
(* Write.                                                                   *)

\* Mutant: page 0 is taken to be selected.
MutantSelect ==
  /\ \/ /\ pc = "select" /\ args.command = "flash"
        /\ dfu_download([dev EXCEPT !.unit = "flash"], "find", "failed")
        /\ first' = BootSize /\ UNCHANGED last
     \/ /\ pc = "select_page0"
        /\ dfu_download([dev EXCEPT !.page = 0], "find", "failed")
        /\ first' = BootSize /\ UNCHANGED last
     \/ /\ pc = "select" /\ args.command = "user"
        /\ dfu_download([dev EXCEPT !.unit = "user"], "block", "failed")
        /\ first' = 0 /\ last' = UserSize
  /\ UNCHANGED <<args, hex, mem_page, retries, buffer, sessions, partial>>

\* atmel_flash selects the flash and page 0; atmel_user the user page, one block.
atmel_select ==
  /\ \/ /\ pc = "select" /\ args.command = "flash"
        /\ dfu_download([dev EXCEPT !.unit = "flash"], "select_page0", "failed")
        /\ UNCHANGED <<first, last>>
     \/ /\ pc = "select_page0"
        /\ dfu_download([dev EXCEPT !.page = 0], "find", "failed")
        /\ first' = BootSize /\ UNCHANGED last
     \/ /\ pc = "select" /\ args.command = "user"
        /\ dfu_download([dev EXCEPT !.unit = "user"], "block", "failed")
        /\ first' = 0 /\ last' = UserSize
  /\ UNCHANGED <<args, hex, mem_page, retries, buffer, sessions, partial>>

Verify == IF args.suppress THEN "done" ELSE "read_select"

\* The next run of set bytes, cut at the end of the page; a run behind that end
\* waits for the next page to be selected.
FindBlock ==
  LET valid == {a \in DOMAIN hex : a >= first /\ a < End}
      from  == Min(valid)
      to    == Min({a \in from .. End : a \notin DOMAIN hex \/ a = End})
      edge  == PageSize * (1 + mem_page)
  IN /\ pc = "find"
     /\ IF valid = {}
        THEN /\ pc' = IF mem_page > 0 THEN "reselect" ELSE Verify
             /\ first' = End /\ UNCHANGED <<last, mem_page>>
        ELSE /\ first' = from
             /\ last' = IF edge <= to /\ from < edge THEN edge ELSE to
             /\ IF edge <= to /\ from >= edge
                THEN pc' = "next_page" /\ mem_page' = mem_page + 1
                ELSE pc' = "block" /\ UNCHANGED mem_page
     /\ UNCHANGED <<dev, args, hex, retries, buffer, faults, sessions, clean, partial>>

\* Mutant: the page counter moves on and the device is not told.
MutantSelectPage ==
  /\ \/ pc = "next_page" /\ Answered(dev, "find")
     \/ pc = "reselect"  /\ dfu_download([dev EXCEPT !.page = 0], Verify, "failed")
  /\ UNCHANGED <<args, hex, loops, buffer, sessions, partial>>

atmel_select_page ==
  /\ \/ pc = "next_page" /\ dfu_download([dev EXCEPT !.page = mem_page], "find", "failed")
     \/ pc = "reselect"  /\ dfu_download([dev EXCEPT !.page = 0], Verify, "failed")
  /\ UNCHANGED <<args, hex, loops, buffer, sessions, partial>>

\* The bytes of the block; what the file leaves unset in the user page goes as 0xFF.
BlockLength == Least(last - first, MaxTransfer)
Block == [i \in 1 .. BlockLength |-> IF first + i - 1 \in DOMAIN hex THEN hex[first + i - 1]
                                                                   ELSE Blank]

\* Mutant: a block sent does not count.
MutantFlashBlock ==
  /\ \/ /\ pc = "block"
        /\ \/ dfu_download(Programmed(dev, first % PageSize, Block),
                           "block_status", "block_clear")
           \/ /\ dev.state \in Ready
              /\ Fault({[dev EXCEPT !.state = "DNLOAD_IDLE"],
                        [dev EXCEPT !.state = "ERROR", !.status = "ERROR"]},
                       "block_status")
        /\ UNCHANGED first
     \/ pc = "block_clear" /\ dfu_clear_status("failed") /\ UNCHANGED first
     \/ /\ pc = "block_status"
        /\ \E r \in StatusReplies :
             /\ dfu_get_status(r)
             /\ IF r.code = 0 /\ r.status = "OK"
                THEN /\ first' = first
                     /\ pc' = CASE first' < last -> "block"
                                [] first' = last /\ args.command = "flash" -> "find"
                                [] first' = last /\ args.command = "user"  -> Verify
                ELSE pc' = "failed" /\ UNCHANGED first
  /\ UNCHANGED <<args, hex, last, mem_page, retries, buffer, sessions, partial>>

atmel_flash_block ==
  /\ \/ /\ pc = "block"
        /\ \/ dfu_download(Programmed(dev, first % PageSize, Block),
                           "block_status", "block_clear")
           \/ /\ dev.state \in Ready
              /\ Fault({[dev EXCEPT !.state = "DNLOAD_IDLE"],
                        [dev EXCEPT !.state = "ERROR", !.status = "ERROR"]},
                       "block_status")
        /\ UNCHANGED first
     \/ pc = "block_clear" /\ dfu_clear_status("failed") /\ UNCHANGED first
     \/ /\ pc = "block_status"
        /\ \E r \in StatusReplies :
             /\ dfu_get_status(r)
             /\ IF r.code = 0 /\ r.status = "OK"
                THEN /\ first' = first + BlockLength
                     /\ pc' = CASE first' < last -> "block"
                                [] first' = last /\ args.command = "flash" -> "find"
                                [] first' = last /\ args.command = "user"  -> Verify
                ELSE pc' = "failed" /\ UNCHANGED first
  /\ UNCHANGED <<args, hex, last, mem_page, retries, buffer, sessions, partial>>

-----------------------------------------------------------------------------
(* Read back, compare, dump, start the application.                         *)

\* atmel_read_flash: the first chunk ends with the first page.
ReadSelect ==
  /\ pc = "read_select"
  /\ IF OnUserPage(args.command)
     THEN /\ dfu_download([dev EXCEPT !.unit = "user"], "read", "failed")
          /\ first' = 0 /\ last' = UserSize
     ELSE /\ dfu_download([dev EXCEPT !.unit = "flash"], "read_page", "failed")
          /\ first' = BootSize /\ last' = PageSize
  /\ mem_page' = 0
  /\ UNCHANGED <<args, hex, retries, buffer, sessions, partial>>

\* Mutant: the page is selected before the first chunk only.
MutantReadPage ==
  /\ pc = "read_page"
  /\ dfu_download([dev EXCEPT !.page = 0], "read", "failed")
  /\ UNCHANGED <<args, hex, loops, buffer, sessions, partial>>

ReadPage ==
  /\ pc = "read_page"
  /\ dfu_download([dev EXCEPT !.page = mem_page], "read", "failed")
  /\ UNCHANGED <<args, hex, loops, buffer, sessions, partial>>

\* The command of __atmel_read_page, then its upload.
ReadCommand ==
  /\ pc = "read"
  /\ dfu_download([dev EXCEPT !.state = "UPLOAD_IDLE"], "upload", "failed")
  /\ UNCHANGED <<args, hex, loops, buffer, sessions, partial>>

\* Mutant: a 0 is taken for an unset byte.
MutantMatches(read) == \A a \in DOMAIN hex \cap DOMAIN read : hex[a] \notin {Blank, {}} => read[a] = hex[a]

Matches(read) == \A a \in DOMAIN hex \cap DOMAIN read : hex[a] # Blank => read[a] = hex[a]

Compared(read) == IF args.command \in {"dump", "udump"} \/ Matches(read) THEN "done" ELSE "failed"

\* Any upload that is not an error counts as a full one, and one of no bytes too.  The
\* status that is asked for after an error only chooses the message.
dfu_upload ==
  LET size == Least(last - first, MaxTransfer)
      top  == IF OnUserPage(args.command) THEN UserSize ELSE End
      Got(n) == Over([a \in first .. first + n - 1 |->
                        dev.memory[dev.unit][Where(dev, a % PageSize)]], buffer)
      next(n) == IF first + size < last THEN "read"
                 ELSE IF first + size < top THEN "read_page" ELSE Compared(Got(n))
  IN /\ pc = "upload"
     /\ \/ /\ Answered([dev EXCEPT !.state = "IDLE"], next(size))
           /\ buffer' = Got(size) /\ UNCHANGED partial
        \/ \E n \in 0 .. size - 1 :
             /\ Fault({[dev EXCEPT !.state = "IDLE"]}, next(n))
             /\ buffer' = Got(n) /\ partial' = TRUE
        \/ Fault({dev, Stalled(dev)}, "failed") /\ UNCHANGED <<buffer, partial>>
     /\ first' = first + size
     /\ IF first' = last /\ first' < top
        THEN mem_page' = mem_page + 1 /\ last' = Least(top, first' + PageSize)
        ELSE UNCHANGED <<mem_page, last>>
     /\ UNCHANGED <<args, hex, retries, sessions>>

\* The second, empty DNLOAD starts the application and the boot loader is gone; a
\* reset may also bring it back.
atmel_start_app ==
  /\ \/ pc = "start_app" /\ dfu_download(dev, "manifest", "failed")
     \/ pc = "manifest"  /\ dfu_download([dev EXCEPT !.state = "GONE"], "done", "failed")
     \/ /\ pc = "reset_command"
        /\ \E state \in {"GONE", "IDLE"} :
             dfu_download([dev EXCEPT !.state = state, !.unit = "flash", !.page = 0],
                          "done", "failed")
  /\ UNCHANGED <<args, hex, loops, buffer, sessions, partial>>

\* The user stops the tool, which leaves the device as it is.
Kill ==
  /\ pc \notin Ended /\ sessions < MaxSessions
  /\ pc' = "killed"
  /\ UNCHANGED <<dev, args, hex, loops, buffer, faults, sessions, clean, partial>>

Tool == \/ dfu_make_idle \/ MakeIdleRequest \/ MakeIdleReset \/ execute_command
        \/ atmel_erase_flash \/ atmel_blank_check
        \/ atmel_select \/ FindBlock \/ atmel_select_page \/ atmel_flash_block
        \/ ReadSelect \/ ReadPage \/ ReadCommand \/ dfu_upload \/ atmel_start_app

Next == Start \/ Kill \/ Tool

Spec == Init /\ [][Next]_vars /\ WF_vars(Tool)

-----------------------------------------------------------------------------
(* Properties.                                                              *)

\* Every variable has its type.
TypeOK ==
  /\ dev \in Device
  /\ args \in CommandLines
  /\ DOMAIN hex \subseteq 0 .. End - 1 /\ DOMAIN buffer \subseteq 0 .. End - 1
  /\ first \in 0 .. 2 * End /\ last \in 0 .. End /\ mem_page \in 0 .. Pages
  /\ clean \in BOOLEAN /\ partial \in BOOLEAN
  /\ retries \in 0 .. 20 /\ faults \in 0 .. MaxFaults /\ sessions \in 0 .. MaxSessions

\* What the records of a file say: a byte of a data record lies behind the last
\* base address before it, without the bit that is not in the chip's memory.
BaseAt(file, i) ==
  LET bases == {j \in 1 .. i : file[j].type \in {2, 4}}
  IN IF bases = {} THEN 0 ELSE file[Max(bases)].address % Space
Contents(file) ==
  UNION {{<<BaseAt(file, i) + file[i].address + k - 1, file[i].data[k]>> :
            k \in 1 .. Len(file[i].data)} : i \in {j \in 1 .. Len(file) : file[j].type = 0}}

\* A file as the format has it: the record that ends it is its last one, no data
\* follows a start address, and no byte is set twice to different values.
Regular(file) ==
  /\ \A i \in 1 .. Len(file) : file[i].type = 1 => i = Len(file)
  /\ \A i, j \in 1 .. Len(file) : file[i].type = 5 /\ file[j].type = 0 => j < i
  /\ \A c, d \in Contents(file) : c[1] = d[1] => c[2] = d[2]

\* A write that was validated and reported good left every byte of the file in the
\* device, whatever went wrong on the way and however an earlier run ended: only
\* 0xFF is not compared, and a 0 may not have been read (the buffer starts as 0).
ValidatedImageIsWritten ==
  pc = "done" /\ args.command \in {"flash", "user"} /\ ~ args.suppress =>
    LET memory == dev.memory[IF args.command = "user" THEN "user" ELSE "flash"]
    IN \A c \in Contents(args.file) :
         \/ c[2] = Blank
         \/ c[2] = {} /\ partial
         \/ args.command = "flash" /\ args.skip /\ c[1] \in Bootloader
         \/ memory[c[1]] = c[2]

\* A write touches the bytes of the image and no other, each with its own value,
\* whatever page and memory an earlier run left selected; the boot loader never changes.
OnlyTheImageIsWritten ==
  [][\A unit \in {"flash", "user"} : \A a \in DOMAIN dev.memory[unit] :
       dev'.memory[unit][a] # dev.memory[unit][a] =>
         \/ pc = "erase" /\ unit = "flash" /\ a \notin Bootloader
         \/ /\ pc = "block" /\ unit = (IF args.command = "user" THEN "user" ELSE "flash")
            /\ a \in DOMAIN hex /\ dev'.memory[unit][a] = dev.memory[unit][a] \cap hex[a]
            /\ unit = "flash" => a \notin Bootloader]_vars

\* An erasure reported good left the application blank, but for the end of the last
\* page, which the blank check does not reach.
ErasedIsBlank ==
  pc = "done" /\ args.command = "erase" =>
    \A a \in Application : a + BootSize < End => dev.memory["flash"][a] = Blank

\* A dump reported good is the application's memory or the user page, each byte at
\* its place.
DumpIsTheMemory ==
  pc = "done" /\ args.command \in {"dump", "udump"} /\ ~ partial =>
    /\ DOMAIN buffer = IF args.command = "udump" THEN 0 .. UserSize - 1 ELSE Application
    /\ \A a \in DOMAIN buffer :
         buffer[a] = dev.memory[IF args.command = "udump" THEN "user" ELSE "flash"][a]

\* A file that a memory of this size can be written from.
Writable(file, size) ==
  /\ Regular(file) /\ \A i \in 1 .. Len(file) : file[i].valid
  /\ \E i \in 1 .. Len(file) : file[i].type = 1
  /\ \A c \in Contents(file) : c[1] < size

\* The file of a write is no such file, or has bytes of the boot loader that the user
\* did not say to skip.
FileAtFault ==
  \/ ~ Writable(args.file, IF args.command = "user" THEN UserSize ELSE End)
  \/ /\ args.command = "flash" /\ ~ args.skip
     /\ \E c \in Contents(args.file) : c[1] \in Bootloader

\* A byte to be written has bits that the memory has not, and only an erasure sets them.
\* The write itself takes no such bit away (OnlyTheImageIsWritten), so that it was
\* missing when the run began.
NeedsErasing ==
  LET unit == IF args.command = "user" THEN "user" ELSE "flash"
  IN \E c \in Contents(args.file) :
       /\ c[1] \in DOMAIN dev.memory[unit]
       /\ c[2] # Blank /\ ~ (c[2] \subseteq dev.memory[unit][c[1]])
       /\ unit = "flash" => c[1] \notin Bootloader

\* dfu_make_idle gets a device that answers to dfuIDLE from every state, and a run that
\* nothing disturbs then succeeds.  A write alone may fail: for a file at fault, and when
\* its validation finds a memory that was not blank where the file has ones.
UndisturbedRunsSucceed ==
  clean /\ pc \in {"no_device", "failed"} =>
    \/ dev.state = "GONE"
    \/ /\ pc = "failed" /\ args.command \in {"flash", "user"}
       /\ FileAtFault \/ (~ args.suppress /\ NeedsErasing)

\* Every run of the tool ends.
RunsEnd == (pc \notin Ended) ~> (pc \in Ended)

=============================================================================
