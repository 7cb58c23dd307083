-------------------------------- MODULE Boot --------------------------------
(***************************************************************************)
(* What happens between a reset of the board and its scheduler: the DFU    *)
(* bootloader looks at a fuse, the firmware counts in flash the resets due *)
(* to its own errors and after too many of them returns to the bootloader, *)
(* where it can be replaced (system.c, main.c, exception_handler.c).       *)
(*                                                                         *)
(* The counter is the first byte of the user page of the flash: to set it, *)
(* flashc_memcpy erases the page, which reads 255, and then writes it.  The *)
(* power may fail, or the reset button be pressed, at any moment; a task   *)
(* may hang or raise an exception whenever the scheduler runs, even while  *)
(* the communication task is writing the flash on behalf of the host.      *)
(*                                                                         *)
(* unstable and torn are history variables: the number of starts in a row  *)
(* that followed an error, and whether the last return to the bootloader   *)
(* was cut between its fuse and its counter.                               *)
(***************************************************************************)
EXTENDS Naturals

VARIABLES pc, cause, fuse, counter, nb, next, watchdog, broken, unstable, torn

flash == <<fuse, counter>>
call == <<nb, next>>
bootVars == <<pc, cause, fuse, counter, nb, next, watchdog, broken, unstable, torn>>

Byte == 0..255

\* The number of counted resets at which the firmware gives up.
Limit == 3

\* The steps of reset_to_bootloader and set_reset_nb, which a task that
\* preempts the communication task can interrupt.
Writing == {"fuse", "erase", "write"}

\* pc is "reset" when the CPU comes out of a reset, "init" until the watchdog
\* is enabled, "hung" when some task no longer lets the watchdog be cleared
\* and "wait" at the end of wdt_reset_mcu.
BootTypeOK ==
    /\ pc \in {"reset", "bootloader", "check", "init", "run", "hung", "handler", "wait"} \union Writing
    /\ cause \in {"cold", "watchdog", "cpu"}
    /\ fuse \in BOOLEAN
    /\ counter \in Byte
    /\ nb \in Byte
    /\ next \in {"init", "wait"}
    /\ watchdog \in BOOLEAN
    /\ broken \in BOOLEAN
    /\ unstable \in Nat
    /\ torn \in BOOLEAN

BootInit ==
    /\ pc = "reset"
    /\ cause = "cold"
    /\ fuse = FALSE
    /\ counter = 255                     \* the user page as programmed: erased
    /\ nb = 0
    /\ next = "init"
    /\ watchdog = FALSE
    /\ broken \in BOOLEAN
    /\ unstable = 0
    /\ torn = FALSE

-----------------------------------------------------------------------------
(* Resets and the bootloader.                                              *)

\* The cause of the reset is a watchdog or a CPU error.
Unstable(c) == c \in {"watchdog", "cpu"}

\* The reset vector is in the bootloader, which stays when the fuse asks it to.
Boot ==
    /\ pc = "reset"
    /\ IF fuse
       THEN pc' = "bootloader" /\ unstable' = 0
       ELSE pc' = "check" /\ unstable' = IF Unstable(cause) THEN unstable + 1 ELSE 0
    /\ UNCHANGED <<cause, flash, call, watchdog, broken, torn>>

\* The host programs a firmware, good or bad.
Program ==
    /\ pc = "bootloader"
    /\ broken' \in BOOLEAN
    /\ UNCHANGED <<pc, cause, flash, call, watchdog, unstable, torn>>

ClearFuse ==
    /\ pc = "bootloader"
    /\ fuse' = FALSE
    /\ UNCHANGED <<pc, cause, counter, call, watchdog, broken, unstable, torn>>

\* The bootloader starts the firmware, by a jump or by a watchdog reset.
Leave ==
    /\ pc = "bootloader"
    /\ ~fuse
    /\ cause' \in {cause, "watchdog"}
    /\ pc' = "check"
    /\ unstable' = IF Unstable(cause') THEN 1 ELSE 0
    /\ UNCHANGED <<flash, call, watchdog, broken, torn>>

\* The history of a reset or an error in the middle of reset_to_bootloader.
Interrupted == torn' = (torn \/ (fuse /\ pc \in {"erase", "write"}))

\* The power or the reset button, at any moment.  An erase or a write of the
\* flash that is cut leaves any byte.
ColdReset ==
    /\ pc' = "reset"
    /\ cause' = "cold"
    /\ counter' \in IF pc \in {"erase", "write"} THEN Byte ELSE {counter}
    /\ watchdog' = FALSE
    /\ Interrupted
    /\ UNCHANGED <<fuse, call, broken, unstable>>

WatchdogReset ==
    /\ pc \in {"hung", "handler", "wait"}
    /\ watchdog
    /\ pc' = "reset"
    /\ cause' = "watchdog"
    /\ watchdog' = FALSE
    /\ UNCHANGED <<flash, call, broken, unstable, torn>>

-----------------------------------------------------------------------------
(* The firmware.                                                           *)

CallSetResetNb(n, after) == pc' = "erase" /\ nb' = n /\ next' = after

CallResetToBootloader == pc' = "fuse" /\ nb' = 0 /\ next' = "wait"

\* A bug: a cold start keeps the counter.
MutantKeepsCounter ==
    /\ pc = "check"
    /\ IF Unstable(cause)
       THEN IF counter >= Limit
            THEN CallResetToBootloader
            ELSE CallSetResetNb(counter + 1, "init")
       ELSE pc' = "init" /\ UNCHANGED call
    /\ torn' = (torn /\ Unstable(cause))
    /\ UNCHANGED <<cause, flash, watchdog, broken, unstable>>

\* check_buggy_firmware: what it does with the counter it finds.
CheckBuggyFirmware ==
    /\ pc = "check"
    /\ IF Unstable(cause)
       THEN IF counter >= Limit
            THEN CallResetToBootloader
            ELSE CallSetResetNb(counter + 1, "init")
       ELSE IF counter # 0
            THEN CallSetResetNb(0, "init")
            ELSE pc' = "init" /\ UNCHANGED call
    /\ torn' = (torn /\ Unstable(cause))
    /\ UNCHANGED <<cause, flash, watchdog, broken, unstable>>

SetFuse ==
    /\ pc = "fuse"
    /\ fuse' = TRUE
    /\ pc' = "erase"
    /\ UNCHANGED <<cause, counter, call, watchdog, broken, unstable, torn>>

ErasePage ==
    /\ pc = "erase"
    /\ counter' = 255
    /\ pc' = "write"
    /\ UNCHANGED <<cause, fuse, call, watchdog, broken, unstable, torn>>

\* The byte is written; wdt_reset_mcu, which may follow, enables the watchdog.
WritePage ==
    /\ pc = "write"
    /\ counter' = nb
    /\ pc' = next
    /\ watchdog' = (watchdog \/ next = "wait")
    /\ torn' = (torn /\ nb # 0)
    /\ UNCHANGED <<cause, fuse, call, broken, unstable>>

\* The end of system_init, and main up to the scheduler.
StartScheduler ==
    /\ pc = "init"
    /\ watchdog' = TRUE
    /\ pc' = "run"
    /\ UNCHANGED <<cause, flash, call, broken, unstable, torn>>

\* The host asks for the bootloader.
Request ==
    /\ pc = "run"
    /\ CallResetToBootloader
    /\ UNCHANGED <<cause, flash, watchdog, broken, unstable, torn>>

-----------------------------------------------------------------------------
(* Errors of the firmware.                                                 *)

\* Other tasks run, and may fail, when the scheduler does.
Scheduled == watchdog /\ pc \in {"run"} \union Writing

\* A task hangs: the watchdog is no longer cleared.
Hang ==
    /\ Scheduled
    /\ pc' = "hung"
    /\ Interrupted
    /\ UNCHANGED <<cause, flash, call, watchdog, broken, unstable>>

\* An exception; the handler stops the watchdog to show its message.
Exception ==
    /\ Scheduled \/ pc = "init"
    /\ pc' = "handler"
    /\ watchdog' = FALSE
    /\ Interrupted
    /\ UNCHANGED <<cause, flash, call, broken, unstable>>

\* An error in the handling of an exception resets the CPU by itself.
CpuError ==
    /\ Scheduled \/ pc = "init"
    /\ pc' = "reset"
    /\ cause' = "cpu"
    /\ watchdog' = FALSE
    /\ Interrupted
    /\ UNCHANGED <<flash, call, broken, unstable>>

Fault == Hang \/ Exception \/ CpuError

\* A bug: the handler shows its message forever.
MutantHandlerEnd == pc = "handler" /\ ~watchdog /\ UNCHANGED bootVars

\* The handler has shown its message twice and enables the watchdog again.
HandlerEnd ==
    /\ pc = "handler"
    /\ ~watchdog
    /\ watchdog' = TRUE
    /\ UNCHANGED <<pc, cause, flash, call, broken, unstable, torn>>

-----------------------------------------------------------------------------

\* What happens by itself: nothing else is needed for the next step.
Proceed ==
    \/ Boot
    \/ CheckBuggyFirmware
    \/ SetFuse
    \/ ErasePage
    \/ WritePage
    \/ StartScheduler
    \/ HandlerEnd
    \/ WatchdogReset

BootNext ==
    \/ Proceed
    \/ Fault
    \/ Request
    \/ Program \/ ClearFuse \/ Leave
    \/ ColdReset

BootSpec == BootInit /\ [][BootNext]_bootVars

\* A broken firmware is one that fails again each time it is started.
FairSpec ==
    /\ BootSpec
    /\ WF_bootVars(Proceed)
    /\ WF_bootVars(broken /\ Fault)

-----------------------------------------------------------------------------
(* Properties.                                                             *)

\* The firmware goes to the bootloader of its own accord only after more than
\* three errors in a row: no power failure, at any moment of a write of the
\* counter, and no error before the last cold start count as errors of it.
\* The exception is a return to the bootloader that was itself cut between
\* its fuse and its counter (system.c:26 and 29), which leaves any counter.
OnlyUnstableFirmwareIsLeft ==
    [][pc = "check" /\ pc' = "fuse" => unstable > Limit \/ torn]_bootVars

\* A broken firmware can always be replaced: unless somebody resets the board
\* again and again, it ends in the bootloader, whatever its errors are and
\* whatever was in the flash (main.c:64, "Restart bootloader if firmware is
\* unstable").
BrokenFirmwareIsLeft ==
    \/ []<><<ColdReset>>_bootVars
    \/ (broken /\ pc = "run") ~> (pc = "bootloader")

=============================================================================
