------------------------------ MODULE CoreTasks -----------------------------
(***************************************************************************)
(* The two tasks of the board and what they share (core.c, sys_conf.c,     *)
(* calibration.c, pc_comm.c, pc_comm_usb.c): the core task, which wakes up *)
(* every period, copies the configuration and runs in one of three modes,  *)
(* and the communication task, which runs the host's commands under two    *)
(* mutexes, waits for the USB endpoint and clears the watchdog.            *)
(*                                                                         *)
(* The core task has the higher priority: it runs whenever its period is   *)
(* due, unless it waits for a mutex the communication task holds.  Time    *)
(* passes while both wait, and at most once inside a handler that does     *)
(* not, which takes far less than a period.                                *)
(*                                                                         *)
(* slave_send_mutex is only ever taken by the communication task and holds *)
(* nobody up: it has no variable.                                          *)
(***************************************************************************)
EXTENDS Conversions

CONSTANTS
    ItemNb,         \* items of the configuration a command may write
    Version,        \* values of an item; one of them is 0, the initial one
    RawValues,      \* what an input can measure
    DEFAULT_MIN_VALUE, DEFAULT_MIDDLE_VALUE, DEFAULT_MAX_VALUE,
    Banks,          \* packets the endpoint holds
    ReplyPackets,   \* packets of the reply to a request for configuration
    ReadDelay,      \* periods within which a live host reads a packet
    WatchdogDelay,  \* periods after which the watchdog resets the board
    MaxCommands,    \* bound: commands in a behaviour
    MaxStops        \* bound: times the host goes away

Item == 1..ItemNb
Mode == {"NORMAL", "OUTPUT_CALIB", "INPUT_CALIB"}
Calib == [min : RawValues \cup {DEFAULT_MIN_VALUE, DEFAULT_MAX_VALUE},
          max : RawValues \cup {DEFAULT_MIN_VALUE, DEFAULT_MAX_VALUE}]

ASSUME ConfAssumption == ItemNb \in Nat \ {0} /\ 0 \in Version

ASSUME CalibAssumption ==
    /\ RawValues \subseteq Raw
    /\ {DEFAULT_MIN_VALUE, DEFAULT_MIDDLE_VALUE, DEFAULT_MAX_VALUE} \subseteq Raw
    /\ DEFAULT_MIN_VALUE < DEFAULT_MIDDLE_VALUE
    /\ DEFAULT_MIDDLE_VALUE < DEFAULT_MAX_VALUE

ASSUME TimeAssumption ==
    /\ Banks \in Nat \ {0} /\ ReplyPackets \in Nat \ {0}
    /\ ReadDelay \in Nat \ {0} /\ WatchdogDelay \in Nat \ {0}
    /\ MaxCommands \in Nat /\ MaxStops \in Nat

VARIABLES
    mode,           \* core.c: mode
    items, calib,   \* sys_conf.c: sys_conf, the values and one input's calib
    copy,           \* core.c: sys_conf, the core task's copy
    held,           \* mutex the communication task holds, or "none"
    core,           \* core task: "copy" or the mode it runs in
    late,           \* periods due the core task has not finished
    comm_pc, ind, version, left,   \* communication task
    tx,             \* packets in the endpoint, which the host has not read
    waited,         \* periods it has held them
    alive,          \* the host reads and sends
    dog,            \* periods since the watchdog was cleared
    tick_used       \* a period began inside the handler that is running

\* History, read by properties and by the bounds.
VARIABLES
    committed,      \* items after the last command handled to its end
    seen,           \* raw values measured since the calibration was reset
    commands, stops

conf == <<items, calib, committed, seen>>
task == <<core, late>>
comm == <<comm_pc, ind, version, left, held, commands>>
host == <<tx, waited, alive, stops>>
vars == <<mode, conf, copy, task, comm, host, dog, tick_used>>

Smaller(a, b) == IF a < b THEN a ELSE b
Greater(a, b) == IF a < b THEN b ELSE a

-----------------------------------------------------------------------------
(* The core task *)

Running == dog < WatchdogDelay

\* The mutexes: sys_conf_copy needs one, api_ctrl_update the other.
CoreBlocked ==
    \/ core = "copy" /\ held = "sysconf_mutex"
    \/ core = "NORMAL" /\ held = "api_ctrl_mutex"

CoreReady == late > 0 /\ ~CoreBlocked

CoreCopy ==
    /\ Running /\ CoreReady /\ core = "copy"
    /\ copy' = [items |-> items, calib |-> calib]
    /\ core' = mode
    /\ UNCHANGED <<mode, conf, late, comm, host, dog, tick_used>>

\* A wake-up time that is never advanced: the next delay returns at once.
MutantCoreEnds == core' = "copy" /\ late' = late

\* The end of a run, up to vTaskDelayUntil.
CoreEnds == core' = "copy" /\ late' = late - 1

\* core_inputs_get_all: what a run in the normal mode makes of a measure, by
\* its copy of the calibration, whose middle only SET_INPUT_CALIB_VALUE changes.
InputValue(raw) ==
    InputRawToRc([min |-> copy.calib.min, mid |-> DEFAULT_MIDDLE_VALUE,
                  max |-> copy.calib.max], raw)

\* OutputControl and OutputCalib have these modes, of which nothing is seen here
\* but the time they take.
RunOutputs ==
    /\ Running /\ CoreReady /\ core \in {"NORMAL", "OUTPUT_CALIB"}
    /\ CoreEnds
    /\ UNCHANGED <<mode, conf, copy, comm, host, dog, tick_used>>

DetectBounds(c, raw) ==
    [min |-> Smaller(c.min, raw), max |-> Greater(c.max, raw)]

\* The bounds are widened from the copy, and stored if the input is active
\* and one of them has changed.
RunInputCalib ==
    /\ Running /\ CoreReady /\ core = "INPUT_CALIB"
    /\ \/ UNCHANGED <<calib, seen>>     \* the input is not active
       \/ \E raw \in RawValues :
             /\ seen' = seen \cup {raw}
             /\ calib' = IF DetectBounds(copy.calib, raw) # copy.calib
                         THEN DetectBounds(copy.calib, raw) ELSE calib
    /\ CoreEnds
    /\ UNCHANGED <<mode, items, committed, copy, comm, host, dog,
                   tick_used>>

Core == CoreCopy \/ RunOutputs \/ RunInputCalib

-----------------------------------------------------------------------------
(* The communication task *)

CommRuns == Running /\ ~CoreReady
commIdle == comm_pc = "idle"
Waiting == comm_pc = "send" /\ tx = Banks

\* Without the watchdog's clear after a command.
MutantHandlerEnds ==
    /\ comm_pc' = "idle" /\ held' = "none" /\ tick_used' = FALSE
    /\ UNCHANGED dog

\* A handler that returns ends an iteration of comm_task.
HandlerEnds ==
    /\ comm_pc' = "idle" /\ held' = "none" /\ dog' = 0 /\ tick_used' = FALSE

HandlerGoesOn == UNCHANGED <<dog, tick_used>>

Receive ==
    /\ CommRuns /\ commIdle /\ alive /\ commands < MaxCommands
    /\ commands' = commands + 1

\* Without the mutex.
MutantSetConf ==
    /\ Receive
    /\ comm_pc' = "write" /\ held' = "none"
    /\ ind' \in Item /\ version' \in Version
    /\ HandlerGoesOn
    /\ UNCHANGED <<mode, conf, copy, task, left, host>>

\* The commands that write members of an array, from the index in the packet.  Those
\* members are not the input calibrations: a host that writes them itself
\* (SET_INPUT_CALIB_VALUE, sys_conf.c:138) is left out, and they are the measured ones.
SetConf ==
    /\ Receive
    /\ comm_pc' = "write" /\ held' = "sysconf_mutex"
    /\ ind' \in Item /\ version' \in Version
    /\ HandlerGoesOn
    /\ UNCHANGED <<mode, conf, copy, task, left, host>>

WriteItem ==
    /\ CommRuns /\ comm_pc = "write" /\ ind <= ItemNb
    /\ items' = [items EXCEPT ![ind] = version]
    /\ ind' = ind + 1
    /\ HandlerGoesOn
    /\ UNCHANGED <<mode, calib, committed, seen, copy, task, comm_pc,
                   version, left, held, commands, host>>

ConfWritten ==
    /\ CommRuns /\ comm_pc = "write" /\ ind > ItemNb
    /\ committed' = items
    /\ HandlerEnds
    /\ UNCHANGED <<mode, items, calib, seen, copy, task, ind, version,
                   left, commands, host>>

\* The requests, which hold one mutex or none while they send their packets.
Request(mutex, packets) ==
    /\ Receive
    /\ comm_pc' = "send" /\ held' = mutex /\ left' = packets
    /\ HandlerGoesOn
    /\ UNCHANGED <<mode, conf, copy, task, ind, version, host>>

RequestConf == Request("sysconf_mutex", ReplyPackets)
RequestGoals == Request("api_ctrl_mutex", 1)
RequestValues == Request("none", 1)

\* avr32_usb_dev_send spins until the host has read the packet before.
SendPacket ==
    /\ CommRuns /\ comm_pc = "send" /\ tx < Banks
    /\ tx' = tx + 1
    /\ waited' = IF tx = 0 THEN 0 ELSE waited
    /\ left' = left - 1
    /\ IF left = 1 THEN HandlerEnds
       ELSE HandlerGoesOn /\ UNCHANGED <<comm_pc, held>>
    /\ UNCHANGED <<mode, conf, copy, task, ind, version, commands,
                   alive, stops>>

\* The commands that only write what OutputControl has: goals, masks, frames.
SetGoal ==
    /\ Receive
    /\ HandlerEnds
    /\ UNCHANGED <<mode, conf, copy, task, ind, version, left, host>>

\* core_change_mode: the mode first, then the bounds of the calibration.
SetMode ==
    /\ Receive
    /\ mode' \in Mode
    /\ IF mode' = "INPUT_CALIB"
       THEN comm_pc' = "take" /\ HandlerGoesOn /\ UNCHANGED held
       ELSE HandlerEnds
    /\ UNCHANGED <<conf, copy, task, ind, version, left, host>>

TakeForReset ==
    /\ CommRuns /\ comm_pc = "take"
    /\ comm_pc' = "reset" /\ held' = "sysconf_mutex"
    /\ HandlerGoesOn
    /\ UNCHANGED <<mode, conf, copy, task, ind, version, left,
                   commands, host>>

ResetInputCalib ==
    /\ CommRuns /\ comm_pc = "reset"
    /\ calib' = [min |-> DEFAULT_MAX_VALUE, max |-> DEFAULT_MIN_VALUE]
    /\ seen' = {}
    /\ HandlerEnds
    /\ UNCHANGED <<mode, items, committed, copy, task, ind, version,
                   left, commands, host>>

Comm == \/ SetConf \/ WriteItem \/ ConfWritten
        \/ RequestConf \/ RequestGoals \/ RequestValues \/ SendPacket
        \/ SetGoal \/ SetMode \/ TakeForReset \/ ResetInputCalib

-----------------------------------------------------------------------------
(* Time, the host and the watchdog *)

\* The watchdog cleared in the wait for the endpoint.
MutantTick ==
    /\ Running /\ ~CoreReady
    /\ commIdle \/ Waiting \/ ~tick_used
    /\ alive /\ tx > 0 => waited < ReadDelay
    /\ late' = late + 1
    /\ waited' = IF tx > 0 THEN Smaller(waited + 1, ReadDelay) ELSE waited
    /\ dog' = 0
    /\ tick_used' = (~commIdle /\ (tick_used \/ ~Waiting))
    /\ UNCHANGED <<mode, conf, copy, core, comm, tx,
                   alive, stops>>

\* A live host reads a packet within ReadDelay.  An idle communication task
\* polls the endpoint and clears the watchdog many times in a period.
Tick ==
    /\ Running /\ ~CoreReady
    /\ commIdle \/ Waiting \/ ~tick_used
    /\ alive /\ tx > 0 => waited < ReadDelay
    /\ late' = late + 1
    /\ waited' = IF tx > 0 THEN Smaller(waited + 1, ReadDelay) ELSE waited
    /\ dog' = IF commIdle THEN 0 ELSE dog + 1
    /\ tick_used' = (~commIdle /\ (tick_used \/ ~Waiting))
    /\ UNCHANGED <<mode, conf, copy, core, comm, tx,
                   alive, stops>>

HostReads ==
    /\ Running /\ alive /\ tx > 0
    /\ tx' = tx - 1 /\ waited' = 0
    /\ UNCHANGED <<mode, conf, copy, task, comm, alive, stops, dog,
                   tick_used>>

HostStops ==
    /\ Running /\ alive /\ stops < MaxStops
    /\ alive' = FALSE /\ stops' = stops + 1
    /\ UNCHANGED <<mode, conf, copy, task, comm, tx, waited, dog,
                   tick_used>>

\* What a start leaves in memory: init_sys_conf, core_main_init.
Start ==
    [mode |-> "NORMAL",
     items |-> [i \in Item |-> 0],
     calib |-> [min |-> DEFAULT_MIN_VALUE, max |-> DEFAULT_MAX_VALUE],
     seen |-> {}]

Init ==
    /\ mode = Start.mode
    /\ items = Start.items /\ committed = Start.items
    /\ calib = Start.calib /\ seen = Start.seen
    /\ copy = [items |-> Start.items, calib |-> Start.calib]
    /\ core = "copy" /\ late = 0
    /\ comm_pc = "idle" /\ held = "none"
    /\ ind = 1 /\ version = 0 /\ left = 0 /\ commands = 0
    /\ tx = 0 /\ waited = 0 /\ alive = TRUE /\ stops = 0
    /\ dog = 0 /\ tick_used = FALSE

\* The watchdog resets the board, which the host finds again on the bus.
WatchdogReset ==
    /\ ~Running
    /\ mode' = Start.mode
    /\ items' = Start.items /\ committed' = Start.items
    /\ calib' = Start.calib /\ seen' = Start.seen
    /\ copy' = [items |-> Start.items, calib |-> Start.calib]
    /\ core' = "copy" /\ late' = 0
    /\ comm_pc' = "idle" /\ held' = "none"
    /\ ind' = 1 /\ version' = 0 /\ left' = 0
    /\ tx' = 0 /\ waited' = 0 /\ alive' = TRUE
    /\ dog' = 0 /\ tick_used' = FALSE
    /\ UNCHANGED <<commands, stops>>

Next == Core \/ Comm \/ Tick \/ HostReads \/ HostStops \/ WatchdogReset

\* The scheduler runs the tasks, the timer ticks, a live host reads.
Fairness ==
    /\ WF_vars(Core) /\ WF_vars(Comm) /\ WF_vars(Tick)
    /\ WF_vars(HostReads) /\ WF_vars(WatchdogReset)

Spec == Init /\ [][Next]_vars /\ Fairness

-----------------------------------------------------------------------------
(* Properties *)

\* Every variable keeps its type; the core task never falls further behind
\* than the watchdog allows.
TypeOK ==
    /\ mode \in Mode
    /\ items \in [Item -> Version] /\ committed \in [Item -> Version]
    /\ calib \in Calib /\ seen \in SUBSET RawValues
    /\ copy \in [items : [Item -> Version], calib : Calib]
    /\ held \in {"none", "sysconf_mutex", "api_ctrl_mutex"}
    /\ core \in Mode \cup {"copy"}
    /\ late \in 0..(WatchdogDelay + 1)
    /\ comm_pc \in {"idle", "write", "send", "take", "reset"}
    /\ ind \in 1..(ItemNb + 1) /\ version \in Version
    /\ left \in 0..ReplyPackets
    /\ tx \in 0..Banks /\ waited \in 0..ReadDelay
    /\ alive \in BOOLEAN /\ dog \in 0..WatchdogDelay
    /\ tick_used \in BOOLEAN
    /\ commands \in 0..MaxCommands /\ stops \in 0..MaxStops

\* sys_conf_copy (sys_conf.c:284): the core task works on the configuration
\* some command has finished writing, never on half of a packet.
ConfigIsWhole == [][copy' # copy => copy'.items = committed']_vars

\* input_calib_core_run (calibration.c:103): whatever the mode, the resets and
\* the periods in between, the stored bounds are those of what was measured
\* since the last reset, so no measure taken from a stale copy is lost and
\* none taken before the reset survives it.
BoundsAreMeasured ==
    mode = "INPUT_CALIB" /\ comm_pc \notin {"take", "reset"} =>
        /\ calib.min \in seen \cup {DEFAULT_MAX_VALUE}
        /\ calib.max \in seen \cup {DEFAULT_MIN_VALUE}
        /\ \A raw \in seen : calib.min <= raw /\ raw <= calib.max

\* calibration.c:60: when the board goes back to the normal mode after a
\* calibration, however it went, the first run keeps the order of the measures
\* and gives the extreme ones their full scale if they lie on both sides of the
\* middle.
MeasuresReachFullScale ==
    [][CoreCopy /\ core' = "NORMAL" =>
          /\ \A raw \in RawValues, other \in RawValues :
                raw <= other => InputValue(raw)' <= InputValue(other)'
          /\ \A low \in seen, high \in seen :
                /\ \A raw \in seen : low <= raw /\ raw <= high
                /\ low < DEFAULT_MIDDLE_VALUE /\ DEFAULT_MIDDLE_VALUE < high
                => /\ InputValue(low)' = RC_VALUE_MIN
                   /\ InputValue(high)' = RC_VALUE_MAX]_vars

\* main.c:69: the watchdog only bites when the communication task is stuck,
\* which a host that keeps reading never makes it.
LiveHostIsNotReset == [][alive => dog' < WatchdogDelay]_vars

\* core.c:201: whatever the communication task holds and whoever reads, the
\* core task always gets to the end of its periods.
CoreCatchesUp == late > 0 ~> late = 0

\* pc_comm_usb.c:41: the wait for the endpoint ends, by the host or by the
\* watchdog.
HandlersEnd == ~commIdle ~> commIdle
=============================================================================
