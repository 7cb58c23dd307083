# OpenSCB servo controller: TLA+ models and proofs

OpenSCB (`src/`) is a servo board for radio-control models and robots: the
firmware of an AVR32 micro-controller running FreeRTOS (`src/Embedded/src`), the
PC library that talks to it over USB (`src/API/src`) and the tool that programs it
(`src/API/dfu-prog`). The board makes the pulses of up to 24 servos in software,
decodes the signal of a radio receiver, and moves its outputs to goals or frames
sent by the PC.

This directory holds TLA+ models of that logic, the TLC configurations that
check them on small instances, and TLAPS proofs of what matters most. Paths
below are relative to `src/Embedded/src` unless they start with `API/`.

Contents: [the system](#the-system), [the modules](#the-modules),
[the runs](#the-runs), [fairness](#fairness), [the proofs](#the-proofs),
[disagreements found](#disagreements-found), [beyond the bounds](#beyond-the-bounds),
[not modelled](#not-modelled), [plan](#plan), [using the project](#using-the-project).

## The system

### Components, their state and their operations

| Component | Source | State it keeps | Operations |
|---|---|---|---|
| Servo pulse output | `io/servo_out_bb.c` | two step arrays, five pointers into them, pulse widths, mask of active outputs | `servobb_set_value`, `servobb_apply_values` (core task), `servo_hard_tc_irq` (level 3 interrupt) |
| Receiver input (PPM) | `io/rx_input.c` | 64-entry FIFO of edges with two indices, last pulse of 16 channels, the active flag | `gpio_level_irq` (level 2 interrupt), `process_input`, `get_value` (core task) |
| Core task | `core.c`, `out_ctrl.c` | mode, copies of the inputs, outputs and configuration | one pass every 14 ms; `core_change_mode` |
| Calibration | `calibration.c` | the output and width being calibrated, the width of each output in the driver | conversions, `output_calib_core_run`, `input_calib_core_run` |
| Configuration | `sys_conf.c` | `sys_conf` under `sysconf_mutex` | set and request handlers, `sys_conf_copy` |
| Output controllers | `controller/` | goals and control mask under `api_ctrl_mutex`; one frame in flight, without a lock | goals, mask, load a frame, update |
| PC link | `pc_comm.c`, `pc_comm_usb.c` | handler table, one receive buffer, `slave_send_mutex` | `comm_task`: dispatch, fragmentation of replies, busy wait for the endpoint, clear of the watchdog |
| USB device stack | `asf-2.0.0/usb_*task.c`, `usb_standard_request.c`, `usb_specific_request.c` | events, configuration number, the controller's registers, `usb_tsk_semphr` | VBUS and reset interrupts, `usb_task`, `usb_device_task` and the standard requests |
| FreeRTOS kernel | `asf-2.0.0/freertos/source` | lists of ready, delayed and deleted tasks, tick counter, semaphores | scheduler, tick, delays, mutexes with priority inheritance, creation and deletion of tasks |
| Start and reset | `system.c`, `main.c`, `exception_handler.c` | a counter in flash, boot fuse 31, the watchdog | `check_buggy_firmware`, `reset_to_bootloader`, exception handler |
| Trace | `trace.c` | 1024-byte ring under `trace_mutex` | `trace`, `trace_task` (debug builds) |
| PC library | `API/src` | none between calls; what is left in the USB endpoints | sets, gets, fragmentation, reassembly, timeouts |
| Programming tool | `API/dfu-prog` | the image read from a hex file; the page and unit selected in the device | erase, flash, user page, dump, start, reset |

### How they interact

```
 hex file ── API/dfu-prog ══ USB control transfers ══ boot loader of the chip
 PC program ── API/src ══ USB endpoints (2 banks) ══ comm_task (priority 5)
        host enumeration ══ control endpoint ══ usb_device_task (2), made by usb_task (3)
                                                       │ sysconf_mutex   │ api_ctrl_mutex
                                                       ▼                 ▼
  receiver ─▶ gpio_level_irq ─FIFO─▶ core_main_task (priority 6, every 14 ms)
                                                       │ set_value, apply_values
                                                       ▼
                                     two step arrays ─▶ servo_hard_tc_irq ─▶ pins
 reset ─▶ check_buggy_firmware (counter in flash) ─▶ scheduler, watchdog (2 s)
```

* Interrupts preempt everything; the core task preempts the communication task
  between any two of its statements, except while it waits for a mutex.
* `core_main_task` sleeps with `vTaskDelayUntil`, which does not skip the periods
  it missed (`asf-2.0.0/freertos/source/tasks.c`).
* The communication task handles one command at a time. While it answers a
  request it keeps the mutex of what it sends and spins until the PC has read
  the packet before; only a command handled to its end clears the watchdog.
* The core task and the interrupts share arrays without locks: the servo
  arrays by masking the interrupt for two stores, the FIFO by a copy of its
  write index.
* VBUS going off wakes `usb_task`, which deletes the device task, starts the
  controller again and creates a new one. The requests of the host are
  answered in loops that wait for the host and nothing else.
* The programming tool shares nothing with the firmware but the flash; the
  board comes to it through `reset_to_bootloader`.

### What is hard about each, and what makes it correct

* **Servo output.** The interrupt may fire between any two stores of the
  generator; pins are only ever toggled, so one toggle too many inverts an
  output for good; a pulse is a sum of periods written for other servos.
  Correct when the interrupt only ever plays a whole array, inside its bounds,
  and a frame played gives each active output exactly its pulse, within one
  refresh period, and leaves every pin low.
* **Receiver input.** Three accesses in the handler with a pin that moves, a
  16-bit timer that wraps inside a pulse, indices that start one apart and a FIFO
  that looks empty when it is full.
  Correct when edges are taken once and in order, the last level stored is the
  pin's, channels are not shifted, and loss of the signal is always noticed.
* **Output control.** Goals, masks, cancellations and frames arrive while
  outputs move. Correct when a packet of goals takes effect as a whole, a frame
  moves each output between its two positions and towards the second, an output
  never exceeds its speed limit, and everything arrives.
* **The two tasks.** Correct when the core task works on whole configurations
  only, calibration loses no measure and keeps none from before a reset, no task
  waits for ever, and a host that keeps reading never causes a watchdog reset.
* **Output calibration.** Correct when a servo moves slowly from its last pulse,
  whatever happened since, stays in bounds and arrives.
* **Start and reset.** Power may fail inside a write of the flash. Correct when
  a good firmware is not left for the bootloader and a broken one always is.
* **Kernel.** Interrupts come between the look at an empty queue and the sleep;
  the scheduler may be suspended, and ticks and wake-ups are made up for later;
  priorities change while a task is on a list sorted by them; the tick counter
  turns over. Correct when no wake-up is lost, the most urgent task runs, every
  task is on the one list it should be on, and an inherited priority is given back.
* **USB device.** A cable that is pulled, a bus reset in the middle of a request,
  a host that gives up. Correct when every request of a patient host ends, the
  address changes when the host expects it, and the board gets configured each
  time it is plugged in.
* **PC library.** Nothing ties a packet to the request it answers. Correct when
  a read that succeeds returns what the board held during the call, leaves
  nothing for the next, and every call returns.
* **Programming tool.** Every transfer may fail, before or after it took effect,
  and page and memory stay selected in the device from one run to the next. Correct
  when what is reported good is good, nothing but the image is written, and
  every run ends.

`PROJECT.json` lists each of these points under `hazards`, at the line where it
bites, with the properties that watch over it.

## The modules

| Module | Models | Proofs |
|---|---|---|
| `FrameMailbox` | abstract: frames posted whole, played whole, in order | |
| `ServoOut` | `io/servo_out_bb.c`, refines `FrameMailbox` | `ServoOutProofs` |
| `RxInput` | `io/rx_input.c`: handler, FIFO, decoder and activity check, against a transmitter | `RxInputProofs` |
| `OutputControl` | `controller/*.c`, `out_ctrl.c`, the normal mode of `core.c` | `OutputControlProofs` |
| `CoreTasks` | `core.c`, `sys_conf.c`, `pc_comm*.c`, input calibration, watchdog: the two tasks and what they share | `CoreTasksProofs` |
| `Conversions` | `calibration.c`: between raw widths and fixed-point values, as operators | `CoreTasksProofs` (inputs), `ServoOutProofs` (outputs) |
| `OutputCalib` | `calibration.c`, the output mode, with the widths `servo_out_bb.c` keeps and the calibrations the PC stores | `ServoOutProofs` (second half) |
| `Boot` | `system.c`, `main.c`, `exception_handler.c`, the flash and the bootloader | `UsbDeviceProofs` (last section) |
| `HostApi` | `API/src`, with `pc_comm.c` at the other end | `HostApiProofs` |
| `Kernel` | `asf-2.0.0/freertos/source`: `tasks.c`, `queue.c`, `list.c`, the AVR32 port, as the firmware configures them | `KernelProofs` |
| `UsbDevice` | `asf-2.0.0/usb_task.c`, `usb_device_task.c`, `usb_standard_request.c`, `usb_specific_request.c`, against a host | `UsbDeviceProofs` |
| `DfuProg` | `API/dfu-prog`: `atmel.c`, `dfu.c`, `intel_hex.c`, `commands.c`, against a boot loader | `DfuProgProofs` |

`MC*` modules give the constants of an instance; `Boot` has none and is run as
it is. Definitions named `Mutant*` are variants of
the definition that follows them with a bug in it; no specification uses them.
They show, substituted one at a time, that each property can fail.

### ServoOut and FrameMailbox

`steps` is one function over the addresses of both step arrays; `current_step`,
`current_step_first/last` and `next_step_first/last` are the pointers of the
interrupt, `new_first` and `new_step` those of the generator, `pc` where the core
task stands in `servobb_apply_values`. One action per iteration of
`generate_servo_step`, and one per statement of the exchange: `ApplyBegin`,
`ApplyBusy` (the early return), `GenerateStep`, `GenerateLast`,
`DisableInterrupt`, `SwapFirst`, `SwapLast`, `EnableInterrupt`. `ServoHardTcIrq`
is the whole handler. Times are the real ones, in timer ticks, and stores are
16 bits wide. `pins`, `high` and `frame_time` are the signal on the wires;
`generated` remembers what each array was generated from.

`FrameMailbox` is what the driver promises: a frame is posted as a whole, only
when the last one has been picked up, and played from first step to last.
`ServoOut!Mailbox` is the refinement mapping: the frame being played is the part
of `steps` between the current pointers, and the posted one appears at once
when `SwapLast` completes the exchange, which is why the masked interrupt is
needed between the two stores.

### RxInput

`irq_pc` cuts `gpio_level_irq` where the pin may move: the read of the timer, the
clear of the flag, the read of the pin. `core_pc` cuts `process_input` between the
copy of the write index and the comparison. `Transmit` sends a frame of pulses
and a separator, `Bounce` glitches too short to follow, `Silence` stops the
transmitter: from there on only the period of the core task moves the time, and
`silence` counts its passes. `captured` is the sequence of stored edges, history
for `PopsInOrder`. One edge too many while the core task sleeps makes the FIFO
look empty: `Overrun` records that a whole turn of it is lost, and the decoder is
held to the channels again from the next separator on (`locked`, `gap`).

### OutputControl

`age` is the clock minus `start_time`; `previous`, `next`, `active_bm`, `duration`
are the frame. `comm_pc` cuts the handlers at each assignment: goals under
`api_mutex`, the five stores of `frame_ctrl_load_frame` under nothing. `CoreRun`
is one pass of `core_main_task` in normal mode: `NewOutput` applies goals
(`api_ctrl_update`), the frame (`Interpolate`, with its halves and its 16-bit
result) and the speed limit (`SpeedLimit`). The pass is one step because
nothing that shares its state preempts it.

### CoreTasks

The communication task has one action per kind of command and one per
statement that matters to the core task (`WriteItem`, `SendPacket`,
`TakeForReset`, `ResetInputCalib`). `CoreReady` is the priority rule: while the
core task can run nothing of lower priority does, and time does not pass.
`late` counts the periods due, `dog` those since the watchdog was cleared, `tx` the
packets the host has not read, of which the endpoint holds `Banks`. `RunOutputs`
is a pass in one of the modes that move outputs, of which only the time it
takes matters here. `InputValue`
is what `core_inputs_get_all` makes of a measure by the copy of the calibration;
`seen` are the measures since the bounds were reset.

### Conversions

`InputRawToRc` and `OutputRcToRaw` with the casts and the rounding division of
the code, on integers of any width (`RawHalf` is 2^15 on the board). `Legal` says
which output calibrations make sense: limits in order, and an angle and a
middle whose sum fits 16 bits. The board checks neither.

### OutputCalib

`width` and `active` are the driver's, `out_no` and `raw` the two statics that
`set_output_calib_raw` assigns one after the other (`SetOutNo`, `SetRaw`), with
`CoreOutputCalib` possibly in between. Differences are kept in 16 bits as the code
keeps them. In the normal mode (`CoreNormal`) any positions become widths by the
calibrations of the outputs, which `SetOutputCalib` stores.

### Boot

`pc` is where the CPU stands, from the reset to the scheduler; `call` the write of
the counter in progress, erase then write. `Reset` may come at any moment; the
erased byte reads 255 and a write that was cut leaves any byte. `broken` tells
whether the firmware in place fails again and again, `unstable` counts starts
in a row that followed an error, `torn` records a return to the bootloader cut
between fuse and counter.

### HostApi

`out` and `in` are the packets in the endpoints, `reply` those `comm_task` has yet
to send. A write is one `SendData` per packet, a read `SendRequest` and one
`Receive` per packet. An item carries its kind and its version, which grows each
time it is written: that is what "current" means. `Store` is what the board
does with a packet of a write, `ParseCount`, `DefragmentCount` and `Stored` are
the arithmetic of `scb_parse_dsp16_packet` and `scb_defragment_data`, which
count the header of a fixed-point packet as two items and compare sizes
unsigned.

### Kernel

The kernel's data is one record `k`, and each function of `tasks.c` and `queue.c` an
operator from such a record to another, under the function's own name; a list is
a sequence, and a ready list the tasks from the one after `pxIndex` round to
`pxIndex` itself. A task makes the kernel calls of its program over and over:
`pc` and `idx` say where it stands. A step is what the code does in one critical
section, or between two points where an interrupt can tell the difference: taking
a semaphore is `Take`, `Suspend`, `Lock`, `Check`, `Place`, `Unlock`, `Resume`
and `Yield`. `Tick` and `Interrupt` may come between any two of them. Priority
inheritance, the overflow list, the pending list of a suspended scheduler, locked
queues and the idle task that frees deleted blocks are all there.

The other modules take for granted what this one checks: that the more urgent task
runs, that a mutex is waited for with its holder's priority raised, that a delay ends.

### UsbDevice

`usb` is where `usb_task` is in its restart of the controller, `dev` where the device
task is in its poll of events or in a request, `ep` the set of flags of the control
endpoint. An interrupt is part of the event that raises it (`Plug`, `Unplug`,
`BusReset`), since no task runs before it. One action per request, and one per loop
that waits for the host (`SendData`, `AwaitNak`, `AwaitOut`, `EnableAddress`,
`AwaitSent`). A descriptor is counted in packets of the control endpoint; that of the
configuration has 65 bytes and takes two. The host (external) enumerates the
board, then makes any request, ends a long read early, resets the bus, or gives up.
`gaveUp` and `raced` record the two things the board does not recover from until the
cable is pulled (see [beyond the bounds](#beyond-the-bounds)).

### DfuProg

One action is one control transfer with the code around it, because a transfer is
what can fail: it times out before or after the device acted, the device stalls it, an
upload or a status comes back short. `pc` is the transfer the tool does next,
`first`, `last`, `mem_page` and `retries` the variables of its loops. `Kill` stops the
tool anywhere, `Start` runs it again on the device as it was left. A byte is the
set of its one bits, so that programming without erasing is an intersection;
`intel_hex_to_buffer` is a recursive function over the records of type, address and data,
and `Contents` what the format says they mean.
The device is the chip's ROM boot loader, which the repository does not have:
its side is external and taken from how the tool uses it.

## The runs

Each `.cfg` is one question. Ten runs must pass; two state what a header of the
library says and end in a counterexample
(see [disagreements](#disagreements-found)).

| Run | Properties | What it shows |
|---|---|---|
| `servo_out` (`MCServoOut`, `ServoOut.cfg`) | `FramesAreFaithful` `SettledCommandsArePlayed` `ImplementsMailbox` | With the interrupt at every unmasked point: each frame carries exactly the commanded pulses within 14 ms and leaves the pins low, the last command gets out although calls are refused, and the driver is a mailbox of frames. |
| `rx_input` (`MCRxInput`, `RxInput.cfg`) | `LastLevelIsPins` `LossIsDetected` `PopsInOrder` `ChannelsNotShifted` | With edges and glitches between any two reads, an overflow and a transmitter that stops: no entry is repeated or torn, only whole turns of a full FIFO are lost, the last level stored is the pin's, each pulse reaches its channel, loss is noticed within four periods. |
| `output_control` (`MCOutputControl`, `OutputControl.cfg`) | `GoalsMoveTogether` `SpeedIsLimited` `FrameStaysOnCourse` `TargetIsReached` | Three commands with the core task between any two assignments: goals of a packet move together, no output exceeds its speed, frames loaded between two passes stay on course, everything arrives. |
| `core_tasks` (`MCCoreTasks`, `CoreTasks.cfg`) | `ConfigIsWhole` `MeasuresReachFullScale` `LiveHostIsNotReset` `CoreCatchesUp` `HandlersEnd` | Four commands, a host that reads late or goes away: whole configurations only, no measure lost and full scale for the extreme ones once the calibration is over, only a host that went away costs a reset, no task waits for ever. |
| `output_calib` (`MCOutputCalib`, `OutputCalib.cfg`) | `PulsesFollowAngles` `PulsesMoveSlowly` `CalibratedOutputArrives` | Four commands, widths asked for on both sides of the bounds, mode, mask and calibrations changed in between: the servo moves slowly from its last pulse and arrives, and in the normal mode pulses follow the angles. |
| `boot` (`Boot`, `Boot.cfg`) | `OnlyUnstableFirmwareIsLeft` `BrokenFirmwareIsLeft` | Resets of every cause at every moment, any byte left by a write that was cut: only a firmware that fails more than three times in a row is left, and such a firmware always is. |
| `host_api` (`MCHostApi`, `HostApi.cfg`) | `ReadsAreCurrent` `WritesArePrefixes` `CallsEnd` | Three calls, whole, partial and beyond the end, timeouts at any wait, resets of the board: while reads are whole and succeed they are current and leave nothing; a write reaches each item once, or those before its timeout; every call returns. |
| `kernel` (`MCKernel`, `Kernel.cfg`) | `EachTaskIsOnOneList` `MostUrgentRuns` `NoLostWakeup` `SleepersAreInOrder` `InversionIsBounded` | Two groups of the board's tasks, around the mutexes of configuration and link and around the semaphore of the USB interrupt, with a tick or an interrupt at every point: lists stay consistent, the most urgent ready task runs, no give is lost, a mutex is waited for no longer than its holder takes. |
| `usb_device` (`MCUsbDevice`, `UsbDevice.cfg`) | `EndpointsFollowConfiguration` `AddressAfterStatus` `RequestsEnd` `PluggedIsConfigured` | A host that enumerates the board and makes any request, resets the bus or gives up, a cable pulled and plugged in at any moment: requests end, and the board is configured each time, also when a handler was left waiting for ever the time before. |
| `dfu_prog` (`MCDfuProg`, `DfuProg.cfg`) | `TypeOK` `ValidatedImageIsWritten` `OnlyTheImageIsWritten` `ErasedIsBlank` `DumpIsTheMemory` `UndisturbedRunsSucceed` `RunsEnd` | Two runs of the tool on a device found in any DFU state, two faults, the first run killed anywhere: what is reported good is in the device, nothing else is touched, a run that nothing disturbs succeeds (a write only with a sound file and on bytes that can take it), every run ends. |
| `output_control_torn_frame` | `LoadingMovesToFrame` fails | A core period inside `frame_ctrl_load_frame`. |
| `host_api_short_read` | `SuccessIsCurrent` fails | What a partial read leaves is taken for a later answer. |

The type invariants of `Kernel` and `HostApi` are conjuncts of
`EachTaskIsOnOneList` and `WritesArePrefixes`; those of the modules with proofs are
theorems.

### Bounds, and why they are enough

* `ServoOut`: four outputs in two queues (the board: up to 24 in five), three
  command sets: different and equal pulses in a queue, an output switched off
  and on, values past both limits. Two outputs per queue is the least with a
  successor that starts where another ends; equal pulses are where two servos
  finish in one step. No bound on time or on the number of frames: the state
  space is finite because commands come from `Commands`.
* `RxInput`: FIFO of four entries, which wraps many times; `MaxBacklog` = 5 is one
  edge more than it holds, which loses a turn of it while the core task sleeps; `MaxEdges`,
  twelve edges, are two frames of two channels and a separator, from any point of
  the first; `MaxGlitches` two, the two level changes
  of one glitch; `StartTimes` puts the wrap of the timer inside a pulse;
  `SilenceTimes` are on both sides of each offset where the number of passes that
  miss the loss changes. Timer, period, separator and timeout have their real
  values. While the core task runs the FIFO does not fill (`Room`), and no edge
  waits at the very instruction that reads the index of a full FIFO
  (`CopyFifoIndex`): a pass takes microseconds, edges are 0.3 ms apart.
* `OutputControl`: two outputs, one with a speed limit; `One` = 16 and
  `ClockModulus` = 256 keep the order of the widths; `Period` divides no duration,
  so passes fall before, on and after the end of a frame; three commands
  are what it takes for one that interrupts a frame and one that resumes.
  `MaxAge` ends the passage of time after the frame has arrived.
* `CoreTasks`: two items (the least a write can tear), measures on both
  sides of the default bounds and between them, 5-bit values,
  `ReplyPackets` = 3 with `Banks` = 2 (the least reply
  that must wait), `WatchdogDelay` = 5 periods, which exceeds
  `ReplyPackets * ReadDelay + 1` as 2 s exceeds the replies of a fast host; four
  commands, one stop of the host.
* `OutputCalib`: two servos, widths -4, 9 and 14 against bounds 2..12, three
  calibrations: within the bounds, the other way round with limits outside them,
  and one that wraps (which `Legal` excludes from `PulsesFollowAngles` and which
  must not break the others); four commands: mode, mask, a target and a change
  of any of them.
* `Boot`: none but those of the program: a byte, a limit of three. `unstable`
  stays finite because the firmware leaves.
* `HostApi`: an array of three packets through an endpoint of two, the least that
  can block the board or cut a write; reads and writes of part, of all, and of more; three
  calls, the least for "a partial read, a write, a read".
* `Kernel`: the priorities of `core`, `comm`, `usb_task`, the device task and idle as on
  the board; `main` stands for any less urgent user of a mutex, without whom
  nothing would be inherited across a priority between. `TickModulus` = 5 turns the
  counter over again and again while tasks sleep in both lists; `MaxMissed` = 1
  tick while the scheduler is suspended is enough for the list of missed ticks to
  be worked off together with the pending list. No bound on the number of calls.
  `MutexWaitsAreShort` excludes waits for a mutex that last a whole turn of the
  counter (49.7 days on the board, whose watchdog waits for 2 s); waits for the
  semaphore do last as long, time out, and are tried again by `usb_task`.
* `UsbDevice`: none on the number of requests, resets or plugs; `MaxPackets` = 2 is the
  board's longest descriptor.
* `DfuProg`: three pages of three bytes of two bits, one byte of boot loader, a user page of
  two, transfers of two: the image starts inside the first page, has a hole over the
  second and fills the third, so that a block ends at a hole, at the limit of a transfer
  and at the end of the flash. Five files: that image, one for the user page, one that overlaps the boot
  loader, one that ends behind the flash, one damaged. `MaxFaults` = 2 lets one fault
  cover up another; `MaxSessions` = 2 is one run on what another left.

`CHECK_DEADLOCK FALSE` stands in `HostApi*.cfg` (the program may make its
last call) and in `DfuProg.cfg` (the last run of the tool ends). Where other models stop for a bound, some action (the
interrupt, the tick, a reset) goes on.

## Fairness

Liveness is checked under weak fairness of what the code cannot help doing, and
of nothing the PC or the user decides.

| Module | Assumed | Because |
|---|---|---|
| `ServoOut` | core task, timer interrupt | the timer restarts at each interrupt; the handler is short and cannot hold the core task up for ever |
| `OutputControl` | `CoreRun`, `Tick`, `CommStep` | time passes, the core task has the highest priority, and it sleeps most of each period, so a handler that began ends |
| `CoreTasks` | `Core`, `Comm`, `Tick`, `HostReads`, `WatchdogReset` | the same; `HostReads` is enabled only while the host is alive, and it may die at any time; the watchdog is hardware |
| `OutputCalib` | `CoreOutputCalib`, `SetRaw` | the same |
| `Boot` | `Proceed`, and `Fault` of a broken firmware | a CPU that is powered proceeds; a broken firmware is one that fails whenever it runs long enough |
| `HostApi` | the library only | a call waits for at most `DEFAULT_TIMEOUT`; nothing is assumed of the board, which may have been unplugged |
| `UsbDevice` | `Usb`, `Device`, `Host` | both tasks get the processor in every period, in which the tasks above them sleep; `Host` is a host going on with what it began, and giving up, resetting a configured board and pulling the cable are left out of it |
| `DfuProg` | `Tool` | a process that is not killed goes on, and libusb bounds each transfer by a timeout |

`RxInput` and `Kernel` state none: what they promise is bounded in time
(`LossIsDetected`) or a matter of safety.

## The proofs

TLC checks instances. The theorems below hold for every value of the constants
that satisfies the `ASSUME`s of the module and the hypotheses that a theorem names: any
number of outputs and queues, any frames, goals and speeds, any width of the integers,
any size of FIFO, endpoint, reply or descriptor.

| Theorem | Says |
|---|---|
| `ServoOutProofs!TypeCorrect`, `Exclusion`, `NoOverrun` | types; the interrupt and the generator never share an array and stay inside theirs |
| `ServoOutProofs!Refinement` | `Spec => Mailbox!Spec`: the double buffer is a mailbox of whole frames |
| `ServoOutProofs!PulsesAreExact` | each frame played carries exactly the commanded pulses in one period, if the pulses of each queue fit it |
| `RxInputProofs!TypeCorrect`, `LastLevel`, `PopsOrdered` | types and indexes; the last level stored is the pin's; entries are taken once and in order, and what is lost is a whole turn of the FIFO |
| `RxInputProofs!LossDetected` | with the timer, timeout and period of the source the loss of the signal is noticed within four periods |
| `RxInputProofs!ChannelsStay` | on a clean signal every pulse lands in the channel it was sent for, with its width |
| `OutputControlProofs!TypeCorrect`, `GoalsTogether`, `SpeedLimited` | no output leaves `rc_value_t`; goals of a packet move together; no output exceeds its speed |
| `OutputControlProofs!CourseKept` | a frame loaded between two passes takes its outputs from where they are towards its positions, to within the one unit the product rounds by |
| `CoreTasksProofs!TypeCorrect`, `ConfigurationsAreWhole` | types; the core task never works on a configuration half written |
| `CoreTasksProofs!Measured`, `CalibrationIsUsed` | the bounds are those of what was measured since the reset; the extreme measures then have the extreme values |
| `CoreTasksProofs!ReadingHostIsServed` | a host that reads each packet within `ReadDelay` is never reset, if `ReplyPackets * ReadDelay + 1 < WatchdogDelay` |
| `CoreTasksProofs!InputFits`, `InputMonotone` | for any calibration, limits in the wrong order included: no division by zero, results that fit, and a longer pulse never gives a smaller value |
| `ServoOutProofs!OutputInLimits`, `OutputMonotone` | widths within the limits whatever wraps; with a legal calibration they follow the angles |
| `ServoOutProofs!WidthsInBounds`, `CalibrationIsSlow`, `AnglesAreFollowed` | widths stay in bounds, a calibrated servo is slow even where the difference wraps, pulses follow angles with every legal calibration stored |
| `KernelProofs!TasksAreOnOneList` | types; a task is on one list of states, the one its priority and its sleep call for, and waits for one event at most |
| `KernelProofs!SleepersStayInOrder` | the lists of sleepers are sorted, one ahead of the tick counter, the other behind it, also when it turns over |
| `KernelProofs!WakeupsAreNotLost` | nobody sleeps on an available semaphore without a task awake on its way to take it |
| `KernelProofs!MostUrgentTaskRuns` | unless the scheduler is suspended, no ready task is more urgent than the running one |
| `KernelProofs!InversionStaysBounded` | while a task waits for a mutex its holder or a task at least as urgent runs; nobody keeps an inherited priority without a mutex |
| `UsbDeviceProofs!BootTypeCorrect`, `StableFirmwareStays` | the counter stays a byte; a firmware is left only after more than three errors in a row |
| `UsbDeviceProofs!TypeCorrect`, `EndpointsFollow`, `AddressFollows` | types; a configured board has its endpoints; board and host agree on the address |
| `HostApiProofs!TypeCorrect`, `PrefixesWritten` | types, endpoints and arrays are not overrun; a write reaches each item once, in order, or the items of a prefix |
| `HostApiProofs!CurrentRead` | while every call succeeds and reads its whole reply, reads are current and leave nothing behind |
| `DfuProgProofs!TypeCorrect`, `OnlyImage` | types; no byte outside the image changes, and the boot loader never does |
| `DfuProgProofs!ValidatedIsWritten`, `ErasureIsBlank`, `DumpIsRight` | what the tool reports good is good: image, erasure and dump |
| `DfuProgProofs!UndisturbedSucceed` | from every state a killed run leaves, a run that nothing disturbs succeeds; a write fails only for a file that does not load, does not fit or overlaps the boot loader unasked, or when it validates a memory that lacked bits of the image |

**ServoOut.** That arrays are not shared is not inductive: it does not say where
the pointers stand while the exchange is half done. `PointersFollowTask` does,
one line for each place of the core task, and adds that the array being filled
has no more finished steps than servos have finished
(`new_step \in new_first..new_first + Cardinality(finished)`). The last
is what `StepArrayNeverOverruns` rests on: each turn of the generator's loop takes
the least time left among the servos that run, so it finishes one of them at
least (`NextTimeLeft`, `FinishedGrows`), and there are `SERVO_MAX_NB`.
The refinement proof maps each action: `SwapLast` posts, the interrupt plays, all
others stutter because the generator writes in the free array only
(`FrameKept`).

`PulsesAreExact` needs to know when each output rises and falls. `FrameInv` says it with a
timetable for each of the two arrays: the one being played (`Playing`: the pins, the time each
has been high and the time of the frame are what the timetable says at the present step), the
one being filled (`Filling`) and the one handed over (`HandedOver`). For an array being filled
a timetable exists because the servos of a queue come in turn (`QueuesInTurn`,
`HeadsFollow`) and each step takes the least time left, so that no output has to toggle
before the step written last. Nothing is subtracted below 0 as long as no pulse begins later
than its place in the queue allows. This is the theorem's hypothesis `PulsesFollow(begin)`:
there are times at which the outputs may begin such that each pulse ends before
the next one of its queue begins and before the period ends. The board has
at most five outputs in a queue, so it holds whenever no pulse is longer than 2.8 ms;
with four of the longest that a calibration may ask for it is false and so is the property
(see [beyond the bounds](#beyond-the-bounds)). `PinsFit` says that outputs have
pins of their own on port A, which is so for all 24 of them in the table the build
uses when `SERVE_MYPI` is not defined (`conf/board.h:142`). `MCServoOut` has TLC evaluate the
hypotheses on the run's constants (`FramesFit`).

**RxInput.** `IndexInv` says what the two indices are worth: the numbers of the entries
stored and taken, modulo `FIFO_SIZE`, with between one and `FIFO_SIZE` entries in the
FIFO. Two entries that lie less than a turn apart have different slots
(`ModDistinct`), so storing one leaves the others (`ContentInv`), and a turn lost leaves
the index where it was (`ModTurn`). `RunInv` adds what makes a pass safe: the copy of the
index lies between the two, and while the pass lasts the FIFO does not fill. `LevelInv`
is `LastLevelIsPins` between two accesses of the handler: after the flag was cleared a
pin that moves sets it again. `LossIsDetected` counts passes from the moment the
transmitter stops. `DrainInv` says that nothing is stored from then on and that the
first pass empties the FIFO, so that all later ones compare the clock with the same
time. `OffsetInv` says that as long as the input is active each of these comparisons
found a difference within the timeout, and that they lie a period apart. With the
numbers of the source (`SourceTiming`) that cannot go on for five of them
(`OneOfFive`): the difference turns at 65536 ticks, but two checks in a row cannot
both fall in what is left of a turn. The numbers are the theorem's
hypothesis because with others it is false.

`ChannelsNotShifted` speaks of a pulse that is measured several edges after the transmitter
sent it, and it is not inductive: nothing in it says which channel an entry of the FIFO
belongs to. `ChannelInv` says that there is a numbering of the edges sent (`Sent`: those
stored and the one being stored) by channels which fits three things at once. `Pulses`:
levels alternate, and two edges after one that ends the pulse of a channel ends that of the next
channel, a width of it later. `Transmitter`: the transmitter goes on from
there. `Decoder`: unless edges were lost since, the decoder is one or two edges past the one
it measures from, and when locked its index is the channel sent next. Only a falling
edge extends the numbering. `TimeInv` and `HandlerInv` bring the times from the
pin to the slots, and `ModMinus` shows that the 16 bits of the timer do not change a difference.
The hypothesis `SignalFits` is what the decoder relies on: separators longer than
`FRAME_START_PULSE_VALUE`, channels not, nothing as long as a turn of the timer, and fewer
channels than `MAX_PPM_CHANNEL` (16; with exactly that many the index would be back at 0 a
pulse before the separator). `MCRxInput` has TLC evaluate it on the run's signal
(`SignalIsPpm`).

**OutputControl.** `TypeOK` needs the range of the interpolation
(`InterpolateRange`: whatever the product, the result is cut to the width of a
position) and of the speed limit (`SpeedLimitRange`, which also bounds the step).
`GoalsMoveTogether` needs `GoalsLocked`: the mutex is held exactly while a packet
is being copied, and goals are those of a whole packet when it is free.
`FrameStaysOnCourse` is about one pass, but holds because of all that came before: an
output that a pass finds beyond the place where the frame is by now would be sent
back. `AllBehind` excludes that: an output of a complete frame lies between the start
and where the frame is (`Behind`), or on the way down no lower than the frame has
been, which at its end may be one below the target. Passes keep it because the speed
limit stays between position and command (`SpeedLimitBetween`, `BehindRun`), time
because the interpolation never turns back: `WayGrows`, from the lemmas about halves
(`HalfIs`), the fraction of the time (`ElapsedGrows`) and the product that rounds
downwards (`ShareIs`, `ShareGrows`). `StartIsPresent` and `FrameIsCopied` follow the
loading, so that the last store finds every output at its start (`LoadedIsBehind`)
if no pass fell inside. The hypothesis `CourseFits` has three parts, and the property is
false without any of them (see [beyond the bounds](#beyond-the-bounds)): no clock that turns
while the frame is loaded, no frame so long that `RC_VALUE_MAX * delta_t` wraps, and
none to `RC_VALUE_MIN`. `MCOutputControl` has TLC evaluate it (`FramesFit`).

**CoreTasks.** `MutexInv` ties the mutex to the handlers that write, `WholeInv` says
that items and `committed` differ while one is writing only, and the core task, which
copies with the mutex free, copies a whole configuration. `BoundsInv` says that, from the
reset on, each bound is a measure or its value at the reset, and that all measures lie
between them; `RunInv` that a calibration run has the present bounds, because only
it and the reset change them and the reset waits for the run to end. Full scale
then follows from the conversions' lemmas. `DogInv` is an argument by potential: what the
watchdog may have counted is at most the packets already sent (`Budget`), plus what
the host may still take for the one it is expected to read (`Expected`), plus the
period that began while none was waited for (`Used`); a packet read or sent moves a
`ReadDelay` from one to the other.

**OutputCalib** (in `ServoOutProofs`, which extends both modules). `Retained` says that the width kept for an output is the last
one sent, silent or not; `SmallStep` that a step is within `MAX_CALIB_DIFF` for
every difference that fits 16 bits, wrapped or not.

**Conversions.** Everything rests on Euclid's division (`DivProperty`): quotients
grow with their dividend (`DivMonotone`, `QuotientMonotone` for the division of C
that rounds towards 0), and a part of a whole is less than the whole (`Share`),
so that a measure between the limits stays in 16 bits and the two linear
functions, of which one is negative and the other is not, meet in order.
`CentredIsExact` shows that with a legal calibration no cast changes a value, and
the clamps keep the order.

**Kernel.** Each function of the kernel gets a lemma that says what it does to the lists
(`Inserted` and `Removed` for `vListInsert` and `vListRemove`, up to
`ResumeAllIs`), so that a step of a task is an application of two or three of them.
Three ideas carry them. `Sound` is the consistency of the lists as a property of a kernel
record, which functions on records can keep; it includes that the idle task is always
ready, without which `vTaskSwitchContext` would find nobody. `Rows` and `Ahead` split the
order of the sleepers, because between the change of the tick and the wake-ups the delayed
list is sorted but not ahead. `Forward` says that a function only wakes tasks, and is
closed under composition. `MakeAllReady` and `MissedTicks` are the loops of the kernel,
written as recursive functions over natural numbers; what they do is proved by least
counterexample (`LeastElement`). The invariant `Inv` is `ListInv`, `WaitInv` and
`NoLostWakeup`. `ListInv` adds to the lists what the programs are about: only the running
task can have suspended the scheduler, so `prvCheckDelayedTasks` never runs in the middle
of a wait (`RunInv`); who is ready or sleeps is a task there is (`PlacedInv`); a task's
place goes with its call (`ProgInv`); the idle task frees a block only if there is one
(`ReapInv`); who holds a mutex is who has taken it in his program and not given it
(`HoldInv`), so that a give finds the holder awake and `vTaskPriorityDisinherit` may put
him on a ready list; a queue is locked just while the running task stands between
`prvLockQueue` and `prvUnlockQueue` (`LockInv`). `WaitInv` is the middle of
`NoLostWakeup`: a task that has found the semaphore empty and is about to sleep either
still finds it empty, or the lock remembers the give.

`MostUrgentRuns` and `InversionIsBounded` stand on a second invariant, proved on top of the
first because each needs the other: who is on a ready list depends on `Inv`, who runs
depends on the priorities inherited. `Ranks` says that nobody ready is more urgent
than the running task, also while the scheduler is suspended (`UrgentInv`; suspended,
wake-ups go to the pending list, so no flag is needed to say which switch was put off:
`Urgent(s) \/ YieldRequired(s) => Urgent(r)` is what `ResumeAllIs` says of the flags). That
breaks as soon as a mutex is given with the priority it lent, so `Ranks` adds where an
inherited priority comes from (`RaisedInv`: a waiter at least as urgent, still asleep on a
mutex of this task), that the waiters of a mutex stand in the order of their own
priorities, hold nothing and have their wake-up time where it belongs (`WaitersInv`), and
that nobody's wait for a mutex is over (`ShortInv`, which counts the ticks missed while
the scheduler was suspended: `ElapsedOn`, `ElapsedSum`). A holder whose waiter timed out
would keep a priority nobody lends. `Bounds` is about the mutexes: who holds one
is ready and between two calls (`HolderInv`); while nobody holds one that is waited for, a
ready task as urgent as the waiters is about to take it (`WakerInv`); and a holder is
as urgent as each waiter, or alone with it (`BoundInv`). The last alternative is what
`vTaskPriorityDisinherit` makes necessary: with the inner of two mutexes `comm_task` gives
up the priority it inherited for the outer one, and only because no third task is
as urgent as it is does it go on running until it has given the outer one too
(`Alone`, `NestedIs`). Each step has a lemma (`RanksTake` to `RanksInterrupt`); most of
them move no waiter of a mutex and are instances of `QuietStep`.

The theorems hold for programs that keep to `DisciplineAssumption`: a mutex is given by
the task that took it, before it takes it again; only the idle task frees deleted blocks;
a task that may be deleted only waits for a time. Each is how the firmware is written, and
the kernel relies on all three: `xSemaphoreTake` and `xSemaphoreGive` come in pairs in one
function in `sys_conf.c`, `controller/api_ctrl.c`, `pc_comm.c` and `trace.c`;
`prvIdleTask` alone calls `prvCheckTasksWaitingTermination`; the one task that is deleted
while it runs (`usb_task.c:254`) is the device task, which calls `vTaskDelayUntil` and
nothing else (`usb_device_task.c:176`). A task deleted while it holds a mutex would
leave its block as the holder, and the next take would raise the priority of a task
there is no more.

The two theorems about urgency also need `NestingAssumption`. Who holds a mutex does not
sleep before it gives it: inside the mutexes of the configuration and of the interface
the firmware copies and converts (`sys_conf.c:61`, `controller/api_ctrl.c:62`), and inside
that of the link it waits for the endpoint in a loop (`pc_comm_usb.c:42`). Who takes a mutex
inside another is the only one to take that one, and at most one other task is as
urgent: the mutex of the link is taken by `comm_task` alone, whose priority only the core
task exceeds (`conf/FreeRTOSConfig.h:134`; the serial task that would share it is never
created). TLC evaluates the assumption for the programs of the run, where `comm_task`
takes the link's mutex inside the configuration's. Without it the second theorem is
false: see [beyond the bounds](#beyond-the-bounds). As in the run, no tick may end a wait
for a mutex (`MutexWaitsAreShort`).

**Boot** (in `UsbDeviceProofs`, which extends both modules). `CounterInv` gives what the
counter is worth at each point, relative to `unstable`, unless `torn`; `ResetCallInv` the same for the byte about to be written;
`FuseInv` and `WatchdogInv` say in which states fuse and watchdog can be on,
without which a reset could come in the middle of a counted start.

**UsbDevice.** Neither property is inductive, because a handler acts several steps after
the request that woke it, and in between the bus may be reset or the cable pulled.
`UnconfiguredInv` says that VBUS going off unconfigures the board before anything else
can happen, `StartInv` what is left of it all when the host begins; then, for a host that
has not given up, `FlagsInv` which flags of the control endpoint go with which stage,
`TaskInv` that each place of the device task belongs to the request now being made, and
`AddressInv` how far board and host are with the address. `WindowInv` covers the time
between VBUS going off and the restart of the controller, in which a new host may
already be asking the old device task.

**HostApi.** `WriteInv` is the middle of `WritesArePrefixes`: what the board holds of an item
and what is on its way to it add up to what the call found, and one more once its
packet was sent. A packet the board handles moves from one to the other
(`WritersTail`, `HandleMoves`). `BoundInv` keeps the sum within the number of calls,
which types the versions. `ReadInv` follows a read for as long as nothing failed:
before it the endpoints hold nothing but writes; the request is the last command sent,
so the board has handled all writes when it answers (`Asked`); then the first `r`
packets have been taken, the others stand in order in endpoint and board, each newer than
`since`, and `ind` is the first item of the next (`Answered`). `Layout` says that a packet
starts where the one before ends, `InPlace` that the library's arithmetic stores it there,
so that the call ends with the last packet and not before. The hypothesis `ValuesFit`, a
program that asks for no more fixed-point values than the board has, is where
`scb_parse_dsp16_packet` counts right (see [beyond the bounds](#beyond-the-bounds)); the
calls of the run satisfy it.

**DfuProg.** `CommandInv` and `RetryInv` say which transfer belongs to which command and
that the loops which count have a try left. `ImageInv` ties the tool's image to the
file. `SelectionInv` says that the device has the memory and page selected that the tool
means, which is the point where an earlier run, killed anywhere, could deceive it; with
`BlockInv` and `ChunkInv`, by which blocks and chunks lie in that page, a transfer
reaches the addresses meant and no others: that is `OnlyTheImageIsWritten`. `BufferInv`
says how far the read-back has copied the memory (`Copied`), `BlankInv` how far the blank
check has got, `CalmInv` how many retries are left in each state the device may be found
in. That an undisturbed write succeeds (`UndisturbedSucceed`) is a second layer,
`CalmWriteInv`, whose steps cite `IInv` as a fact: while nothing has gone wrong, the device takes every block, no byte of the image below `first` has a bit that
the file has not (`WrittenBelow`), and no upload came back short. A comparison that then
fails has found a bit of the file that the memory lacks, which no write can set
(`NeedsErasing`). `MemoryKept` is the lemma behind them all: nothing but an erase or a block in progress
changes a memory. For `ValidatedIsWritten` the file itself has to be read for any number of
records: `Recursion` gives the fold of `intel_hex_to_buffer` as a sequence of states, and
`LeastElement` (well-founded induction, as an argument by least counterexample) turns "each
step keeps it" into "the end has it". Files are taken to be `Regular`: the end record
last, no data behind a start address, no byte set to two values. All three are needed;
the first two are what the format says.

Only model-checked:

* liveness (all `~>` and `<>`, `CallsEnd` and `RunsEnd` among them), out of TLAPS's
  reach with fairness.

Every invariant and every action property of the passing runs is proved.

## Disagreements found

1. **A frame loaded in the middle of a period** (`controller/frame_ctrl.c:89`,
   run `output_control_torn_frame`). `API/src/openscb.h:166` says "Load a frame on
   the board, and move servo to corresponding positions". The five stores have no
   mutex; a core period after the new start time and before the new positions
   sends outputs back to where the frame before had started.
2. **Partial reads** (`API/src/openscb_utils.c:271`, run `host_api_short_read`).
   `API/src/openscb_advanced.h:154` offers the "number of calibration structure to get
   from the board". The board always sends the whole array, the library stops at the
   items it was asked for, and the rest is taken for the answer to the next read.

## Beyond the bounds

What the runs exclude by a named constant or assumption, and what the code does
there, found while the bounds were being chosen:

* Four of the longest pulses (4 ms each, `servo_out_bb.c:47`) in one queue exceed
  the refresh period; the rest goes negative, wraps in 16 bits, and the frame
  lasts 91786 ticks (49 ms). `PulsesAreExact` proves `FramesAreFaithful` for all
  pulses that fit.
* The `SERVE_MYPI` table puts four outputs on port B, whose toggles
  `servo_out_bb.c:63` sends to the pins of port A with the same number; `PinsFit` is false of
  it.
* The 25 ms receiver timeout can be missed for up to four periods, because the
  16-bit age wraps at 35 ms.
* A frame to -1.0 from an odd negative position: "y0 + (y1-y0) * (t/T)"
  (`frame_ctrl.c:65`) stays between y0 and y1, but the code's halves round, the
  sum is one below `RC_VALUE_MIN`, and it wraps to the other end of the servo's
  range. `CourseKept` proves `FrameStaysOnCourse` for all other positions.
* Passes that were missed while a reply was being sent are run one after the other, and
  their steps add up in one frame of pulses: more than the `max_speed` "per
  refresh period" of `sys_conf.h:53`.
* In frames longer than 131 s `RC_VALUE_MAX * delta_t` wraps, and outputs jump back
  to the start. A frame left loaded starts again after 49.7 days, when the
  clock wraps: `frame_ctrl_update` never reads the flag it sets.
* A host that takes 300 ms for each of the eight packets of `REQ_OUTPUT_NAME` is
  reset by the watchdog, though it allows itself 1000 ms per packet; this is the
  hypothesis of `ReadingHostIsServed`.
* A difference of more than 32767 ticks in output calibration wraps: the servo
  moves the wrong way, slowly and within bounds. A period between the two
  assignments of `set_output_calib_raw` costs one step the wrong way.
* An output calibration whose `angle_180` and `subtrim` add up to more than 16
  bits, which the board stores like any other, wraps before it is clamped: the
  servo jumps from one limit to the other in the middle of its travel.
* Measures that all lie on one side of the default bounds leave the other bound
  at its value from the reset: after a calibration with only long pulses the
  shortest of them is not the lowest value.
* A read of up to two fixed-point values more than the board has succeeds,
  because the header is counted; `openscb.h:137` announces a timeout. After a
  timeout each read of the same kind returns the reply to the call before.
* A reset between fuse and counter leaves a new firmware with the old
  counter.
* Kernel: `vTaskPriorityDisinherit` gives the inherited priority back with the first
  mutex given, also when the other one is what it was inherited for. On the board
  the only nested mutexes are those of `comm_task`, and no task has a priority between
  its own and the core task's (`NestingAssumption`); with one, a task of that priority
  would run while the core task waits for the configuration.
* USB: a host that abandons a request, or resets the bus before the device task has
  seen the OUT of the status, leaves the task in its loop until the cable is pulled
  (`gaveUp`; `usb_standard_request.c:378`). VBUS coming on after `usb_task` has
  cleared `usb_connected` and before it disables the controller is noticed and then
  undone: the board is not seen until the cable is plugged in again (`raced`;
  `usb_device_task.c:102`). A SETUP that comes before the reset of the bus was handled
  is lost with it, and the host asks again. `usb_set_interface` may acknowledge the
  SETUP and then refuse it.
* Programming: an upload that moves fewer bytes than asked counts as whole, so that a 0
  of the image may be compared with a byte never read (`partial`). The blank check
  leaves out as many bytes at the end of the flash as the boot loader has at its start.
  The erase is said to be tried for 10 seconds (`atmel.c:304`), but the first status
  that says anything ends the loop; a device whose status always comes short is
  asked again for ever (`dfu.c:777`). A start address record (type 5) moves the base
  address of what follows, which in the files of the usual tools is nothing; `Regular`
  excludes data there.

Seen, and without a model: `cal_data`'s centre of an input goes to a local copy
and is dropped (`calibration.c:139`); `scb_send_float_as_dsp16_array`
(`API/src/openscb_utils.c:43`) indexes a converted chunk as the whole array, wrong
from the second packet on, which 24 outputs never reach; a command shorter than
it should be is completed with bytes of the one before (`pc_comm_usb.c:56`); an
input mapping of 16 or more keeps the value of the last period, converted a second
time (`core.c:129`); `vsnprintf`'s result is used as the length of a trace message
that was cut (`trace.c:114`); a firmware that hangs before the watchdog is started
is never counted (`main.c:67`); `usb_get_interface` uses the interface number of the
host as an index without looking at it; `atmel_set_fuse` cannot set lock bits above
the eighth; chips of one 64 KB page are read one byte too far (`DfuProg` assumes
more pages).

## Not modelled

* `rc_utils.c`: arithmetic for controllers that are no longer there; nothing on
  the board calls it.
* `trace.c`: debug builds only, with an endpoint of its own.
* `pc_comm_uart.c`: nothing calls it.
* `SET_INPUT_CALIB_VALUE` (`sys_conf.c:138`), with which the host overwrites the
  calibration of the inputs: `Measured` and `CalibrationIsUsed` are about calibrations
  the board has measured itself. What a calibration of the host's makes of a pulse is in
  `Conversions` (`InputFits`, any calibration).
* Of FreeRTOS: queues of data, counting and recursive semaphores, co-routines, hooks and
  statistics, which the firmware does not use, and the saving of contexts. In `Create` the
  allocations share one suspension of the scheduler, and the yield is one step with the end of the
  critical section.
* Of the USB stack: suspend and resume, host mode and high speed (left out of the
  build), the copy loops of `usb_drv.c`; the data endpoints are in `CoreTasks` and
  `HostApi`. The STALLs for an unknown descriptor, interface or value are one.
* Of the programming tool: fuses and configuration bytes, the EEPROM and the branches for
  8051 and AVR chips, the text of command line and hex file.
* Drivers, clocks, board descriptions: single writes to registers.
* The Python binding, the test program, the build: `HostApi` takes any
  sequence of calls.

`PROJECT.json` gives a status and a reason for each component.

The definitions stand for about 12 % of the lines of C in the repository. Most of the rest
declares and does not behave: the register and bit-field headers of the chip
(`usb_drv.h`, `usbb.h`, `compiler.h` and the like), the headers of a DSP library of which the
firmware uses two operators (`dsp.h`), the public headers of FreeRTOS, tables of chips, and the
parts of the kernel and of the drivers that the configuration compiles out. What
has state and is used by the board or the tool is in the modules, but for the
list above.

## Plan

Done: 1 `FrameMailbox`, `ServoOut` and its refinement; 2 `RxInput`, with overflow and
loss; 3 `OutputControl`; 4 `CoreTasks`, which composes core task, configuration, PC link
and watchdog; 5 `Conversions`, `OutputCalib`; 6 `Boot`; 7 `HostApi`; 8 `Kernel`, on which
the interleavings of 1 to 5 rest; 9 `UsbDevice`; 10 `DfuProg`; proofs about all of them.

Left, in this order:

1. `HostApi`: the sequence download and the packets checked by `scb_get_reply`.
2. `DfuProg`: the fuses, with the reset between two of them.
3. `RxInput` with `core_inputs_get_all`: channel mapping and `get_value` on top of the
   decoder.
4. `TraceRing`: writers under the mutex and a reader without.

## Using the project

```
tlc -workers 2 -config ServoOut.cfg MCServoOut     # a run
tlapm ServoOutProofs.tla                           # a proof module
```

Runs take from a second to a minute and a half on two cores, proof modules a minute or
two each, `KernelProofs` about a quarter of an hour. Modules use the community modules `FiniteSetsExt` and `SequencesExt` and, for
proofs, `TLAPS`, `FiniteSetTheorems`, `FunctionTheorems`, `SequenceTheorems` and
`WellFoundedInduction`.
