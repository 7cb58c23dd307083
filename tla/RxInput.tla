------------------------------ MODULE RxInput -------------------------------
(***************************************************************************)
(* The receiver input, Embedded/src/io/rx_input.c.  Every level change of  *)
(* the PPM pin raises an interrupt whose handler stores the timer and the  *)
(* pin level in a circular FIFO; once per period the core task empties the *)
(* FIFO and measures the time between falling edges.                       *)
(*                                                                         *)
(* The handler's three accesses (timer, interrupt flag, pin) are separate  *)
(* steps, because the pin may change between them.  The core task's read   *)
(* of the write index and the use it makes of it are separate steps too,   *)
(* because the handler may run in between.  The transmitter is part of the *)
(* model: it sends frames of pulses separated by a long one, and now and   *)
(* then a glitch too short for the handler to follow; it may send more     *)
(* edges than the FIFO holds before the core task runs, and it may stop.   *)
(***************************************************************************)
EXTENDS Integers, Sequences, FiniteSets

CONSTANTS
    FIFO_SIZE,          \* entries of the circular FIFO
    MAX_PPM_CHANNEL,    \* channels the decoder has room for
    TimerModulus,       \* the timer has 16 bits
    FrameStartPulse,    \* FRAME_START_PULSE_VALUE
    Inactivity,         \* INACTIVITY_TIMEOUT_TICK
    Widths,             \* pulse widths the transmitter sends per channel
    SyncWidths,         \* widths of the pulse that separates two frames
    LowTime,            \* how long the pin is low in a pulse
    GlitchTime,         \* length of a glitch
    StartTimes,         \* timer value at boot
    Period,             \* timer ticks between two runs of the core task
    SilenceTimes,       \* from the last edge to the core task's next run
    MaxBacklog,         \* edges that may arrive between two emptyings
    MaxEdges,           \* bound: interrupts in a behaviour
    MaxGlitches         \* bound: level changes of glitches in a behaviour

Slot == 0..(FIFO_SIZE - 1)
Channel == 0..(MAX_PPM_CHANNEL - 1)
Time == 0..(TimerModulus - 1)
Edge == [time : Time, high : BOOLEAN]

\* The transmitter sends channels 0..TxLast, then the separator.
TxLast == Len(Widths) - 1

ASSUME FifoAssumption ==
    /\ FIFO_SIZE \in Nat /\ FIFO_SIZE > 1
    /\ TimerModulus \in Nat \ {0}
    /\ MAX_PPM_CHANNEL \in Nat \ {0}
    /\ MaxBacklog \in Nat
    /\ MaxEdges \in Nat
    /\ StartTimes \subseteq Time

ASSUME SignalAssumption ==
    /\ Widths \in Seq(SUBSET (Nat \ {0}))
    /\ SyncWidths \subseteq Nat \ {0}
    /\ LowTime \in Nat \ {0}
    /\ GlitchTime \in Nat
    /\ FrameStartPulse \in Nat
    /\ Inactivity \in Nat
    /\ Period \in Nat
    /\ SilenceTimes \subseteq Nat
    /\ MaxGlitches \in Nat

VARIABLES
    \* the world
    now,            \* free-running timer
    pin,            \* the PPM pin is high
    tx_channel,     \* channel whose pulse the transmitter is sending
    tx_high,        \* ticks of high time left in that pulse
    \* interrupt
    flag,           \* GPIO interrupt flag
    irq_pc, irq_fifo, irq_fifo_idx,
    \* core task
    core_pc, irq_fifo_idx_copy, pop_fifo_idx,
    \* ppm_input
    prev_level, last_toggle_time, index, active, pulse_tick

\* History, read by properties and by the bounds.
VARIABLES
    captured,       \* every entry stored, starting with slot 0 as it is at boot
    popped,         \* number of entries the core task has taken or lost
    copied,         \* entries stored when it last read the write index
    backlog,        \* entries stored since the FIFO was last found empty
    glitches,       \* level changes that belong to glitches, so far
    since,          \* number of the falling edge last_toggle_time was taken at
    locked,         \* channel the decoder must be at, -1 before a frame start
    gap,            \* edges were lost since last_toggle_time was taken
    silence         \* runs of the core task since the transmitter stopped, or -1

world == <<now, pin, tx_channel, tx_high, glitches>>
fifo == <<irq_fifo, irq_fifo_idx, captured, backlog>>
ppm == <<prev_level, last_toggle_time, index, active, pulse_tick, since>>
lock == <<locked, gap>>
core == <<core_pc, irq_fifo_idx_copy, pop_fifo_idx, copied>>
vars == <<world, flag, irq_pc, fifo, core, popped, ppm, lock, silence>>

IncFifoIndex(idx) == (idx + 1) % FIFO_SIZE

-----------------------------------------------------------------------------
(* The transmitter and the pin *)

Pass(ticks) == now' = (now + ticks) % TimerModulus

\* The handler is faster than any pulse the transmitter sends: the pin only
\* moves on when the last edge has been stored.
Quiet == ~flag /\ irq_pc = "idle"

\* A pulse ends with a falling edge, which starts the low part of the next.
Fall ==
    /\ pin /\ Quiet
    /\ Pass(tx_high)
    /\ pin' = FALSE
    /\ flag' = TRUE
    /\ tx_channel' = IF tx_channel = TxLast + 1 THEN 0 ELSE tx_channel + 1
    /\ UNCHANGED tx_high

Rise ==
    /\ ~pin /\ Quiet
    /\ Pass(LowTime)
    /\ pin' = TRUE
    /\ flag' = TRUE
    /\ tx_high' \in {w - LowTime :
            w \in IF tx_channel > TxLast THEN SyncWidths
                                         ELSE Widths[tx_channel + 1]}
    /\ UNCHANGED tx_channel

\* One more interrupt, beside those of the entry being stored.  A run of the core
\* task is too short for the FIFO to fill: only a task that does not run loses edges.
Room ==
    LET more == IF irq_pc = "level" THEN 2 ELSE 1
    IN  /\ backlog + more <= MaxBacklog
        /\ core_pc = "sleep" \/ Len(captured) + more - popped <= FIFO_SIZE

\* While a glitch lasts the pin is not where the transmitter put it.
Glitching == glitches % 2 = 1

Transmit ==
    /\ Len(captured) <= MaxEdges
    /\ Room
    /\ ~Glitching /\ silence = -1
    /\ Fall \/ Rise
    /\ UNCHANGED <<irq_pc, fifo, core, popped, ppm, lock, silence, glitches>>

\* The transmitter stops; nothing moves the pin any more.
Silence ==
    /\ silence = -1 /\ core_pc = "sleep"
    /\ Quiet /\ ~Glitching
    /\ silence' = 0
    /\ \E ticks \in SilenceTimes : Pass(ticks)
    /\ UNCHANGED <<pin, tx_channel, tx_high, glitches, flag, irq_pc, fifo, core, popped,
                   ppm, lock>>

\* While the interrupt of an edge is being served the pin goes back for a
\* moment, and returns before, while or after the handler reads it.
Bounce ==
    /\ glitches < MaxGlitches
    /\ ~Quiet \/ Glitching
    /\ Room
    /\ glitches' = glitches + 1
    /\ pin' = ~pin
    /\ flag' = TRUE
    /\ Pass(GlitchTime)
    /\ UNCHANGED <<tx_channel, tx_high, irq_pc, fifo, core, popped, ppm, lock, silence>>

-----------------------------------------------------------------------------
(* gpio_level_irq *)

IrqReadTime ==
    /\ flag /\ irq_pc = "idle"
    /\ irq_fifo' = [irq_fifo EXCEPT ![irq_fifo_idx].time = now]
    /\ irq_pc' = "clear"
    /\ UNCHANGED <<world, flag, irq_fifo_idx, captured, backlog, core, popped, ppm, lock,
                   silence>>

IrqClearFlag ==
    /\ irq_pc = "clear"
    /\ flag' = FALSE
    /\ irq_pc' = "level"
    /\ UNCHANGED <<world, fifo, core, popped, ppm, lock, silence>>

\* With one entry more than the FIFO holds it looks empty again: the core task will
\* take the last entry next, and those before it are lost.
Overrun ==
    IF Len(captured) + 1 - popped > FIFO_SIZE
    THEN popped' = popped + FIFO_SIZE /\ locked' = -1 /\ gap' = TRUE
    ELSE UNCHANGED <<popped, lock>>

IrqReadLevel ==
    /\ irq_pc = "level"
    /\ irq_fifo' = [irq_fifo EXCEPT ![irq_fifo_idx].high = pin]
    /\ irq_fifo_idx' = IncFifoIndex(irq_fifo_idx)
    /\ irq_pc' = "idle"
    /\ captured' = Append(captured, irq_fifo'[irq_fifo_idx])
    /\ backlog' = backlog + 1
    /\ Overrun
    /\ UNCHANGED <<world, flag, core, ppm, silence>>

\* The level is read first and the flag cleared last.
MutantGpioLevelIrq ==
    \/ IrqReadTime
    \/ /\ irq_pc = "clear"
       /\ irq_fifo' = [irq_fifo EXCEPT ![irq_fifo_idx].high = pin]
       /\ irq_pc' = "level"
       /\ UNCHANGED <<world, flag, irq_fifo_idx, captured, backlog, core, popped, ppm,
                      lock, silence>>
    \/ /\ irq_pc = "level"
       /\ flag' = FALSE
       /\ irq_fifo_idx' = IncFifoIndex(irq_fifo_idx)
       /\ irq_pc' = "idle"
       /\ captured' = Append(captured, irq_fifo[irq_fifo_idx])
       /\ backlog' = backlog + 1
       /\ Overrun
       /\ UNCHANGED <<world, irq_fifo, core, ppm, silence>>

GpioLevelIrq == IrqReadTime \/ IrqClearFlag \/ IrqReadLevel

-----------------------------------------------------------------------------
(* rx_ppm_input_process_input *)

\* Once a separator has been measured between two falling edges of the signal
\* the decoder must be at the transmitter's channels, one after the other.
\* Entry 0 of the FIFO is not an edge of the signal, and a pulse that spans lost
\* edges is not one that was sent.
NextLocked(pulse) ==
    IF gap THEN -1
    ELSE IF pulse > FrameStartPulse /\ since > 0 THEN 0
    ELSE IF locked = -1 THEN -1 ELSE locked + 1

\* The timer's wrap is forgotten.
MutantPulseWidth(edge) ==
    IF edge.time >= last_toggle_time THEN edge.time - last_toggle_time
                                     ELSE edge.time

PulseWidth(edge) == (edge.time - last_toggle_time) % TimerModulus

NextIndex == IF index + 1 >= MAX_PPM_CHANNEL THEN 0 ELSE index + 1

ProcessPpm(edge) ==
    /\ prev_level' = edge.high
    /\ IF prev_level /\ ~edge.high
       THEN LET pulse == PulseWidth(edge)
            IN  /\ IF pulse > FrameStartPulse
                   THEN index' = 0 /\ UNCHANGED pulse_tick
                   ELSE /\ pulse_tick' = [pulse_tick EXCEPT ![index] = pulse]
                        /\ index' = NextIndex
                /\ active' = TRUE
                /\ last_toggle_time' = edge.time
                /\ locked' = NextLocked(pulse)
                /\ gap' = FALSE
                /\ since' = popped
       ELSE UNCHANGED <<last_toggle_time, index, active, pulse_tick, since, lock>>

\* Without the cast to rctime_t the subtraction is one of int.
MutantCheckPpmActivity(when) ==
    /\ active' = (active /\ when - last_toggle_time <= Inactivity)
    /\ UNCHANGED <<prev_level, last_toggle_time, index, pulse_tick, since, lock>>

CheckPpmActivity(when) ==
    /\ active' = (active /\ (when - last_toggle_time) % TimerModulus
                                <= Inactivity)
    /\ UNCHANGED <<prev_level, last_toggle_time, index, pulse_tick, since, lock>>

\* The write index is read with the interrupt disabled.  The interrupt's
\* handler cannot be half way here: it runs to completion over the task.
\* Once the transmitter is silent only the task's period moves the time, until the
\* input is inactive and time no longer matters.  Bound: no
\* edge is waiting at this very instruction when the FIFO is full to the last entry.
CopyFifoIndex ==
    /\ core_pc \in {"sleep", "idle"} /\ irq_pc = "idle"
    /\ flag => Len(captured) - popped < FIFO_SIZE
    /\ irq_fifo_idx_copy' = irq_fifo_idx
    /\ copied' = Len(captured)
    /\ core_pc' = "compare"
    /\ IF core_pc = "sleep" /\ silence > 0 /\ active THEN Pass(Period) ELSE UNCHANGED now
    /\ UNCHANGED <<pin, tx_channel, tx_high, glitches, flag, irq_pc, fifo, pop_fifo_idx,
                   popped, ppm, lock, silence>>

\* The usual test of a circular buffer, forgetting that this one starts with
\* the write index one ahead.
MutantFifoEmpty == irq_fifo_idx_copy = pop_fifo_idx

FifoEmpty == irq_fifo_idx_copy = IncFifoIndex(pop_fifo_idx)

PopEdge ==
    /\ core_pc = "compare" /\ irq_pc = "idle"
    /\ ~FifoEmpty
    /\ ProcessPpm(irq_fifo[pop_fifo_idx])
    /\ pop_fifo_idx' = IncFifoIndex(pop_fifo_idx)
    /\ popped' = popped + 1
    /\ core_pc' = "idle"
    /\ UNCHANGED <<world, flag, irq_pc, fifo, irq_fifo_idx_copy, copied, silence>>

FinishInput ==
    /\ core_pc = "compare" /\ irq_pc = "idle"
    /\ FifoEmpty
    /\ CheckPpmActivity(now)
    /\ core_pc' = "sleep"
    /\ silence' = IF silence = -1 \/ ~active THEN silence ELSE silence + 1
    /\ backlog' = Len(captured) - popped - 1
    /\ UNCHANGED <<world, flag, irq_pc, irq_fifo, irq_fifo_idx, captured,
                   irq_fifo_idx_copy, pop_fifo_idx, popped, copied>>

-----------------------------------------------------------------------------

\* ppm_input_init: the write index starts one ahead of the read index, so the
\* first entry the core task takes is slot 0, which no interrupt ever filled.
Init ==
    /\ now \in StartTimes
    /\ pin \in BOOLEAN
    /\ tx_channel \in 0..(TxLast + 1)
    /\ tx_high \in {LowTime, FrameStartPulse}
    /\ flag = FALSE
    /\ irq_pc = "idle"
    /\ irq_fifo = [i \in Slot |-> [time |-> 0, high |-> FALSE]]
    /\ irq_fifo_idx = 1
    /\ core_pc = "sleep"
    /\ irq_fifo_idx_copy = 0
    /\ pop_fifo_idx = 0
    /\ prev_level = pin
    /\ last_toggle_time = 0
    /\ index = 0
    /\ active = FALSE
    /\ pulse_tick = [c \in Channel |-> 0]
    /\ captured = <<[time |-> 0, high |-> FALSE]>>
    /\ popped = 0
    /\ copied = 0
    /\ backlog = 0
    /\ glitches = 0
    /\ since = 0
    /\ locked = -1
    /\ gap = FALSE
    /\ silence = -1

ProcessInput == CopyFifoIndex \/ PopEdge \/ FinishInput

Next == Transmit \/ Silence \/ Bounce \/ GpioLevelIrq \/ ProcessInput

Spec == Init /\ [][Next]_vars

-----------------------------------------------------------------------------
(* Properties *)

\* Every variable keeps its type; the FIFO's indexes stay inside its buffer.
TypeOK ==
    /\ now \in Time
    /\ pin \in BOOLEAN
    /\ tx_channel \in 0..(TxLast + 1)
    /\ tx_high \in Int
    /\ flag \in BOOLEAN
    /\ irq_pc \in {"idle", "clear", "level"}
    /\ irq_fifo \in [Slot -> Edge]
    /\ irq_fifo_idx \in Slot
    /\ core_pc \in {"sleep", "idle", "compare"}
    /\ irq_fifo_idx_copy \in Slot
    /\ pop_fifo_idx \in Slot
    /\ prev_level \in BOOLEAN
    /\ last_toggle_time \in Time
    /\ index \in Channel
    /\ active \in BOOLEAN
    /\ pulse_tick \in [Channel -> Time]
    /\ captured \in Seq(Edge)
    /\ popped \in Nat
    /\ copied \in Nat
    /\ backlog \in Int
    /\ glitches \in Nat
    /\ since \in Nat
    /\ locked \in Int
    /\ gap \in BOOLEAN
    /\ silence \in Int

\* The core task takes the entries in the order they were stored, each once, and
\* stops only when it has left a single one of those it could see.  Only a whole
\* turn of the FIFO is lost, and never one of the entries a task that has begun a
\* run is about to take.
PopsInOrder ==
    [][/\ pop_fifo_idx' # pop_fifo_idx =>
            /\ popped' = popped + 1
            /\ prev_level' = captured[popped + 1].high
       /\ pop_fifo_idx' = pop_fifo_idx /\ popped' # popped =>
            popped' = popped + FIFO_SIZE /\ core_pc = "sleep"
       /\ core_pc = "compare" /\ core_pc' = "sleep" => popped = copied - 1]_vars

\* The flag is cleared before the level is read (comment at rx_input.c:154):
\* once every interrupt is served the last level stored is the pin's, however
\* the pin moved meanwhile.  Read the other way round, a pin that moves in
\* between stays wrong until the next edge.
LastLevelIsPins ==
    Quiet /\ Len(captured) > 1 => captured[Len(captured)].high = pin

\* On a clean signal, once the separator was measured, every pulse lands in
\* the channel it was sent for, with the width it was sent with, whatever the
\* delay and the grouping of the emptyings and wherever the timer wraps.  After
\* the FIFO has run over this is true again from the next separator on.
ChannelsNotShifted ==
    [][since' # since /\ locked # -1 /\ glitches = 0 =>
        \/ /\ index = locked
           /\ index' = index + 1
           /\ index + 1 \in DOMAIN Widths
           /\ pulse_tick'[index] \in Widths[index + 1]
        \/ /\ locked = Len(Widths)
           /\ index' = 0
           /\ UNCHANGED pulse_tick]_vars

\* When that is so: only the separator is longer than FRAME_START_PULSE, no pulse
\* as long as a turn of the timer, and there is a channel to spare.
SignalFits ==
    /\ \A c \in DOMAIN Widths : \A w \in Widths[c] : w <= FrameStartPulse
    /\ \A w \in SyncWidths : FrameStartPulse < w /\ w < TimerModulus
    /\ FrameStartPulse < TimerModulus
    /\ Len(Widths) < MAX_PPM_CHANNEL

\* The timer wraps before the timeout is over, and yet a lost signal is inactive at
\* the latest four runs of the core task after the last edge was processed.
LossIsDetected == active => silence <= 4
=============================================================================
