------------------------------ MODULE ServoOut ------------------------------
(***************************************************************************)
(* The servo pulse generator, Embedded/src/io/servo_out_bb.c: the core     *)
(* task turns the commanded pulse widths into an array of steps, and the   *)
(* timer interrupt plays the arrays.  There are two arrays: the interrupt  *)
(* plays one while the task fills the other, and the arrays are exchanged  *)
(* through four pointers with the interrupt masked.                        *)
(*                                                                         *)
(* The task's work is cut where the interrupt may preempt it: once per     *)
(* iteration of the generator's loop and once per statement of the         *)
(* exchange.  The interrupt handler runs to completion: nothing has a      *)
(* higher priority.  No time is modelled: an interrupt may come at any     *)
(* moment it is not masked.                                                *)
(***************************************************************************)
EXTENDS Integers, FiniteSets, FiniteSetsExt

CONSTANTS
    SERVO_MAX_NB,       \* number of servo outputs
    MAX_QUEUE_NB,       \* pulses generated in parallel
    IO_BB_PINS,         \* GPIO number of each servo output
    MAX_UINT16,         \* largest value of the 16-bit timer
    RefreshPeriod,      \* REFRESH_PERIOD_IN_US in timer ticks
    MinServoPulse,      \* MIN_SERVO_PULSE
    MaxServoPulse,      \* MAX_SERVO_PULSE
    DefaultRaw,         \* DEFAULT_OUTPUT_RAW_VALUE
    Commands            \* what the core task may set on its outputs

Uint16 == 0..MAX_UINT16
Int16Value == -32768..32767

Servo == 0..(SERVO_MAX_NB - 1)

ASSUME SizeAssumption ==
    /\ SERVO_MAX_NB \in Nat \ {0}
    /\ MAX_QUEUE_NB \in Nat \ {0}

ASSUME PinAssumption == IO_BB_PINS \in [Servo -> Nat]

ASSUME PulseAssumption ==
    /\ MAX_UINT16 \in Nat
    /\ RefreshPeriod \in Nat
    /\ MinServoPulse \in Nat \ {0}
    /\ MaxServoPulse \in MinServoPulse..(MAX_UINT16 - 1)
    /\ DefaultRaw \in MinServoPulse..MaxServoPulse

ASSUME CommandAssumption ==
    Commands \subseteq [Servo -> [value : Int16Value, active : BOOLEAN]]

\* Step arrays: step_buffer1 is followed in memory by step_buffer2.
StepNb == SERVO_MAX_NB + 1
StepBuffer1 == 0
StepBuffer2 == StepNb
Address == 0..(2 * StepNb - 1)

\* GPIO_REG_SET keeps the pin's number inside its 32-bit port, and
\* TOGGLE_GPIO writes that mask to port 0 whatever the pin's port.
ToggleBit(s) == IO_BB_PINS[s] % 32
ToggleBits == {ToggleBit(s) : s \in Servo}
Pins == ToggleBits \cup {IO_BB_PINS[s] : s \in Servo}

Step == [gpio_toggle : SUBSET ToggleBits, time_to_next_step : Uint16]

VARIABLES
    timer_value,            \* servo[].timer_value
    servo_active,           \* the servo_active bit field
    time_left,              \* servo[].time_left
    finished,               \* servos the queues' servo_index has passed
    refresh_period_needed,  \* the generator's local of that name
    steps,                  \* both step arrays
    current_step, current_step_first, current_step_last,
    next_step_first, next_step_last,
    new_first,              \* apply_values' array being filled
    new_step,               \* the generator's write position in it
    pc,                     \* where the core task is
    irq_enabled,            \* the timer interrupt's level is not masked
    pins,                   \* GPIO pins that are high
    rc                      \* timer compare register

\* History, read by properties only.
VARIABLES
    generated,      \* commands each array was generated from
    high,           \* ticks each pin has been high in the frame being played
    frame_time      \* sum of the periods loaded in the frame being played

task == <<timer_value, servo_active, time_left, finished,
          refresh_period_needed, new_first, new_step>>
current == <<current_step, current_step_first, current_step_last>>
next == <<next_step_first, next_step_last>>
signal == <<pins, rc, high, frame_time>>
vars == <<task, current, next, signal, steps, pc, irq_enabled, generated>>

-----------------------------------------------------------------------------
(* The sequence generator *)

\* Enabled servos go to the queues in turn; every output is enabled at boot.
Queue(s) == s % MAX_QUEUE_NB

\* At the head of their queue: servo[queue[i].servo_index] of each queue.
Running(done) ==
    {s \in Servo \ done :
        \A t \in Servo \ done : Queue(t) = Queue(s) => s <= t}

FindNextTimeLeft ==
    Min({MAX_UINT16} \cup {time_left[s] : s \in Running(finished)})

\* Mutant: the mask is built without looking at IS_ACTIVE.
MutantToggleMask(servos) == {ToggleBit(s) : s \in servos}

\* A pulse that stops and one that starts on the same bit set it once: |=.
ToggleMask(servos) == {ToggleBit(s) : s \in servos \cap servo_active}

\* servobb_set_value for every output, as core_outputs_set_all and
\* output_calib_core_run call it: clamp, and keep the width of inactive ones.
Clamp(value) ==
    IF value > MaxServoPulse THEN MaxServoPulse
    ELSE IF value < MinServoPulse THEN MinServoPulse
    ELSE value

SetOutputs(command) ==
    /\ pc = "set"
    /\ timer_value' = [s \in Servo |->
            IF command[s].active THEN Clamp(command[s].value)
                                 ELSE timer_value[s]]
    /\ servo_active' = {s \in Servo : command[s].active}
    /\ pc' = "apply"
    /\ UNCHANGED <<time_left, finished, refresh_period_needed, new_first,
                   new_step, current, next, signal, steps, irq_enabled,
                   generated>>

\* A period of input calibration mode sets no output and still applies.
KeepOutputs ==
    /\ pc = "set"
    /\ pc' = "apply"
    /\ UNCHANGED <<task, current, next, signal, steps, irq_enabled, generated>>

\* An array was handed over that the interrupt has not started to play.
SwapPending == current_step_first # next_step_first

FreeArray == IF current_step_first = StepBuffer1 THEN StepBuffer2
                                                 ELSE StepBuffer1

\* servobb_apply_values, first half: take the array that is not in use and
\* start the first pulse of every queue.
ApplyBegin ==
    /\ pc = "apply"
    /\ ~SwapPending
    /\ LET target == FreeArray
       IN  /\ new_first' = target
           /\ new_step' = target
           /\ steps' = [steps EXCEPT ![target].gpio_toggle =
                                        ToggleMask(Running({}))]
           /\ generated' = [generated EXCEPT ![target] =
                   [pulse |-> timer_value, active |-> servo_active]]
    /\ time_left' = timer_value
    /\ finished' = {}
    /\ refresh_period_needed' = RefreshPeriod
    /\ pc' = "generate"
    /\ UNCHANGED <<timer_value, servo_active, current, next, signal,
                   irq_enabled>>

\* The previous array has not been picked up yet: return false.
ApplyBusy ==
    /\ pc = "apply"
    /\ SwapPending
    /\ pc' = "set"
    /\ UNCHANGED <<task, current, next, signal, steps, irq_enabled, generated>>

\* One iteration of the generator's loop: the pulses that end first end in
\* the next step, and the servo behind each of them starts there.
GenerateStep ==
    /\ pc = "generate"
    /\ FindNextTimeLeft # MAX_UINT16
    /\ LET least == FindNextTimeLeft
           ended == {s \in Running(finished) : time_left[s] = least}
           started == Running(finished \cup ended) \ Running(finished)
       IN  /\ steps' = [steps EXCEPT
                  ![new_step].time_to_next_step = least,
                  ![new_step + 1].gpio_toggle = ToggleMask(ended \cup started)]
           /\ refresh_period_needed' = refresh_period_needed - least
           /\ time_left' = [s \in Servo |->
                  IF s \in Running(finished) THEN time_left[s] - least
                                             ELSE time_left[s]]
           /\ finished' = finished \cup ended
    /\ new_step' = new_step + 1
    /\ UNCHANGED <<timer_value, servo_active, new_first, pc, current, next,
                   signal, irq_enabled, generated>>

\* The last step waits for the rest of the period, cut to 16 bits.
GenerateLast ==
    /\ pc = "generate"
    /\ FindNextTimeLeft = MAX_UINT16
    /\ steps' = [steps EXCEPT ![new_step].time_to_next_step =
                                    refresh_period_needed % (MAX_UINT16 + 1)]
    /\ pc' = "disable"
    /\ UNCHANGED <<task, current, next, signal, irq_enabled, generated>>

\* Mutant: the pointers are exchanged with the interrupt enabled.
MutantDisableInterrupt ==
    /\ pc = "disable"
    /\ pc' = "swap_first"
    /\ UNCHANGED <<task, current, next, signal, steps, irq_enabled, generated>>

DisableInterrupt ==
    /\ pc = "disable"
    /\ irq_enabled' = FALSE
    /\ pc' = "swap_first"
    /\ UNCHANGED <<task, current, next, signal, steps, generated>>

SwapFirst ==
    /\ pc = "swap_first"
    /\ next_step_first' = new_first
    /\ pc' = "swap_last"
    /\ UNCHANGED <<task, current, next_step_last, signal, steps, irq_enabled,
                   generated>>

SwapLast ==
    /\ pc = "swap_last"
    /\ next_step_last' = new_step
    /\ pc' = "enable"
    /\ UNCHANGED <<task, current, next_step_first, signal, steps, irq_enabled,
                   generated>>

\* Mutant: the interrupt stays masked after the exchange.
MutantEnableInterrupt ==
    /\ pc = "enable"
    /\ pc' = "set"
    /\ UNCHANGED <<task, current, next, signal, steps, irq_enabled, generated>>

EnableInterrupt ==
    /\ pc = "enable"
    /\ irq_enabled' = TRUE
    /\ pc' = "set"
    /\ UNCHANGED <<task, current, next, signal, steps, generated>>

-----------------------------------------------------------------------------
(* The timer interrupt *)

\* Advance in the current array, or switch when its last step was played.
AdvanceStep ==
    IF current_step + 1 > current_step_last
    THEN /\ current_step' = next_step_first
         /\ current_step_first' = next_step_first
         /\ current_step_last' = next_step_last
    ELSE /\ current_step' = current_step + 1
         /\ UNCHANGED <<current_step_first, current_step_last>>

\* What the pins do from this interrupt to the next one.
MeasureSignal(step) ==
    LET first == current_step = current_step_first
    IN  /\ high' = [p \in Pins |->
              (IF first THEN 0 ELSE high[p])
              + (IF p \in pins' THEN step.time_to_next_step ELSE 0)]
        /\ frame_time' = (IF first THEN 0 ELSE frame_time)
                            + step.time_to_next_step

ServoHardTcIrq ==
    /\ irq_enabled
    /\ rc' = steps[current_step].time_to_next_step
    /\ pins' = SymDiff(pins, steps[current_step].gpio_toggle)
    /\ AdvanceStep
    /\ MeasureSignal(steps[current_step])
    /\ UNCHANGED <<task, next, steps, pc, irq_enabled, generated>>

-----------------------------------------------------------------------------

\* servobb_module_init generates a first array before any output is enabled,
\* one step that only waits; servobb_channel_init then drives every pin low.
Init ==
    /\ timer_value = [s \in Servo |-> DefaultRaw]
    /\ servo_active = {}
    /\ time_left = [s \in Servo |-> 0]
    /\ finished = {}
    /\ refresh_period_needed = RefreshPeriod
    /\ steps = [a \in Address |->
            [gpio_toggle |-> {}, time_to_next_step |->
                IF a = StepBuffer1 THEN RefreshPeriod % (MAX_UINT16 + 1)
                                   ELSE 0]]
    /\ current_step = StepBuffer1
    /\ current_step_first = StepBuffer1
    /\ current_step_last = StepBuffer1
    /\ next_step_first = StepBuffer1
    /\ next_step_last = StepBuffer1
    /\ new_first = StepBuffer1
    /\ new_step = StepBuffer1
    /\ pc = "set"
    /\ irq_enabled = TRUE
    /\ pins = {}
    /\ rc = DefaultRaw
    /\ generated = [b \in {StepBuffer1, StepBuffer2} |->
            [pulse |-> timer_value, active |-> {}]]
    /\ high = [p \in Pins |-> 0]
    /\ frame_time = 0

CoreTask ==
    \/ \E command \in Commands : SetOutputs(command)
    \/ KeepOutputs
    \/ ApplyBegin
    \/ ApplyBusy
    \/ GenerateStep
    \/ GenerateLast
    \/ DisableInterrupt
    \/ SwapFirst
    \/ SwapLast
    \/ EnableInterrupt

Next == CoreTask \/ ServoHardTcIrq

Spec == Init /\ [][Next]_vars

\* The core task runs every 14 ms and the interrupt handler cannot block it
\* for ever; the timer restarts at every interrupt.
FairSpec == Spec /\ WF_vars(CoreTask) /\ WF_vars(ServoHardTcIrq)

-----------------------------------------------------------------------------
(* Properties *)

\* The values each variable may take.
TypeOK ==
    /\ timer_value \in [Servo -> MinServoPulse..MaxServoPulse]
    /\ servo_active \in SUBSET Servo
    /\ time_left \in [Servo -> 0..MaxServoPulse]
    /\ finished \in SUBSET Servo
    /\ refresh_period_needed \in Int
    /\ steps \in [Address -> Step]
    /\ current_step \in Address
    /\ current_step_first \in {StepBuffer1, StepBuffer2}
    /\ current_step_last \in Address
    /\ next_step_first \in {StepBuffer1, StepBuffer2}
    /\ next_step_last \in Address
    /\ new_first \in {StepBuffer1, StepBuffer2}
    /\ new_step \in Address
    /\ pc \in {"set", "apply", "generate", "disable", "swap_first",
               "swap_last", "enable"}
    /\ irq_enabled \in BOOLEAN
    /\ pins \in SUBSET ToggleBits
    /\ rc \in Uint16
    /\ generated \in [{StepBuffer1, StepBuffer2} ->
            [pulse : [Servo -> MinServoPulse..MaxServoPulse],
             active : SUBSET Servo]]
    /\ high \in [Pins -> Nat]
    /\ frame_time \in Nat

\* The generator never writes past the array it fills ("we might need up to
\* one step per servo + 1 step for refresh period"): even between two of its
\* iterations there is room for the step it may still open.
StepArrayNeverOverruns ==
    pc = "generate" /\ FindNextTimeLeft # MAX_UINT16
        => new_step + 1 < new_first + StepNb

\* The interrupt never plays, nor is about to be sent to, the array the task
\* is filling, and it plays inside the array it was given.
ArraysAreNotShared ==
    /\ current_step \in current_step_first..current_step_last
    /\ current_step_last < current_step_first + StepNb
    /\ pc \in {"generate", "disable"} =>
            new_first \notin {current_step_first, next_step_first}
    /\ irq_enabled => next_step_last \in
            next_step_first..(next_step_first + StepNb - 1)

\* Why the arrays are never shared: where the pointers and the mask stand at
\* each point of the task's work, and that every finished step of the array
\* being filled has finished at least one servo.
PointersFollowTask ==
    /\ pc # "swap_last" => next_step_last \in
            next_step_first..(next_step_first + StepNb - 1)
    /\ ~SwapPending => next_step_last = current_step_last
    /\ pc \in {"generate", "disable", "swap_first"} =>
            ~SwapPending /\ new_first = FreeArray
    /\ pc \in {"swap_last", "enable"} =>
            SwapPending /\ next_step_first = new_first
    /\ irq_enabled <=> pc \notin {"swap_first", "swap_last", "enable"}
    /\ pc \in {"generate", "disable", "swap_first", "swap_last"} =>
            new_step \in new_first..(new_first + Cardinality(finished))

IInv == TypeOK /\ ArraysAreNotShared /\ PointersFollowTask

\* A frame played to its end has put on the wire of every output the pulse
\* it was commanded, once and for exactly the commanded time, nothing on the
\* wires of inactive outputs, and left every pin low for the next frame; and it
\* lasted one refresh period ("send a pulse to each servos every N ms").
FrameEnds == ServoHardTcIrq /\ current_step = current_step_last

FramesAreFaithful ==
    [][FrameEnds =>
         LET from == generated[current_step_first]
         IN  /\ pins' = {}
             /\ frame_time' = RefreshPeriod
             /\ \A s \in Servo : high'[IO_BB_PINS[s]] =
                    IF s \in from.active THEN from.pulse[s] ELSE 0]_vars

\* When that is so: each output has a pin of its own on port 0, the widths each
\* output may have, and times to begin its pulses at that leave the queue room.
PinsFit ==
    /\ \A s \in Servo : IO_BB_PINS[s] < 32
    /\ \A s, t \in Servo : IO_BB_PINS[s] = IO_BB_PINS[t] => s = t

Widths(s) ==
    {DefaultRaw} \cup
    {Clamp(command[s].value) : command \in {c \in Commands : c[s].active}}

PulsesFollow(begin) ==
    \A s \in Servo : \A width \in Widths(s) :
        /\ begin[s] + width <= RefreshPeriod
        /\ s + MAX_QUEUE_NB \in Servo =>
                begin[s] + width <= begin[s + MAX_QUEUE_NB]

\* Once the core task stops changing its commands, the frames played end up
\* carrying them for good: no refused apply_values loses the last command.
SettledCommandsArePlayed ==
    <>[][UNCHANGED <<timer_value, servo_active>>]_vars =>
        <>[](generated[current_step_first] =
                [pulse |-> timer_value, active |-> servo_active])

\* The two arrays and the pointers behave as a mailbox of whole frames.
StepsBetween(first, last) ==
    [i \in 1..(last - first + 1) |-> steps[first + i - 1]]

Mailbox == INSTANCE FrameMailbox WITH
    MaxLen <- StepNb,
    NoFrame <- <<>>,
    frame <- StepsBetween(current_step_first, current_step_last),
    at <- current_step - current_step_first + 1,
    posted <- IF current_step_first = next_step_first \/ pc = "swap_last"
              THEN <<>> ELSE StepsBetween(next_step_first, next_step_last)

ImplementsMailbox == Mailbox!Spec
=============================================================================
