---------------------------- MODULE OutputControl ---------------------------
(***************************************************************************)
(* How the board computes the position of its outputs: the goals and the   *)
(* frame the host sends (controller/api_ctrl.c, controller/frame_ctrl.c),  *)
(* and what the core task makes of them every period in its normal mode    *)
(* (core.c, out_ctrl.c).                                                   *)
(*                                                                         *)
(* The communication task runs the handlers, one assignment per step.  The *)
(* core task has the higher priority: when its period has come it runs to  *)
(* its end between any two of those steps, unless the communication task   *)
(* holds the mutex of the goals.  The frame has no mutex.                  *)
(*                                                                         *)
(* Positions are fixed-point numbers of which One stands for 1.0, times    *)
(* are unsigned milliseconds; both keep the ratio of their widths.         *)
(***************************************************************************)
EXTENDS Integers, FiniteSets

CONSTANTS
    MAX_OUT_NB,     \* number of outputs
    One,            \* 2^15 on the board: rc_value_t is -One..(One - 1)
    ClockModulus,   \* 2^32 on the board: uint32_t
    Period,         \* milliseconds between two runs of the core task
    SPEED_COEF,     \* unit of max_speed
    MaxSpeed,       \* max_speed of each output, 0 for no limit
    Frames,         \* frames the host loads
    GoalPackets,    \* goals the host sends: functions from some outputs
    ControlMasks,   \* sets of outputs the host takes control of
    MaxAge,         \* bound: the age of a frame counts up to here; from
                    \* ClockModulus on it wraps
    MaxCommands     \* bound: commands in a behaviour

Output == 0..(MAX_OUT_NB - 1)
Value == (-One)..(One - 1)
RC_VALUE_MAX == One - 1
Clock == 0..(ClockModulus - 1)
Frame == [duration : Clock, active_bm : SUBSET Output,
          position : [Output -> Value]]

ASSUME OutputAssumption == MAX_OUT_NB \in Nat \ {0}

ASSUME WidthAssumption ==
    /\ One \in Nat \ {0}
    /\ ClockModulus \in Nat \ {0}
    /\ Period \in Nat \ {0}
    /\ SPEED_COEF \in Nat \ {0}
    /\ MaxAge \in Nat
    /\ MaxCommands \in Nat

ASSUME CommandAssumption ==
    /\ MaxSpeed \in [Output -> Nat]
    /\ Frames \subseteq Frame
    /\ \A g \in GoalPackets : DOMAIN g \subseteq Output
                                 /\ \A o \in DOMAIN g : g[o] \in Value
    /\ ControlMasks \subseteq SUBSET Output

VARIABLES
    phase,          \* milliseconds since the core task's last run was due
    outputs,        \* core.c: [value, active] of each output
    goals,          \* sp_outs
    controlled_bm,
    api_mutex,      \* the communication task holds api_ctrl_mutex
    age,            \* now - api_frm_ctrl.start_time, in uint32_t
    duration, previous, active_bm, next,    \* api_frm_ctrl
    comm_pc, packet, ind                    \* communication task

\* History, read by properties and by the bound.
VARIABLES
    whole,          \* goals after the last packet handled to its end
    torn,           \* the core task ran inside the frame's last loading
    commands        \* commands so far

control == <<goals, controlled_bm, api_mutex, whole>>
frame == <<duration, previous, active_bm, next>>
comm == <<comm_pc, packet, ind, commands>>
vars == <<phase, outputs, control, age, frame, comm, torn>>

-----------------------------------------------------------------------------
(* Arithmetic *)

\* The conversions of C to int16_t, and its division of negative numbers.
Int16(x) == ((x + One) % (2 * One)) - One
Half(v) == IF v >= 0 THEN v \div 2 ELSE -((-v) \div 2)
Smaller(a, b) == IF a < b THEN a ELSE b
Greater(a, b) == IF a < b THEN b ELSE a

\* dsp16_op_mul: an arithmetic shift, which rounds down.
Dsp16Mul(a, b) == (a * b) \div One

\* The product is computed in uint32_t and may exceed it.
Elapsed(t, total) == ((RC_VALUE_MAX * t) % ClockModulus) \div total

\* Without halving them first the difference of two positions has no room in
\* the operand of dsp16_op_mul.
MutantInterpolate(from, to, t, total) ==
    Int16(from + Dsp16Mul(Int16(to - from), Int16(Elapsed(t, total))))

Interpolate(from, to, t, total) ==
    Int16(from + 2 * Dsp16Mul(Half(to) - Half(from), Int16(Elapsed(t, total))))

SpeedLimit(o, goal) ==
    LET current == outputs[o].value
        step == SPEED_COEF * MaxSpeed[o]
    IN  IF MaxSpeed[o] = 0 THEN goal
        ELSE IF current < goal THEN Smaller(current + step, goal)
        ELSE Greater(current - step, goal)

-----------------------------------------------------------------------------
(* The core task *)

\* frame_ctrl_update: where the frame puts an output now.
FramePosition(o) ==
    IF age >= duration THEN next[o]
                       ELSE Interpolate(previous[o], next[o], age, duration)

\* The goals come after the frame.
MutantCommanded(o) ==
    IF o \in controlled_bm THEN goals[o] ELSE FramePosition(o)

\* The frame comes after the goals: it wins.
Commanded(o) == IF o \in active_bm THEN FramePosition(o) ELSE goals[o]

\* The value of an inactive output is forgotten.
MutantNewOutput(o) ==
    IF o \in active_bm \union controlled_bm
    THEN [value |-> SpeedLimit(o, Commanded(o)), active |-> TRUE]
    ELSE [value |-> 0, active |-> FALSE]

\* out_ctrl_get_value.  An inactive output keeps its value.
NewOutput(o) ==
    IF o \in active_bm \union controlled_bm
    THEN [value |-> SpeedLimit(o, Commanded(o)), active |-> TRUE]
    ELSE [outputs[o] EXCEPT !.active = FALSE]

Due == phase = Period

CoreRun ==
    /\ Due /\ ~api_mutex
    /\ phase' = 0
    /\ outputs' = [o \in Output |-> NewOutput(o)]
    /\ torn' = (torn \/ comm_pc \in {"times", "previous", "active_bm",
                                     "position"})
    /\ UNCHANGED <<control, age, frame, comm>>

\* The handlers here hold the mutex for microseconds, so no period is missed.  The
\* replies of api_ctrl.c hold it while they are sent, and vTaskDelayUntil then makes
\* up for the missed periods: CoreTasks has them.
Tick ==
    /\ ~Due
    /\ phase' = phase + 1
    /\ age' = IF age < MaxAge THEN (age + 1) % ClockModulus ELSE age
    /\ UNCHANGED <<outputs, control, frame, comm, torn>>

-----------------------------------------------------------------------------
(* The communication task *)

\* It runs only while the core task sleeps, or waits for its mutex.
CommRuns == ~Due \/ api_mutex

Receive(pc, p) ==
    /\ CommRuns
    /\ comm_pc = "idle"
    /\ commands < MaxCommands
    /\ commands' = commands + 1
    /\ comm_pc' = pc
    /\ packet' = p
    /\ ind' = 0

\* The packet of a handler that has ended is never read again.
HandlerEnds == comm_pc' = "idle" /\ packet' = <<>> /\ ind' = 0

\* The goals are written without taking the mutex.
MutantReceiveGoals ==
    \E g \in GoalPackets :
        /\ Receive("goals", g)
        /\ UNCHANGED <<phase, outputs, control, age, frame, torn>>

\* set_output_goal
ReceiveGoals ==
    \E g \in GoalPackets :
        /\ Receive("goals", g)
        /\ api_mutex' = TRUE
        /\ UNCHANGED <<phase, outputs, goals, controlled_bm, whole, age,
                       frame, torn>>

WriteGoal ==
    /\ CommRuns
    /\ comm_pc = "goals" /\ ind \in Output
    /\ goals' = IF ind \in DOMAIN packet
                THEN [goals EXCEPT ![ind] = packet[ind]] ELSE goals
    /\ ind' = ind + 1
    /\ UNCHANGED <<phase, outputs, controlled_bm, api_mutex, whole, age,
                   frame, comm_pc, packet, commands, torn>>

GoalsWritten ==
    /\ CommRuns
    /\ comm_pc = "goals" /\ ind = MAX_OUT_NB
    /\ api_mutex' = FALSE
    /\ whole' = goals
    /\ HandlerEnds
    /\ UNCHANGED <<phase, outputs, goals, controlled_bm, age, frame,
                   commands, torn>>

\* set_control_bm
SetControlBm ==
    \E bm \in ControlMasks :
        /\ CommRuns
        /\ comm_pc = "idle"
        /\ commands < MaxCommands
        /\ commands' = commands + 1
        /\ controlled_bm' = bm
        /\ UNCHANGED <<phase, outputs, goals, api_mutex, whole, age, frame,
                       comm_pc, packet, ind, torn>>

\* frame_ctrl_load_frame: the start time, then the rest in turn.
LoadFrame ==
    \E f \in Frames :
        /\ Receive("times", f)
        /\ age' = 0
        /\ torn' = FALSE
        /\ UNCHANGED <<phase, outputs, control, frame>>

LoadDuration ==
    /\ CommRuns
    /\ comm_pc = "times"
    /\ duration' = packet.duration
    /\ comm_pc' = "previous"
    /\ UNCHANGED <<phase, outputs, control, age, previous, active_bm, next,
                   packet, ind, commands, torn>>

\* get_current_pos_frame reads the outputs the core task last computed.
LoadPrevious ==
    /\ CommRuns
    /\ comm_pc = "previous"
    /\ previous' = [previous EXCEPT ![ind] = outputs[ind].value]
    /\ IF ind + 1 < MAX_OUT_NB
       THEN ind' = ind + 1 /\ UNCHANGED comm_pc
       ELSE ind' = 0 /\ comm_pc' = "active_bm"
    /\ UNCHANGED <<phase, outputs, control, age, duration, active_bm, next,
                   packet, commands, torn>>

\* The copy of the frame starts with its mask.
LoadActiveBm ==
    /\ CommRuns
    /\ comm_pc = "active_bm"
    /\ active_bm' = packet.active_bm
    /\ comm_pc' = "position"
    /\ UNCHANGED <<phase, outputs, control, age, duration, previous, next,
                   packet, ind, commands, torn>>

LoadPosition ==
    /\ CommRuns
    /\ comm_pc = "position"
    /\ next' = [next EXCEPT ![ind] = packet.position[ind]]
    /\ IF ind + 1 < MAX_OUT_NB
       THEN ind' = ind + 1 /\ UNCHANGED <<comm_pc, packet>>
       ELSE HandlerEnds
    /\ UNCHANGED <<phase, outputs, control, age, duration, previous,
                   active_bm, commands, torn>>

\* frame_ctrl_disable
DisableFrame ==
    /\ CommRuns
    /\ comm_pc = "idle"
    /\ commands < MaxCommands
    /\ commands' = commands + 1
    /\ active_bm' = {}
    /\ UNCHANGED <<phase, outputs, control, age, duration, previous, next,
                   comm_pc, packet, ind, torn>>

-----------------------------------------------------------------------------

\* The memory is zero at boot; the tick counter starts with start_time.
Init ==
    /\ phase = 0
    /\ outputs = [o \in Output |-> [value |-> 0, active |-> FALSE]]
    /\ goals = [o \in Output |-> 0]
    /\ controlled_bm = {}
    /\ api_mutex = FALSE
    /\ age = 0
    /\ duration = 0
    /\ previous = [o \in Output |-> 0]
    /\ active_bm = {}
    /\ next = [o \in Output |-> 0]
    /\ comm_pc = "idle"
    /\ packet = <<>>
    /\ ind = 0
    /\ whole = goals
    /\ torn = FALSE
    /\ commands = 0

CommStep ==
    \/ WriteGoal \/ GoalsWritten
    \/ LoadDuration \/ LoadPrevious \/ LoadActiveBm \/ LoadPosition

Command == ReceiveGoals \/ SetControlBm \/ LoadFrame \/ DisableFrame

Next == CoreRun \/ Tick \/ CommStep \/ Command

\* Time passes, the core task is the most urgent one, and the communication
\* task gets the processor back for the handler it is in.
Fairness == WF_vars(CoreRun) /\ WF_vars(Tick) /\ WF_vars(CommStep)

Spec == Init /\ [][Next]_vars /\ Fairness

-----------------------------------------------------------------------------
(* Properties *)

\* Every variable keeps its type: the outputs stay in rc_value_t whatever the
\* interpolation and the speed limit compute (frame_ctrl.c:62, out_ctrl.c:26).
TypeOK ==
    /\ phase \in 0..Period
    /\ outputs \in [Output -> [value : Value, active : BOOLEAN]]
    /\ goals \in [Output -> Value]
    /\ controlled_bm \in SUBSET Output
    /\ api_mutex \in BOOLEAN
    /\ age \in Clock
    /\ duration \in Clock
    /\ previous \in [Output -> Value]
    /\ active_bm \in SUBSET Output
    /\ next \in [Output -> Value]
    /\ comm_pc \in {"idle", "goals", "times", "previous", "active_bm",
                    "position"}
    /\ ind \in 0..MAX_OUT_NB
    /\ whole \in [Output -> Value]
    /\ torn \in BOOLEAN
    /\ commands \in 0..MaxCommands

Distance(a, b) == IF a < b THEN b - a ELSE a - b

\* A packet of goals takes effect as a whole: outputs that the host moves with
\* one message start in the same period.  This is what api_ctrl_mutex is for.
GoalsMoveTogether == [][phase' < phase => goals = whole]_vars

\* No output moves faster than its configured speed, however goals, frames
\* and their cancelling follow each other (openscb.h:72, "according to
\* configured maximum speed").
SpeedIsLimited ==
    [][\A o \in Output : MaxSpeed[o] > 0 =>
          Distance(outputs'[o].value, outputs[o].value)
              <= SPEED_COEF * MaxSpeed[o]]_vars

\* A run of the core task brings the outputs of a frame closer to the frame,
\* and past it by no more than the rounding of the product.
OnCourse ==
    \A o \in active_bm :
        LET from == outputs[o].value
            to == next[o]
        IN  outputs'[o].value \in
                (Smaller(from, to) - 1)..(Greater(from, to) + 1)

\* So it is whenever no run of the core task fell inside the loading.
FrameStaysOnCourse == [][phase' < phase /\ ~torn /\ ~torn' => OnCourse]_vars

\* The frames of which that is true: the clock does not turn while one is
\* loaded, nor the product of frame_ctrl_update while it moves, and none moves
\* an output to the lowest position, below which the rounding may reach.
CourseFits ==
    /\ MaxAge < ClockModulus
    /\ \A f \in Frames :
          /\ RC_VALUE_MAX * f.duration < ClockModulus
          /\ \A o \in f.active_bm : f.position[o] > -One

\* Once the host is silent every output gets where the frame, or else its
\* goal, sends it.
TargetIsReached ==
    \A o \in Output :
        /\ (commands = MaxCommands /\ comm_pc = "idle" /\ o \in active_bm)
              ~> outputs[o].value = next[o]
        /\ (commands = MaxCommands /\ comm_pc = "idle"
                /\ o \in controlled_bm \ active_bm)
              ~> outputs[o].value = goals[o]

\* "Load a frame on the board, and move servo to corresponding positions"
\* (openscb.h:166): loading a frame moves its outputs to the frame's
\* positions, not away from both the present position and the frame's.
LoadingMovesToFrame == [][phase' < phase => OnCourse]_vars
=============================================================================
