----------------------------- MODULE OutputCalib ----------------------------
(***************************************************************************)
(* The mode in which a user calibrates servos (calibration.c): the host    *)
(* names an output and a raw pulse width, and every period the core task   *)
(* moves this output a little towards it while all others are silent.      *)
(*                                                                         *)
(* The widths live in servo_out_bb.c, which keeps the last one sent while  *)
(* an output is inactive.  The command is two assignments, without a       *)
(* mutex, between which the core task, of higher priority, may run.        *)
(*                                                                         *)
(* In the normal mode the positions of the outputs, which OutputControl    *)
(* computes and are arbitrary here, become widths by the calibration the   *)
(* host has stored for each servo.                                         *)
(***************************************************************************)
EXTENDS Conversions

CONSTANTS
    MAX_SERVO_NB,
    MIN_SERVO_PULSE, MAX_SERVO_PULSE,
    DEFAULT_OUTPUT_RAW_VALUE,
    MAX_CALIB_DIFF,                     \* ticks per period
    RawValues,                          \* widths the host asks for
    Positions,                          \* values of outputs in the normal mode
    OutputCalibs,                       \* calibrations the host stores
    DefaultCalib,
    MaxCommands                         \* bound: commands in a behaviour

Output == 0..(MAX_SERVO_NB - 1)
NoOutput == MAX_SERVO_NB                \* 0xFF on the board
Width == MIN_SERVO_PULSE..MAX_SERVO_PULSE

ASSUME CalibAssumption ==
    /\ MAX_SERVO_NB \in Nat \ {0}
    /\ MIN_SERVO_PULSE \in Nat /\ MAX_SERVO_PULSE \in Nat
    /\ MIN_SERVO_PULSE <= MAX_SERVO_PULSE
    /\ DEFAULT_OUTPUT_RAW_VALUE \in Width
    /\ MAX_CALIB_DIFF \in Nat
    /\ MAX_SERVO_PULSE + MAX_CALIB_DIFF < RawHalf
    /\ RawValues \subseteq Raw /\ Positions \subseteq Raw
    /\ OutputCalibs \subseteq OutputCalib /\ DefaultCalib \in OutputCalibs
    /\ MaxCommands \in Nat

VARIABLES
    mode,           \* core.c
    enabled,        \* servo_active_bm
    calib,          \* sys_conf, the calibration of each output
    out_no, raw,    \* cal_data
    width, active,  \* servo[].timer_value and the active bits
    comm_pc, packet,
    commands

\* History: the width of the last pulse an output got.
VARIABLE sent

pulses == <<width, active, sent>>
calibVars ==
    <<mode, enabled, calib, out_no, raw, pulses, comm_pc, packet, commands>>

Distance(a, b) == IF a < b THEN b - a ELSE a - b

-----------------------------------------------------------------------------
(* Servo outputs *)

\* The little protection against excessive pulses of servobb_set_value.
ClampWidth(v) ==
    IF v > MAX_SERVO_PULSE THEN MAX_SERVO_PULSE
    ELSE IF v < MIN_SERVO_PULSE THEN MIN_SERVO_PULSE
    ELSE v

\* Storing the width of an inactive output forgets where its servo is.
MutantSetValues(value, on) ==
    /\ active' = on
    /\ width' = [o \in Output |-> ClampWidth(value[o])]
    /\ sent' = [o \in Output |-> IF o \in on THEN width'[o] ELSE sent[o]]

\* servobb_set_value of every output: the width of an inactive one stays.
SetValues(value, on) ==
    /\ active' = on
    /\ width' = [o \in Output |->
                    IF o \in on THEN ClampWidth(value[o]) ELSE width[o]]
    /\ sent' = [o \in Output |-> IF o \in on THEN width'[o] ELSE sent[o]]

-----------------------------------------------------------------------------
(* The core task *)

\* core_outputs_set_all: the outputs that are enabled and have a position.
CoreNormal ==
    /\ mode = "NORMAL"
    /\ \E rc \in [Output -> Positions], on \in SUBSET enabled :
          SetValues([o \in Output |-> OutputRcToRaw(calib[o], rc[o])], on)
    /\ UNCHANGED <<mode, enabled, calib, out_no, raw, comm_pc, packet, commands>>

\* Without the last branch the output never settles.
MutantNextWidth(prev) ==
    LET diff == Int16(raw - prev)
    IN  IF diff > 0 THEN Int16(prev + MAX_CALIB_DIFF)
        ELSE Int16(prev - MAX_CALIB_DIFF)

\* diff and new_value are rc_value_t.
NextWidth(prev) ==
    LET diff == Int16(raw - prev)
    IN  IF diff > MAX_CALIB_DIFF THEN Int16(prev + MAX_CALIB_DIFF)
        ELSE IF diff < -MAX_CALIB_DIFF THEN Int16(prev - MAX_CALIB_DIFF)
        ELSE Int16(prev + diff)

CoreOutputCalib ==
    /\ mode = "OUTPUT_CALIB"
    /\ SetValues([o \in Output |->
                     IF o = out_no THEN NextWidth(width[o]) ELSE 0],
                 enabled \cap {out_no})
    /\ UNCHANGED <<mode, enabled, calib, out_no, raw, comm_pc, packet, commands>>

-----------------------------------------------------------------------------
(* The communication task *)

Receive ==
    /\ comm_pc = "idle" /\ commands < MaxCommands
    /\ commands' = commands + 1

SetMode ==
    /\ Receive
    /\ mode' \in {"NORMAL", "OUTPUT_CALIB"}
    /\ UNCHANGED <<enabled, calib, out_no, raw, pulses, comm_pc, packet>>

\* set_output_active_bm, which the core task sees in its next copy.
SetActiveBm ==
    /\ Receive
    /\ enabled' \in SUBSET Output
    /\ UNCHANGED <<mode, calib, out_no, raw, pulses, comm_pc, packet>>

\* set_output_calib_value, under the mutex of the configuration: the packet
\* holds the calibrations of some outputs in a row.
SetOutputCalib ==
    /\ Receive
    /\ \E first \in Output, last \in Output, new \in [Output -> OutputCalibs] :
          calib' = [o \in Output |->
                       IF o \in first..last THEN new[o] ELSE calib[o]]
    /\ UNCHANGED <<mode, enabled, out_no, raw, pulses, comm_pc, packet>>

\* set_output_calib_raw: the output, then its raw value.
SetOutNo ==
    /\ Receive
    /\ \E o \in Output, v \in RawValues :
          /\ out_no' = o
          /\ packet' = v
    /\ comm_pc' = "raw"
    /\ UNCHANGED <<mode, enabled, calib, raw, pulses>>

SetRaw ==
    /\ comm_pc = "raw"
    /\ raw' = packet
    /\ comm_pc' = "idle"
    /\ UNCHANGED <<mode, enabled, calib, out_no, pulses, packet, commands>>

-----------------------------------------------------------------------------
CalibInit ==
    /\ mode = "NORMAL"
    /\ enabled = {}
    /\ calib = [o \in Output |-> DefaultCalib]
    /\ out_no = NoOutput /\ raw = 0
    /\ width = [o \in Output |-> DEFAULT_OUTPUT_RAW_VALUE]
    /\ sent = width
    /\ active = {}
    /\ comm_pc = "idle" /\ packet = 0 /\ commands = 0

CalibNext == \/ CoreNormal \/ CoreOutputCalib
             \/ SetMode \/ SetActiveBm \/ SetOutputCalib \/ SetOutNo \/ SetRaw

\* The core task runs every period, a handler that began ends.
CalibSpec ==
    /\ CalibInit /\ [][CalibNext]_calibVars
    /\ WF_calibVars(CoreOutputCalib) /\ WF_calibVars(SetRaw)

-----------------------------------------------------------------------------
(* Properties *)

\* Widths stay within the bounds of servo_out_bb.c:379-386 whatever the host
\* asks for and however diff wraps.
CalibTypeOK ==
    /\ mode \in {"NORMAL", "OUTPUT_CALIB"}
    /\ enabled \subseteq Output
    /\ calib \in [Output -> OutputCalibs]
    /\ out_no \in Output \cup {NoOutput}
    /\ raw \in Raw /\ packet \in Raw
    /\ width \in [Output -> Width] /\ sent \in [Output -> Width]
    /\ active \subseteq Output
    /\ comm_pc \in {"idle", "raw"}
    /\ commands \in 0..MaxCommands

Pulse(o, rc) == ClampWidth(OutputRcToRaw(calib[o], rc))

\* calibration.c:83: with every legal calibration the host stores, a larger
\* angle never gives a shorter pulse, or a longer one if the servo is mounted
\* the other way round, and no angle leaves the limits of the servo.
PulsesFollowAngles ==
    \A o \in Output, rc1 \in Positions, rc2 \in Positions :
        Legal(calib[o]) /\ rc1 <= rc2 =>
            /\ Pulse(o, rc1) \in ClampWidth(calib[o].min)..ClampWidth(calib[o].max)
            /\ IF calib[o].angle_180 >= 0 THEN Pulse(o, rc1) <= Pulse(o, rc2)
               ELSE Pulse(o, rc2) <= Pulse(o, rc1)

\* calibration.c:176: an output being calibrated starts from the last pulse it
\* got, in whatever mode and however long ago, and moves slowly from there.
PulsesMoveSlowly ==
    [][CoreOutputCalib =>
          \A o \in active' :
              Distance(width'[o], sent[o]) <= MAX_CALIB_DIFF]_calibVars

\* An enabled output the host calibrates arrives at the width asked for, as
\* near as the bounds allow, and stays there.
CalibratedOutputArrives ==
    \A o \in Output, v \in RawValues :
        <>[](/\ mode = "OUTPUT_CALIB" /\ o \in enabled
             /\ comm_pc = "idle" /\ out_no = o /\ raw = v)
            => <>[](width[o] = ClampWidth(v))
=============================================================================
