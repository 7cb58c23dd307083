----------------------------- MODULE MCServoOut -----------------------------
(* Instances of ServoOut for model checking, in the timer's own ticks.      *)
EXTENDS ServoOut

Short == 1875       \* a 1 ms pulse
Long == 3750        \* a 2 ms pulse

Set(value, active) == [value |-> value, active |-> active]

\* Four outputs in two queues: equal and different neighbours, an output
\* switched off and on again, values beyond both limits.
MixedCommands == {
    [s \in Servo |-> Set(Short, TRUE)],
    [s \in Servo |-> Set(IF s = 0 THEN Long ELSE Short, s # 1)],
    [s \in Servo |-> Set(IF s = 2 THEN 32767 ELSE -5, s \in {0, 2})]}

\* The outputs sit on different bits of port 0.
DistinctPins == [s \in Servo |-> 3 + s]

\* What the proof that frames are faithful asks of the constants.
ASSUME FramesFit ==
    /\ PinsFit
    /\ RefreshPeriod <= MAX_UINT16
    /\ PulsesFollow([s \in Servo |-> (s \div MAX_QUEUE_NB) * MaxServoPulse])
=============================================================================
