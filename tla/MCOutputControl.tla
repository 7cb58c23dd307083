-------------------------- MODULE MCOutputControl ---------------------------
(* Two outputs, the second of which has a speed limit; two frames that move  *)
(* them in opposite directions, one of them at once.                         *)
EXTENDS OutputControl

MCMaxSpeed == [o \in Output |-> IF o = 1 THEN 2 ELSE 0]
Move(d, bm, p0, p1) ==
    [duration |-> d, active_bm |-> bm,
     position |-> [o \in Output |-> IF o = 0 THEN p0 ELSE p1]]
MCFrames == {Move(5, {0, 1}, 15, -15), Move(0, {1}, 0, 7)}
MCGoalPackets == {[o \in Output |-> 5 + o], [o \in {1} |-> -7]}
MCControlMasks == {{}, {0, 1}}
MCNoGoals == {}

\* What the proof that frames stay on course asks of the constants.
ASSUME FramesFit == CourseFits
=============================================================================
