---------------------------- MODULE FrameMailbox ----------------------------
(***************************************************************************)
(* What the servo output module promises its two users, with no memory in  *)
(* it.  A frame is a non-empty sequence of steps; the timer interrupt      *)
(* plays the steps of the current frame one after the other, for ever.     *)
(* The core task may post one frame: it replaces the current one when the  *)
(* current one has been played to its end, never in the middle of it.      *)
(*                                                                         *)
(* ServoOut implements this with two arrays of steps, five pointers and an *)
(* interrupt mask.                                                         *)
(***************************************************************************)
EXTENDS Sequences, FiniteSetsExt

CONSTANTS
    Step,       \* what one interrupt does: [gpio_toggle, time_to_next_step]
    MaxLen,     \* longest frame a step array has room for
    NoFrame     \* no frame is posted

VARIABLES
    frame,      \* the frame being played
    at,         \* number of the step the next interrupt plays
    posted,     \* the frame to switch to, or NoFrame
    pins,       \* GPIO pins that are high
    rc          \* timer register: ticks until the next interrupt

vars == <<frame, at, posted, pins, rc>>

IsFrame(f) == f \in Seq(Step) /\ Len(f) \in 1..MaxLen

Init ==
    /\ IsFrame(frame)
    /\ at = 1
    /\ posted = NoFrame
    /\ pins = {}
    /\ rc \in Nat

Emit(step) ==
    /\ pins' = SymDiff(pins, step.gpio_toggle)
    /\ rc' = step.time_to_next_step

\* An interrupt inside a frame.
Play ==
    /\ at < Len(frame)
    /\ Emit(frame[at])
    /\ at' = at + 1
    /\ UNCHANGED <<frame, posted>>

\* The interrupt that plays the last step of a frame also picks the next one.
PlayLast ==
    /\ at = Len(frame)
    /\ Emit(frame[at])
    /\ at' = 1
    /\ frame' = IF posted = NoFrame THEN frame ELSE posted
    /\ posted' = NoFrame

\* A frame is accepted only when none is waiting.
Post ==
    /\ posted = NoFrame
    /\ IsFrame(posted)'
    /\ UNCHANGED <<frame, at, pins, rc>>

Next == Play \/ PlayLast \/ Post

Spec == Init /\ [][Next]_vars
=============================================================================
