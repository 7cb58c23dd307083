----------------------------- MODULE MCRxInput ------------------------------
(* The receiver input on a small FIFO with a three-pulse PPM frame. *)
EXTENDS RxInput

MCWidths == <<{1875}, {3750}>>
MCSyncWidths == {12000}
\* Both sides of the offsets where the number of runs that miss the loss changes.
MCSilenceTimes == {0, 12476, 13036, 20625, 30000}
MCStartTimes == {46500}

\* What the proof that channels are not shifted asks of the constants.
ASSUME SignalIsPpm == SignalFits
=============================================================================
