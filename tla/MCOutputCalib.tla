--------------------------- MODULE MCOutputCalib ----------------------------
(* Two servos, calibrated with the limits inside those of the driver, the    *)
(* other way round, and so wide that the middle wraps; widths within, at and *)
(* beyond the bounds.                                                        *)
EXTENDS OutputCalib

MCRawValues == {-4, 9, 14}
MCPositions == {-32, -9, 13}
MCDefaultCalib == [min |-> 4, max |-> 10, angle_180 |-> 5, subtrim |-> 7]
MCOutputCalibs ==
    {MCDefaultCalib,
     [min |-> 1, max |-> 11, angle_180 |-> -9, subtrim |-> 6],
     [min |-> -2, max |-> 14, angle_180 |-> 31, subtrim |-> 20]}
=============================================================================
