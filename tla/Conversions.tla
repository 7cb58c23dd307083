----------------------------- MODULE Conversions ----------------------------
(***************************************************************************)
(* The conversions of calibration.c between what the board measures and    *)
(* generates, raw pulse widths, and what it computes with, fixed-point     *)
(* numbers of the same width of which RawHalf stands for 1.0.              *)
(*                                                                         *)
(* Products and quotients are computed in 32 bits, which hold them; what   *)
(* is returned or stored is cut to 16.                                     *)
(***************************************************************************)
EXTENDS Integers

CONSTANT RawHalf                        \* 2^15 on the board: int16_t

ASSUME RawAssumption == RawHalf \in Nat \ {0}

Raw == (-RawHalf)..(RawHalf - 1)

RC_VALUE_MIN == -RawHalf
RC_VALUE_MAX == RawHalf - 1

InputCalib == [min : Raw, mid : Raw, max : Raw]
OutputCalib == [min : Raw, max : Raw, angle_180 : Raw, subtrim : Raw]

Int16(x) == ((x + RawHalf) % (2 * RawHalf)) - RawHalf

\* The division of C, which rounds towards 0; b is positive.
Quotient(a, b) == IF a < 0 THEN -((-a) \div b) ELSE a \div b

\* A measure between the limits, relative to the middle: two linear functions
\* that meet there.
Ratio(calib, raw) ==
    Quotient((raw - calib.mid) * RawHalf,
             IF raw >= calib.mid THEN calib.max - calib.mid
                                 ELSE calib.mid - calib.min)

\* A bug: the largest measure is converted like the others.
MutantInputRawToRc(calib, raw) ==
    IF raw <= calib.min THEN RC_VALUE_MIN
    ELSE IF raw > calib.max THEN RC_VALUE_MAX
    ELSE Int16(Ratio(calib, raw))

\* input_calib_raw_to_rc
InputRawToRc(calib, raw) ==
    IF raw <= calib.min THEN RC_VALUE_MIN
    ELSE IF raw >= calib.max THEN RC_VALUE_MAX
    ELSE Int16(Ratio(calib, raw))

\* A bug: the product without its casts to 32 bits.
MutantCentred(calib, rc) ==
    Int16(Int16(Quotient(Int16(rc * calib.angle_180), RawHalf)) + calib.subtrim)

\* The angle of a servo as a pulse around its middle.
Centred(calib, rc) ==
    Int16(Int16(Quotient(rc * calib.angle_180, RawHalf)) + calib.subtrim)

\* output_calib_rc_to_raw: the same within the limits of the servo.
OutputRcToRaw(calib, rc) ==
    LET raw == Centred(calib, rc)
    IN  IF raw <= calib.min THEN calib.min
        ELSE IF raw >= calib.max THEN calib.max
        ELSE raw

Size(x) == IF x < 0 THEN -x ELSE x

\* An output calibration with its limits in order, whose widths fit.
Legal(calib) ==
    /\ calib.min <= calib.max
    /\ Size(calib.angle_180) + Size(calib.subtrim) < RawHalf
=============================================================================
