----------------------------- MODULE MCHostApi ------------------------------
(* An array of three packets, one more than the endpoint holds, written and  *)
(* read whole, in part and beyond its end.                                   *)
EXTENDS HostApi

Get(kind, nb) == [op |-> "get", kind |-> kind, nb |-> nb]
Set(kind, nb) == [op |-> "set", kind |-> kind, nb |-> nb]

MCCalls == {Set("conf", 3), Set("conf", 6), Set("active", 1),
            Get("conf", 2), Get("conf", 5), Get("conf", 6), Get("calib", 5),
            Get("value", 3), Get("value", 5), Get("active", 1)}

\* The calls of a program that works with the last items only now and then.
MCLegalCalls == {Set("conf", 3), Get("conf", 2), Get("conf", 3)}
=============================================================================
