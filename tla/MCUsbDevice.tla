----------------------------- MODULE MCUsbDevice ------------------------------
(* The host may make every request the board knows, and one it does not.      *)
EXTENDS UsbDevice

MCRequests == (Reads \cup NoData \cup Unsupported) \ {"set_address"}
===============================================================================
