---------------------------- MODULE MCUsbDDevice ----------------------------
(* An instance of UsbDDevice for TLC: two strings, one of them the longest *)
(* that fits, and one that is null.                                        *)
EXTENDS UsbDDevice

MCStrings == [i \in 1 .. 5 |-> CASE i = 2 -> 126 [] i = 5 -> NoString [] OTHER -> 4]
=============================================================================
