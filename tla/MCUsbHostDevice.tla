-------------------------- MODULE MCUsbHostDevice --------------------------
(* Instances of UsbHostDevice for TLC.                                     *)
EXTENDS UsbHostDevice

CONSTANTS x, y

InEndpoint == [dir |-> "in", id |-> 1]
OneEndpoint == {InEndpoint}

OneIn == [t \in {x} |-> InEndpoint]
SharedIn == [t \in {x, y} |-> InEndpoint]
=============================================================================
