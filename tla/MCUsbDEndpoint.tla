--------------------------- MODULE MCUsbDEndpoint ---------------------------
(* Instances of UsbDEndpoint for TLC.                                      *)
EXTENDS UsbDEndpoint
=============================================================================
