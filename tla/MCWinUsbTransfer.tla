-------------------------- MODULE MCWinUsbTransfer --------------------------
(* Instances of WinUsbTransfer for TLC.                                    *)
EXTENDS WinUsbTransfer
=============================================================================
