------------------------ MODULE MCCountingSemaphore ------------------------
(* Instances of CountingSemaphore for TLC.                                 *)
EXTENDS CountingSemaphore
=============================================================================
