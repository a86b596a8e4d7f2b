-------------------------- MODULE MCJoinableThread --------------------------
(* Instances of JoinableThread for TLC.                                    *)
EXTENDS JoinableThread
=============================================================================
