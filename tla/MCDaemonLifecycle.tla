------------------------- MODULE MCDaemonLifecycle -------------------------
(* Instance of DaemonLifecycle for TLC. *)
EXTENDS DaemonLifecycle
=============================================================================
