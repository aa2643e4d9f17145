------------------------------- MODULE MCDaemon -------------------------------
(***************************************************************************)
(* Small instances of Daemon: a short and a longer interval.               *)
(***************************************************************************)
EXTENDS Daemon

TwoLoops == {"squeue", "reconcile"}

Intervals == [squeue |-> 1, reconcile |-> 3]
===============================================================================
