---------------------------- MODULE MCSupervisor ----------------------------
(* Supervisor on small instances: process ids are interchangeable where no *)
(* liveness is checked.                                                    *)
EXTENDS Supervisor, TLC

Symmetry == Permutations(Pids)
=============================================================================
