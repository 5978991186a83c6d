----------------------------- MODULE MCHubSlots -----------------------------
(* HubSlots on small instances.                                            *)
EXTENDS HubSlots, TLC

(* Greenlets and slots are interchangeable where no liveness is checked.   *)
Symmetry == Permutations(Greenlets) \cup Permutations(Slots)
=============================================================================
