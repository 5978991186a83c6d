----------------------------- MODULE MCHubConns -----------------------------
(* HubConns on small instances.                                            *)
EXTENDS HubConns, TLC

(* Greenlets, fds and the connections other than index 0 are               *)
(* interchangeable.                                                        *)
Symmetry ==
  Permutations(Greenlets) \cup Permutations(Fds) \cup Permutations(Conns \ {Conn0})
=============================================================================
