---------------------------- MODULE MCCoopSocket ----------------------------
(* An instance of CoopSocket for TLC.                                      *)
EXTENDS CoopSocket, TLC

(* After a second close has struck, OwnFile and AnswerStored say nothing.  *)
Unstruck == ~struck

(* The places for sockets are alike, too: any that is free is as good.     *)
Symmetry == Permutations(Greenlets) \cup Permutations(Socks)
=============================================================================
