------------------------------ MODULE Workforce ------------------------------
(***************************************************************************)
(* What the pre-fork mode of theframework promises of its workers,         *)
(* whatever processes, pids and signals are behind it (_serve_prefork and  *)
(* _supervisor_loop in src/theframework/server.py).                        *)
(*                                                                         *)
(* A worker is run by one process at a time, and by no more once it has    *)
(* used up its crashes.  One that falls is replaced before the next is     *)
(* buried.  Once a stop is asked for at most one more worker is started,   *)
(* the one that was about to be; and a parent that ends of itself leaves   *)
(* nobody behind, after a stop or with all of the crashes used up.         *)
(* Supervisor implements this specification.                               *)
(***************************************************************************)
EXTENDS Naturals

CONSTANTS
  Workers,    \* the workers to keep running
  MaxCrashes  \* the crashes of a worker after which it is given up

VARIABLES
  crew,     \* of each worker: "up", "down" if it has died and nobody knows, or "out"
  strikes,  \* the crashes counted against each
  hiring,   \* who may still be started: anybody ("open"), "one", or nobody ("closed")
  parent    \* "starting", "working", "ended" of itself, or "lost"

crewVars == <<crew, strikes, hiring, parent>>

Init ==
  /\ crew = [w \in Workers |-> "out"]
  /\ strikes = [w \in Workers |-> 0]
  /\ hiring = "open"
  /\ parent = "starting"

Out == {w \in Workers : crew[w] = "out"}
GivenUp == {w \in Workers : strikes[w] = MaxCrashes}

Starts(w) ==
  /\ crew[w] = "out"
  /\ w \notin GivenUp
  /\ hiring # "closed" /\ parent \in {"starting", "working"}
  /\ crew' = [crew EXCEPT ![w] = "up"]
  /\ hiring' = IF hiring = "one" THEN "closed" ELSE hiring
  /\ UNCHANGED <<strikes, parent>>

(* By itself or by a signal.                                               *)
Falls(w) ==
  /\ crew[w] = "up"
  /\ crew' = [crew EXCEPT ![w] = "down"]
  /\ UNCHANGED <<strikes, hiring, parent>>

(* The parent learns of the death, and counts it: once it has found        *)
(* somebody for everyone who fell before.                                  *)
IsBuried(w) ==
  /\ crew[w] = "down"
  /\ parent = "working" /\ hiring = "open" /\ Out \subseteq GivenUp
  /\ crew' = [crew EXCEPT ![w] = "out"]
  /\ \E n \in 1..strikes[w] + 1 : strikes' = [strikes EXCEPT ![w] = n]
  /\ UNCHANGED <<hiring, parent>>

(* It is stopped, or was dead already.                                     *)
IsStopped(w) ==
  /\ crew[w] # "out"
  /\ hiring = "closed" /\ parent \in {"starting", "working"}
  /\ crew' = [crew EXCEPT ![w] = "out"]
  /\ UNCHANGED <<strikes, hiring, parent>>

(* Every worker has been started once.                                     *)
Opens ==
  /\ parent = "starting" /\ hiring = "open"
  /\ Out = {}
  /\ parent' = "working"
  /\ UNCHANGED <<crew, strikes, hiring>>

(* Only one who is about to be replaced already is let in after that.      *)
Closes ==
  /\ hiring = "open" /\ parent \in {"starting", "working"}
  /\ hiring' \in {"one", "closed"}
  /\ hiring' = "one" => parent = "working" /\ Out \ GivenUp # {}
  /\ UNCHANGED <<crew, strikes, parent>>

Ends ==
  /\ parent = "working"
  /\ Out = Workers
  /\ hiring = "open" => GivenUp = Workers
  /\ hiring' = "closed" /\ parent' = "ended"
  /\ UNCHANGED <<crew, strikes>>

(* By a signal before it handles them, or because it cannot fork.          *)
IsLost ==
  /\ parent \in {"starting", "working"}
  /\ parent = "working" => hiring # "closed" /\ Out \ GivenUp # {}
  /\ hiring' = "closed" /\ parent' = "lost"
  /\ UNCHANGED <<crew, strikes>>

Next ==
  \/ \E w \in Workers : Starts(w) \/ Falls(w) \/ IsBuried(w) \/ IsStopped(w)
  \/ Opens \/ Closes \/ Ends \/ IsLost

Spec == Init /\ [][Next]_crewVars
===============================================================================
