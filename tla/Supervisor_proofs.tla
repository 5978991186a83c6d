------------------------- MODULE Supervisor_proofs -------------------------
(***************************************************************************)
(* Proofs about Supervisor for any number of workers, pids, deaths and     *)
(* crashes: the parent signals its own children only, runs no worker       *)
(* twice, forgets none, and leaves none behind when its loop has ended.    *)
(***************************************************************************)
EXTENDS Supervisor, TLAPS

(* The parent starts with no process and no signal handler of its own.     *)
LEMMA InitInv == Init => SupervisorInv
<1> SUFFICES ASSUME Init PROVE SupervisorInv
  OBVIOUS
<1>1. 0 \in Workers /\ 0 \in 0..NumWorkers /\ 0 \in 0..MaxDeaths /\ 0 \in 0..MaxCrashes
  BY SupervisorAssumption DEF Workers
<1>2. SupervisorTypeOK
  BY <1>1 DEF Init, SupervisorTypeOK, PCs, InLoop, Ended, ProcStates, Alive
<1>3. KillsOnlyOwn /\ WorkersAccounted
  BY DEF Init, KillsOnlyOwn, WorkersAccounted, InLoop
<1>4. NewChild /\ Tracked /\ Starting /\ Replacing /\ CrashesLeft /\ Position
  BY <1>1, SupervisorAssumption
     DEF Init, NewChild, Tracked, Starting, Replacing, CrashesLeft, Position, Recording, Exists,
         InLoop, Workers
<1> QED BY <1>2, <1>3, <1>4 DEF SupervisorInv

(* Forking: the new process is the only one of its worker.                 *)
LEMMA ForkInv ==
  ASSUME SupervisorInv, NEW p \in Pids, Fork(p) \/ Respawn(p)
  PROVE  SupervisorInv'
<1>1. /\ proc[p].state = "none" /\ pid' = p /\ cur \in Workers
      /\ UNCHANGED <<handlers, shuttingDown, children, cur, crashes, toSignal, deaths>>
      /\ \/ pc = "fork" /\ pc' = "record"
         \/ pc = "respawn" /\ pc' = "recordRespawn"
  BY SupervisorAssumption
     DEF Fork, Respawn, ForksInto, SupervisorInv, SupervisorTypeOK, Position, Workers
<1>2. /\ proc'[p].state \in {"fresh", "deaf"} /\ proc'[p].worker = cur
      /\ \A q \in Pids : q # p => proc'[q] = proc[q]
      /\ proc' \in [Pids -> [state : ProcStates, worker : Workers]]
  BY <1>1 DEF Fork, Respawn, ForksInto, SupervisorInv, SupervisorTypeOK, ProcStates, Alive
<1>3. SupervisorTypeOK'
  BY <1>1, <1>2 DEF SupervisorInv, SupervisorTypeOK, PCs, InLoop
<1>4. p \notin children
  BY <1>1 DEF SupervisorInv, KillsOnlyOwn
<1>5. \A q \in Pids : Exists(q) => proc[q].worker # cur /\ q \in children
  BY <1>1 DEF SupervisorInv, SupervisorTypeOK, Tracked, Starting, Replacing, Position,
              InLoop, Recording, Workers
<1>6. KillsOnlyOwn' /\ NewChild' /\ Tracked' /\ Replacing' /\ Position'
  BY <1>1, <1>2, <1>4, <1>5 DEF SupervisorInv, SupervisorTypeOK, KillsOnlyOwn, NewChild,
              Tracked, Replacing, Position, Recording, Exists, InLoop
<1>7. Starting' /\ CrashesLeft'
  BY <1>1, <1>2, <1>4 DEF SupervisorInv, SupervisorTypeOK, Starting, Replacing, CrashesLeft, Exists
<1>8. WorkersAccounted'
  BY <1>1, <1>2, <1>4, <1>5 DEF SupervisorInv, SupervisorTypeOK, WorkersAccounted, Exists, InLoop
<1> QED BY <1>3, <1>6, <1>7, <1>8 DEF SupervisorInv

(* Recording the new child.                                                *)
LEMMA RecordInv ==
  ASSUME SupervisorInv, RecordFork \/ RecordRespawn
  PROVE  SupervisorInv'
<1>1. /\ children' = children \cup {pid} /\ pid \in Pids /\ Exists(pid)
      /\ proc[pid].worker = cur /\ cur \in Workers
      /\ UNCHANGED <<handlers, shuttingDown, proc, pid, crashes, toSignal, deaths>>
      /\ \/ pc = "record" /\ pc' = "fork" /\ cur' = cur + 1
         \/ pc = "recordRespawn" /\ pc' = "reap" /\ cur' = cur
  BY DEF RecordFork, RecordRespawn, Record, SupervisorInv, SupervisorTypeOK, NewChild,
         Position, Recording
<1>2. cur \in Nat /\ cur + 1 \in 0..NumWorkers /\ cur \in 0..NumWorkers
  BY <1>1, SupervisorAssumption DEF Workers
<1>3. SupervisorTypeOK'
  BY <1>1, <1>2 DEF SupervisorInv, SupervisorTypeOK, PCs, InLoop
<1>4. KillsOnlyOwn' /\ NewChild' /\ Tracked' /\ Replacing' /\ CrashesLeft' /\ Position'
  BY <1>1 DEF SupervisorInv, KillsOnlyOwn, NewChild, Tracked, Replacing, CrashesLeft, Position,
              Recording, Exists, InLoop
<1>5. Starting'
  <2>1. SUFFICES ASSUME pc = "record", pc' = "fork", cur' = cur + 1 PROVE Starting'
    BY <1>1 DEF Starting
  <2>2. \A q \in children' : proc[q].worker < cur + 1
    BY <1>1, <1>2, <2>1, SupervisorAssumption
       DEF SupervisorInv, SupervisorTypeOK, Starting, Workers
  <2>3. \A w \in Workers : w < cur + 1 => w < cur \/ w = cur
    BY <1>2, SupervisorAssumption DEF Workers
  <2>4. \A w \in Workers : w < cur + 1 => \E q \in children' : proc[q].worker = w
    BY <1>1, <2>1, <2>3 DEF SupervisorInv, Starting
  <2> QED BY <1>1, <2>1, <2>2, <2>4 DEF SupervisorInv, Starting
<1>6. WorkersAccounted'
  BY <1>1 DEF SupervisorInv, SupervisorTypeOK, WorkersAccounted, InLoop
<1> QED BY <1>3, <1>4, <1>5, <1>6 DEF SupervisorInv

(* Steps that only move the parent on.                                     *)
LEMMA MoveInv ==
  ASSUME SupervisorInv,
         \/ ForkFails \/ EnterLoop \/ Select \/ NothingToReap
         \/ LeaveLoop \/ AllTerminated \/ Deadline \/ AllStopped
         \/ AskStop \/ EarlySignal
  PROVE  SupervisorInv'
<1>1. UNCHANGED <<children, proc, cur, pid, crashes, deaths>>
  BY DEF ForkFails, EnterLoop, Select, NothingToReap, LeaveLoop, AllTerminated, Deadline,
         AllStopped, AskStop, EarlySignal
<1>2. /\ SupervisorTypeOK' /\ KillsOnlyOwn' /\ CrashesLeft'
      /\ handlers' = "default" => handlers = "default"
  BY <1>1 DEF ForkFails, EnterLoop, Select, NothingToReap, LeaveLoop, AllTerminated, Deadline,
         AllStopped, AskStop, EarlySignal, SupervisorInv, SupervisorTypeOK, KillsOnlyOwn,
         CrashesLeft, Exists, PCs, InLoop, Ended
<1>3. CASE EnterLoop
  <2>1. /\ pc = "fork" /\ pc' = "select" /\ cur = NumWorkers
        /\ UNCHANGED <<shuttingDown, toSignal>>
    BY <1>3 DEF EnterLoop
  <2>2. \A w \in Workers : w < cur
    BY <2>1, SupervisorAssumption DEF Workers
  <2>3. NewChild' /\ Tracked' /\ Starting' /\ Replacing' /\ Position'
    BY <1>1, <1>3, <2>1 DEF EnterLoop, SupervisorInv, NewChild, Tracked, Starting, Replacing,
       Position, Recording, Exists, InLoop
  <2>4. WorkersAccounted'
    BY <1>1, <2>1, <2>2 DEF SupervisorInv, WorkersAccounted, Starting
  <2> QED BY <1>2, <2>3, <2>4 DEF SupervisorInv
<1>4. CASE ~EnterLoop
  <2>1. /\ handlers' = handlers /\ (shuttingDown => shuttingDown')
        /\ pc' \in {"fork", "record"} => pc' = pc
        /\ pc' \in InLoop => pc \in InLoop /\ (pc' # pc => pc \in {"select", "reap"})
        /\ pc' = "respawn" => pc = "respawn"
        /\ pc' = "recordRespawn" => pc = "recordRespawn"
        /\ pc = "recordRespawn" => pc' = pc
        /\ pc = "record" /\ pc' # pc => handlers = "default"
        /\ pc' = "exited" /\ pc # "exited" => children = {}
    BY <1>4 DEF ForkFails, Select, NothingToReap, LeaveLoop, AllTerminated, Deadline,
         AllStopped, AskStop, EarlySignal, InLoop, Ended, SupervisorInv, Starting, Position
  <2>2. NewChild' /\ Replacing' /\ Starting'
    BY <1>1, <2>1 DEF SupervisorInv, NewChild, Starting, Replacing, Recording, Exists
  <2>3. Tracked' /\ Position'
    BY <1>1, <2>1 DEF SupervisorInv, Tracked, Position, Recording, Exists, InLoop, Starting
  <2>4. WorkersAccounted'
    BY <1>1, <2>1 DEF SupervisorInv, WorkersAccounted, InLoop
  <2> QED BY <1>2, <2>2, <2>3, <2>4 DEF SupervisorInv
<1> QED BY <1>3, <1>4

(* Children that start, die or are sent a SIGTERM keep their pid.          *)
LEMMA ChildInv ==
  ASSUME SupervisorInv, NEW p \in Pids, Starts(p) \/ Dies(p) \/ Terminate(p)
  PROVE  SupervisorInv'
<1>1. /\ UNCHANGED <<pc, handlers, shuttingDown, children, cur, pid, crashes>>
      /\ toSignal' \subseteq toSignal /\ deaths' \in 0..MaxDeaths
      /\ \/ proc' = proc
         \/ /\ Exists(p)
            /\ \E state \in {"serving", "zombie"} : proc' = [proc EXCEPT ![p].state = state]
  BY SupervisorAssumption
     DEF Starts, Dies, Terminate, Ends, Exists, Alive, SupervisorInv, SupervisorTypeOK
<1>2. /\ proc' \in [Pids -> [state : ProcStates, worker : Workers]]
      /\ \A q \in Pids : proc'[q].worker = proc[q].worker /\ (Exists(q)' <=> Exists(q))
  <2>1. CASE proc' = proc
    BY <2>1 DEF SupervisorInv, SupervisorTypeOK, Exists
  <2>2. CASE \E state \in {"serving", "zombie"} :
               Exists(p) /\ proc' = [proc EXCEPT ![p].state = state]
    BY <2>2 DEF SupervisorInv, SupervisorTypeOK, Exists, ProcStates, Alive
  <2> QED BY <1>1, <2>1, <2>2
<1>3. SupervisorTypeOK'
  BY <1>1, <1>2 DEF SupervisorInv, SupervisorTypeOK
<1>4. \A q \in children : q \in Pids
  BY DEF SupervisorInv, SupervisorTypeOK
<1>5. KillsOnlyOwn'
  BY <1>1, <1>2, <1>4 DEF SupervisorInv, KillsOnlyOwn, Exists
<1>6. NewChild' /\ Tracked'
  BY <1>1, <1>2 DEF SupervisorInv, SupervisorTypeOK, NewChild, Tracked, Recording
<1>7. Starting' /\ Replacing' /\ CrashesLeft' /\ Position'
  BY <1>1, <1>2, <1>4 DEF SupervisorInv, Starting, Replacing, CrashesLeft, Position, Recording
<1>8. WorkersAccounted'
  BY <1>1, <1>2, <1>4 DEF SupervisorInv, WorkersAccounted, Exists
<1> QED BY <1>3, <1>5, <1>6, <1>7, <1>8 DEF SupervisorInv

(* A child that was waited for is gone from the process table and from     *)
(* `children` at once.                                                     *)
LEMMA ReapInv ==
  ASSUME SupervisorInv, NEW p \in Pids,
         ReapStopping(p) \/ ReapCrashed(p) \/ WaitReap(p) \/ Kill(p)
  PROVE  SupervisorInv'
<1>1. /\ proc' = Waited(p) /\ children' = children \ {p}
      /\ UNCHANGED <<handlers, shuttingDown, pid, toSignal, deaths>>
      /\ pc \in {"reap", "wait", "kill"} /\ pc' \in {pc, "respawn"}
      /\ pc' = "respawn" => pc = "reap"
      /\ Exists(p) \/ p \in children
  BY DEF ReapStopping, ReapCrashed, Reap, WaitReap, Kill, Zombies, Exists
<1>2. /\ ~Exists(p)' /\ \A q \in Pids : proc'[q].worker = proc[q].worker
      /\ \A q \in Pids : q # p => (Exists(q)' <=> Exists(q))
      /\ proc' \in [Pids -> [state : ProcStates, worker : Workers]]
  BY <1>1 DEF SupervisorInv, SupervisorTypeOK, Waited, Exists, ProcStates
<1>3. /\ Exists(p) /\ proc[p].worker \in Workers
      /\ \A q \in Pids : q # p /\ Exists(q) => proc[q].worker # proc[p].worker
  BY <1>1 DEF SupervisorInv, SupervisorTypeOK, KillsOnlyOwn, WorkersAccounted, Exists
<1>4. \A q \in children' : q \in Pids /\ q # p
  BY <1>1 DEF SupervisorInv, SupervisorTypeOK
<1>5. KillsOnlyOwn'
  BY <1>1, <1>2, <1>4 DEF SupervisorInv, KillsOnlyOwn, Exists
<1>6. CASE UNCHANGED <<pc, cur, crashes>> /\ (shuttingDown \/ pc \notin InLoop)
  <2>1. SupervisorTypeOK'
    BY <1>1, <1>2, <1>6 DEF SupervisorInv, SupervisorTypeOK
  <2>2. NewChild' /\ Tracked' /\ Starting' /\ Replacing' /\ CrashesLeft' /\ Position'
    BY <1>1, <1>2, <1>4, <1>6 DEF SupervisorInv, NewChild, Tracked, Starting,
       Replacing, CrashesLeft, Position, Recording, Exists
  <2>3. WorkersAccounted'
    BY <1>1, <1>2, <1>6 DEF SupervisorInv, WorkersAccounted, Exists
  <2> QED BY <1>5, <2>1, <2>2, <2>3 DEF SupervisorInv
<1>7. CASE ReapCrashed(p)
  <2>1. PICK w \in Workers : w = proc[p].worker
    BY <1>3
  <2>2. PICK n \in Counted(w) :
          /\ crashes' = [crashes EXCEPT ![w] = n]
          /\ IF CrashLoops(n) THEN UNCHANGED <<pc, cur>>
             ELSE pc' = "respawn" /\ cur' = w
    BY <1>7, <2>1 DEF ReapCrashed
  <2>3. pc = "reap" /\ ~shuttingDown
    BY <1>7 DEF ReapCrashed, Reap
  <2>4. n \in 1..MaxCrashes
    <3>1. crashes[w] \in 0..MaxCrashes /\ crashes[w] < MaxCrashes
      BY <1>3, <2>1 DEF SupervisorInv, SupervisorTypeOK, CrashesLeft
    <3> QED BY <3>1, SupervisorAssumption DEF Counted
  <2>5. /\ crashes' \in [Workers -> 0..MaxCrashes] /\ crashes'[w] = n
        /\ \A v \in Workers : v # w => crashes'[v] = crashes[v]
    BY <2>2, <2>4, SupervisorAssumption DEF SupervisorInv, SupervisorTypeOK
  <2>6. \/ n = MaxCrashes /\ UNCHANGED <<pc, cur>>
        \/ n < MaxCrashes /\ pc' = "respawn" /\ cur' = w
    BY <2>2, <2>4, SupervisorAssumption DEF CrashLoops
  <2>7. \A q \in Pids : Exists(q)' => Exists(q) /\ proc'[q].worker # w
    BY <1>2, <1>3, <2>1
  <2>8. SupervisorTypeOK'
    <3>1. cur' \in 0..NumWorkers
      BY <2>6, SupervisorAssumption DEF SupervisorInv, SupervisorTypeOK, Workers
    <3>2. pc' \in PCs
      BY <2>3, <2>6 DEF PCs, InLoop
    <3> QED BY <1>1, <1>2, <2>5, <3>1, <3>2 DEF SupervisorInv, SupervisorTypeOK
  <2>9. NewChild' /\ Tracked' /\ Starting' /\ Position'
    BY <1>1, <1>2, <1>4, <2>3, <2>6 DEF SupervisorInv, NewChild, Tracked, Starting,
       Position, Recording, Exists, InLoop
  <2>10. \A q \in Pids : proc[q].worker \in Workers
    BY DEF SupervisorInv, SupervisorTypeOK
  <2>11. Replacing' /\ CrashesLeft'
    BY <1>2, <2>3, <2>5, <2>6, <2>7, <2>10 DEF SupervisorInv, Replacing, CrashesLeft
  <2>12. WorkersAccounted'
    <3>1. \A q, r \in Pids : Exists(q)' /\ Exists(r)' /\ q # r => proc'[q].worker # proc'[r].worker
      BY <1>2, <2>7 DEF SupervisorInv, WorkersAccounted, Exists
    <3>2. ASSUME NEW v \in Workers
          PROVE  \/ \E q \in children' : proc'[q].worker = v
                 \/ pc' = "respawn" /\ cur' = v
                 \/ crashes'[v] = MaxCrashes
      <4>1. CASE v = w
        BY <2>5, <2>6, <4>1
      <4>2. CASE v # w
        <5>1. \/ \E q \in children : proc[q].worker = v
              \/ crashes[v] = MaxCrashes
          BY <2>3 DEF SupervisorInv, WorkersAccounted, InLoop
        <5> QED BY <1>1, <1>2, <1>4, <2>1, <2>5, <4>2, <5>1 DEF SupervisorInv, SupervisorTypeOK
      <4> QED BY <4>1, <4>2
    <3> QED BY <3>1, <3>2 DEF WorkersAccounted, Exists
  <2> QED BY <1>5, <2>8, <2>9, <2>11, <2>12 DEF SupervisorInv
<1> QED BY <1>6, <1>7 DEF ReapStopping, ReapCrashed, Reap, WaitReap, Kill, InLoop

(* Every step of the parent, of a child and every signal keeps it.         *)
LEMMA NextInv == SupervisorInv /\ [Next]_vars => SupervisorInv'
<1> SUFFICES ASSUME SupervisorInv, [Next]_vars PROVE SupervisorInv'
  OBVIOUS
<1>1. CASE Next
  BY <1>1, ForkInv, RecordInv, MoveInv, ChildInv, ReapInv DEF Next, ParentStep
<1>2. CASE UNCHANGED vars
  BY <1>2 DEF vars, SupervisorInv, SupervisorTypeOK, KillsOnlyOwn, NewChild, Tracked, Starting,
     Replacing, CrashesLeft, Position, WorkersAccounted, Exists, Recording
<1> QED BY <1>1, <1>2

(* The parent keeps SupervisorInv for any number of workers and pids.      *)
THEOREM SupervisorInvariant == Spec => []SupervisorInv
<1>1. Init => SupervisorInv
  BY InitInv
<1>2. SupervisorInv /\ [Next]_vars => SupervisorInv'
  BY NextInv
<1> QED BY <1>1, <1>2, PTL DEF Spec

(* Types are kept; a crash history never outgrows the limit.               *)
THEOREM SupervisorTypes == Spec => []SupervisorTypeOK
<1>1. SupervisorInv => SupervisorTypeOK
  BY DEF SupervisorInv
<1> QED BY <1>1, SupervisorInvariant, PTL

(* No pid is signalled or waited for after it was reaped.                  *)
THEOREM SignalsOwnChildren == Spec => []KillsOnlyOwn
<1>1. SupervisorInv => KillsOnlyOwn
  BY DEF SupervisorInv
<1> QED BY <1>1, SupervisorInvariant, PTL

(* Each worker has at most one process, and a known one or a reason for    *)
(* having none.                                                            *)
THEOREM EveryWorkerAccounted == Spec => []WorkersAccounted
<1>1. SupervisorInv => WorkersAccounted
  BY DEF SupervisorInv
<1> QED BY <1>1, SupervisorInvariant, PTL

(* A supervisor loop that has ended leaves no worker process.              *)
THEOREM LeavesNoOrphans == Spec => []NoOrphans
<1>1. SupervisorInv => NoOrphans
  BY DEF SupervisorInv, Tracked, Position, NoOrphans, Recording, Exists, Alive
<1> QED BY <1>1, SupervisorInvariant, PTL

-----------------------------------------------------------------------------
(* The refinement: what a step does to a process is a step of Workforce,   *)
(* or none.                                                                *)

(* No stop can be asked for before the handlers are there.                 *)
Unasked == handlers = "default" => ~shuttingDown

(* That flag is only set by a handler.                                     *)
LEMMA UnaskedAlways == Spec => []Unasked
<1>1. Init => Unasked
  BY DEF Init, Unasked
<1>2. Unasked /\ [Next]_vars => Unasked'
  BY DEF Unasked, Next, vars, ParentStep, Fork, ForksInto, ReapStopping, ReapCrashed, Reap, Respawn,
     Terminate, WaitReap, Kill, RecordFork, RecordRespawn, Record, EnterLoop, Select, NothingToReap,
     LeaveLoop, AllTerminated, Deadline, AllStopped, ForkFails, AskStop, EarlySignal, Starts, Dies
<1> QED BY <1>1, <1>2, PTL DEF Spec

(* A worker, as the state of its only process has it.                      *)
Shown(state) ==
  IF state = "none" THEN "out" ELSE IF state = "zombie" THEN "down" ELSE "up"

Allowed == [W!Next]_<<Crew, crashes, Hiring, Parent>>

(* Who has a process is up or down by its state, who has none is out.      *)
CrewOK ==
  \A w \in Workers :
    /\ \A p \in Pids : Exists(p) /\ proc[p].worker = w => Crew[w] = Shown(proc[p].state)
    /\ (\A p \in Pids : Exists(p) => proc[p].worker # w) => Crew[w] = "out"

(* As each worker has one process at most, that is so.                     *)
LEMMA CrewShows == SupervisorInv => CrewOK
<1> SUFFICES ASSUME SupervisorInv, NEW w \in Workers
             PROVE  /\ \A p \in Pids : Exists(p) /\ proc[p].worker = w => Crew[w] = Shown(proc[p].state)
                    /\ (\A p \in Pids : Exists(p) => proc[p].worker # w) => Crew[w] = "out"
  BY DEF CrewOK
<1>1. ASSUME NEW p \in Pids, Exists(p), proc[p].worker = w
      PROVE  Crew[w] = Shown(proc[p].state)
  <2>1. \A q \in Pids : Exists(q) /\ proc[q].worker = w => q = p
    BY <1>1 DEF SupervisorInv, WorkersAccounted, Exists
  <2>2. proc[p].state \in ProcStates
    BY DEF SupervisorInv, SupervisorTypeOK
  <2>3. CASE proc[p].state = "zombie"
    <3>1. ~\E q \in Pids : proc[q].worker = w /\ proc[q].state \in Alive
      BY <2>1, <2>3 DEF Exists, Alive
    <3>2. \E q \in Zombies : proc[q].worker = w
      BY <1>1, <2>3 DEF Zombies
    <3> QED BY <2>3, <3>1, <3>2 DEF Crew, Shown
  <2>4. CASE proc[p].state \in Alive
    BY <1>1, <2>4 DEF Crew, Shown, Alive
  <2> QED BY <1>1, <2>2, <2>3, <2>4 DEF ProcStates, Exists
<1>2. ASSUME \A p \in Pids : Exists(p) => proc[p].worker # w
      PROVE  Crew[w] = "out"
  BY <1>2 DEF Crew, Zombies, Exists, Alive
<1> QED BY <1>1, <1>2

(* A worker is out only if it has no process.                              *)
LEMMA OutHasNone ==
  ASSUME SupervisorInv, NEW p \in Pids, Exists(p)
  PROVE  proc[p].worker \in Workers /\ Crew[proc[p].worker] # "out"
<1>1. proc[p].worker \in Workers
  BY DEF SupervisorInv, SupervisorTypeOK
<1>2. Crew[proc[p].worker] = Shown(proc[p].state)
  BY <1>1, CrewShows DEF CrewOK
<1> QED BY <1>1, <1>2 DEF Shown, Exists

(* What becomes of one process becomes of its worker, and of no other.     *)
LEMMA CrewChanges ==
  ASSUME SupervisorInv, SupervisorInv', NEW p \in Pids, NEW w \in Workers,
         \A q \in Pids \ {p} : proc'[q] = proc[q] /\ (Exists(q) => proc[q].worker # w),
         Exists(p) => proc[p].worker = w,
         Exists(p)' => proc'[p].worker = w
  PROVE  /\ Crew[w] = Shown(proc[p].state)
         /\ Crew' = [Crew EXCEPT ![w] = Shown(proc'[p].state)]
<1>0. CrewOK /\ CrewOK'
  BY CrewShows, PTL
<1>1. Crew[w] = Shown(proc[p].state)
  BY <1>0 DEF CrewOK, Shown, Exists
<1>2. Crew'[w] = Shown(proc'[p].state)
  <2>1. \A q \in Pids : Exists(q)' => q = p \/ proc'[q].worker # w
    BY DEF Exists
  <2>2. CASE Exists(p)'
    BY <1>0, <2>2 DEF CrewOK
  <2>3. CASE ~Exists(p)'
    BY <1>0, <2>1, <2>3 DEF CrewOK, Shown, Exists
  <2> QED BY <2>2, <2>3
<1>3. ASSUME NEW v \in Workers, v # w PROVE Crew'[v] = Crew[v]
  <2>1. \A q \in Pids : proc[q].state # "none" /\ proc[q].worker = v =>
          q # p /\ proc'[q] = proc[q]
    BY <1>3 DEF Exists
  <2>2. \A q \in Pids : proc'[q].state # "none" /\ proc'[q].worker = v =>
          q # p /\ proc'[q] = proc[q]
    BY <1>3 DEF Exists
  <2>3. (\E q \in Pids : proc'[q].worker = v /\ proc'[q].state \in Alive) <=>
        (\E q \in Pids : proc[q].worker = v /\ proc[q].state \in Alive)
    BY <2>1, <2>2 DEF Alive
  <2>4. (\E q \in Zombies' : proc'[q].worker = v) <=> (\E q \in Zombies : proc[q].worker = v)
    BY <2>1, <2>2 DEF Zombies
  <2> QED BY <2>3, <2>4 DEF Crew
<1>4. Crew \in [Workers -> {"up", "down", "out"}] /\ Crew' \in [Workers -> {"up", "down", "out"}]
  BY DEF Crew
<1> QED BY <1>1, <1>2, <1>3, <1>4

(* Nobody's process changes.                                               *)
LEMMA CrewStays == ASSUME proc' = proc PROVE Crew' = Crew
BY DEF Crew, Zombies

(* A parent in its loop is at work, one that stops lets nobody in.         *)
LEMMA Place ==
  ASSUME SupervisorInv, Unasked
  PROVE  /\ pc \in InLoop => Parent = "working"
         /\ pc \notin Ended => Parent \in {"starting", "working"}
         /\ pc \in {"fork", "record"} => Parent = "starting" /\ Hiring = "open"
         /\ pc \in {"term", "wait", "kill"} => Hiring = "closed"
BY DEF SupervisorInv, SupervisorTypeOK, Position, Starting, Unasked, Parent, Hiring, InLoop, Ended

(* Forking starts the worker the parent is at, which has no process.       *)
LEMMA ForkAllowed ==
  ASSUME SupervisorInv, SupervisorInv', Unasked, NEW p \in Pids, Fork(p) \/ Respawn(p)
  PROVE  W!Starts(cur)
<1>1. /\ ~Exists(p) /\ pid' = p /\ cur \in Workers
      /\ UNCHANGED <<handlers, shuttingDown, children, cur, crashes, toSignal, deaths>>
      /\ \/ pc = "fork" /\ pc' = "record"
         \/ pc = "respawn" /\ pc' = "recordRespawn"
  BY SupervisorAssumption
     DEF Fork, Respawn, ForksInto, SupervisorInv, SupervisorTypeOK, Position, Workers, Exists
<1>2. /\ proc'[p].state \in {"fresh", "deaf"} /\ proc'[p].worker = cur
      /\ \A q \in Pids \ {p} : proc'[q] = proc[q]
  BY <1>1 DEF Fork, Respawn, ForksInto, SupervisorInv, SupervisorTypeOK
<1>3. \A q \in Pids : Exists(q) => proc[q].worker # cur
  BY <1>1 DEF SupervisorInv, SupervisorTypeOK, Tracked, Starting, Replacing, Position,
              InLoop, Recording, Workers
<1>4. Crew[cur] = Shown(proc[p].state) /\ Crew' = [Crew EXCEPT ![cur] = Shown(proc'[p].state)]
  BY <1>1, <1>2, <1>3, CrewChanges
<1>5. Crew[cur] = "out" /\ Crew' = [Crew EXCEPT ![cur] = "up"]
  BY <1>1, <1>2, <1>4 DEF Shown, Exists
<1>6. cur \notin W!GivenUp
  BY <1>1, SupervisorAssumption
     DEF W!GivenUp, SupervisorInv, SupervisorTypeOK, Starting, Replacing
<1>7. Hiring # "closed" /\ Hiring' = IF Hiring = "one" THEN "closed" ELSE Hiring
  BY <1>1 DEF Hiring, Ended, SupervisorInv, Starting, Unasked
<1>8. Parent \in {"starting", "working"} /\ Parent' = Parent
  BY <1>1 DEF Parent, Ended
<1> QED BY <1>1, <1>5, <1>6, <1>7, <1>8 DEF W!Starts

(* A child falls by itself or by the SIGTERM, or it starts to serve or     *)
(* ignores the signal and is up as before.                                 *)
LEMMA ChildAllowed ==
  ASSUME SupervisorInv, SupervisorInv', NEW p \in Pids, Starts(p) \/ Dies(p) \/ Terminate(p)
  PROVE  Allowed
<1>1. UNCHANGED <<pc, handlers, shuttingDown, crashes>>
  BY DEF Starts, Dies, Terminate
<1>2. UNCHANGED <<crashes, Hiring, Parent>>
  BY <1>1 DEF Hiring, Parent
<1>3. CASE proc' = proc
  BY <1>2, <1>3, CrewStays DEF Allowed
<1>4. ASSUME NEW state \in {"serving", "zombie"}, proc[p].state \in Alive,
             proc' = [proc EXCEPT ![p].state = state]
      PROVE  Allowed
  <2>1. /\ proc'[p].state = state /\ proc'[p].worker = proc[p].worker
        /\ \A q \in Pids \ {p} : proc'[q] = proc[q]
    BY <1>4 DEF SupervisorInv, SupervisorTypeOK
  <2>2. PICK w \in Workers : w = proc[p].worker
    BY DEF SupervisorInv, SupervisorTypeOK
  <2>3. \A q \in Pids \ {p} : Exists(q) => proc[q].worker # w
    BY <1>4, <2>2 DEF SupervisorInv, WorkersAccounted, Exists, Alive
  <2>4. Crew[w] = Shown(proc[p].state) /\ Crew' = [Crew EXCEPT ![w] = Shown(proc'[p].state)]
    BY <2>1, <2>2, <2>3, CrewChanges
  <2>5. Crew[w] = "up"
    BY <1>4, <2>4 DEF Shown, Alive
  <2>6. CASE state = "zombie"
    <3>1. W!Falls(w)
      BY <1>2, <2>1, <2>4, <2>5, <2>6 DEF W!Falls, Shown
    <3> QED BY <3>1 DEF Allowed, W!Next
  <2>7. CASE state = "serving"
    <3>1. Crew' = Crew
      BY <2>1, <2>4, <2>5, <2>7 DEF Shown, Crew
    <3> QED BY <1>2, <3>1 DEF Allowed
  <2> QED BY <2>6, <2>7
<1>5. \/ proc' = proc
      \/ /\ proc[p].state \in Alive
         /\ \E state \in {"serving", "zombie"} : proc' = [proc EXCEPT ![p].state = state]
  BY DEF Starts, Dies, Terminate, Ends, Alive
<1> QED BY <1>3, <1>4, <1>5

(* What was waited for leaves its worker out.                              *)
LEMMA ReapLeavesOut ==
  ASSUME SupervisorInv, SupervisorInv', NEW p \in Pids, Exists(p), proc' = Waited(p)
  PROVE  /\ Crew[proc[p].worker] = Shown(proc[p].state)
         /\ Crew[proc[p].worker] # "out" /\ proc[p].worker \in Workers
         /\ Crew' = [Crew EXCEPT ![proc[p].worker] = "out"]
<1>1. /\ proc'[p].state = "none"
      /\ \A q \in Pids \ {p} : proc'[q] = proc[q]
  BY DEF Waited, SupervisorInv, SupervisorTypeOK
<1>2. PICK w \in Workers : w = proc[p].worker
  BY DEF SupervisorInv, SupervisorTypeOK
<1>3. \A q \in Pids \ {p} : Exists(q) => proc[q].worker # w
  BY <1>2 DEF SupervisorInv, WorkersAccounted, Exists
<1>4. Crew[w] = Shown(proc[p].state) /\ Crew' = [Crew EXCEPT ![w] = Shown(proc'[p].state)]
  BY <1>1, <1>2, <1>3, CrewChanges DEF Exists
<1> QED BY <1>1, <1>2, <1>4 DEF Shown, Exists

(* Reaping while the parent stops.                                         *)
LEMMA StopAllowed ==
  ASSUME SupervisorInv, SupervisorInv', Unasked, NEW p \in Pids,
         ReapStopping(p) \/ WaitReap(p) \/ Kill(p)
  PROVE  W!IsStopped(proc[p].worker)
<1>1. /\ proc' = Waited(p) /\ Exists(p)
      /\ UNCHANGED <<pc, handlers, shuttingDown, crashes>>
      /\ pc \in {"wait", "kill"} \/ (pc = "reap" /\ shuttingDown)
  BY DEF ReapStopping, Reap, WaitReap, Kill, Zombies, Exists, SupervisorInv, KillsOnlyOwn
<1>2. UNCHANGED <<Hiring, Parent, crashes>> /\ Hiring = "closed" /\ Parent \in {"starting", "working"}
  BY <1>1 DEF Hiring, Parent, Ended
<1> QED BY <1>1, <1>2, ReapLeavesOut DEF W!IsStopped

(* A death that is counted: everybody who fell before was found a process, *)
(* or is given up.                                                         *)
LEMMA CrashAllowed ==
  ASSUME SupervisorInv, SupervisorInv', NEW p \in Pids, ReapCrashed(p)
  PROVE  W!IsBuried(proc[p].worker)
<1>1. /\ proc' = Waited(p) /\ Exists(p) /\ proc[p].state = "zombie"
      /\ handlers = "wakeup" /\ UNCHANGED <<handlers, shuttingDown>> /\ ~shuttingDown
      /\ pc = "reap" /\ pc' \in {"reap", "respawn"}
  BY DEF ReapCrashed, Reap, Zombies, Exists, SupervisorInv, Position, InLoop
<1>2. UNCHANGED <<Hiring, Parent>> /\ Hiring = "open" /\ Parent = "working"
  BY <1>1 DEF Hiring, Parent, Ended
<1>3. PICK w \in Workers : w = proc[p].worker
  BY DEF SupervisorInv, SupervisorTypeOK
<1>4. \E n \in 1..crashes[w] + 1 : crashes' = [crashes EXCEPT ![w] = n]
  <2>1. PICK n \in Counted(w) : crashes' = [crashes EXCEPT ![w] = n]
    BY <1>3 DEF ReapCrashed
  <2>2. crashes[w] \in Nat
    BY SupervisorAssumption DEF SupervisorInv, SupervisorTypeOK
  <2>3. n \in 1..crashes[w] + 1
    BY <2>2 DEF Counted
  <2> QED BY <2>1, <2>3
<1>5. Crew[w] = "down" /\ Crew' = [Crew EXCEPT ![w] = "out"]
  BY <1>1, <1>3, ReapLeavesOut DEF Shown
<1>6. W!Out \subseteq W!GivenUp
  <2>1. SUFFICES ASSUME NEW v \in Workers, Crew[v] = "out" PROVE crashes[v] = MaxCrashes
    BY DEF W!Out, W!GivenUp
  <2>2. \A q \in children : q \in Pids /\ Exists(q)
    BY DEF SupervisorInv, SupervisorTypeOK, KillsOnlyOwn, Exists
  <2>3. ~\E q \in children : proc[q].worker = v
    BY <2>1, <2>2, OutHasNone
  <2> QED BY <1>1, <2>3 DEF SupervisorInv, WorkersAccounted, InLoop
<1> QED BY <1>2, <1>3, <1>4, <1>5, <1>6 DEF W!IsBuried

(* Every worker was forked once when the loop is entered.                  *)
LEMMA OpensAllowed ==
  ASSUME SupervisorInv, Unasked, EnterLoop
  PROVE  W!Opens
<1>1. /\ pc = "fork" /\ pc' = "select" /\ handlers' = "wakeup" /\ cur = NumWorkers
      /\ UNCHANGED <<shuttingDown, proc, crashes>>
      /\ handlers = "default" /\ ~shuttingDown
  BY DEF EnterLoop, SupervisorInv, Starting, Unasked
<1>2. Parent = "starting" /\ Parent' = "working" /\ Hiring = "open" /\ Hiring' = "open"
  BY <1>1 DEF Parent, Hiring, Ended
<1>3. W!Out = {}
  <2>1. SUFFICES ASSUME NEW w \in Workers, Crew[w] = "out" PROVE FALSE
    BY DEF W!Out
  <2>2. w < cur
    BY <1>1, SupervisorAssumption DEF Workers
  <2>3. PICK p \in children : proc[p].worker = w
    BY <1>1, <2>2 DEF SupervisorInv, Starting
  <2>4. p \in Pids /\ Exists(p)
    BY DEF SupervisorInv, SupervisorTypeOK, KillsOnlyOwn, Exists
  <2> QED BY <2>1, <2>3, <2>4, OutHasNone
<1> QED BY <1>1, <1>2, <1>3, CrewStays DEF W!Opens

(* A worker about to be replaced is out, and not given up.                 *)
LEMMA OneIsOut ==
  ASSUME SupervisorInv, pc = "respawn"
  PROVE  W!Out \ W!GivenUp # {}
<1>1. cur \in Workers /\ \A q \in Pids : Exists(q) => proc[q].worker # cur
  BY DEF SupervisorInv, Position, Replacing
<1>2. Crew[cur] = "out"
  BY <1>1, CrewShows DEF CrewOK
<1>3. crashes[cur] # MaxCrashes
  BY <1>1, SupervisorAssumption DEF SupervisorInv, SupervisorTypeOK, Replacing
<1>4. cur \in W!Out /\ cur \notin W!GivenUp
  BY <1>1, <1>2, <1>3 DEF W!Out, W!GivenUp
<1> QED BY <1>4

(* A stop is asked for, by a signal that is handled.                       *)
LEMMA AskAllowed ==
  ASSUME SupervisorInv, Unasked, AskStop
  PROVE  Allowed
<1>1. /\ handlers = "wakeup" /\ pc \notin Ended /\ shuttingDown' = TRUE
      /\ UNCHANGED <<pc, handlers, proc, crashes>>
  BY DEF AskStop
<1>2. UNCHANGED <<Crew, crashes, Parent>> /\ Parent = "working"
  BY <1>1, CrewStays DEF Parent
<1>3. CASE Hiring = "open"
  <2>1. Hiring' \in {"one", "closed"} /\ (Hiring' = "one" => pc = "respawn")
    BY <1>1 DEF Hiring
  <2>2. W!Closes
    BY <1>2, <1>3, <2>1, OneIsOut DEF W!Closes
  <2> QED BY <2>2 DEF Allowed, W!Next
<1>4. CASE Hiring # "open"
  <2>1. Hiring' = Hiring
    BY <1>1, <1>4 DEF Hiring
  <2> QED BY <1>2, <2>1 DEF Allowed
<1> QED BY <1>3, <1>4

(* A signal that is not, or a fork that fails.                             *)
LEMMA LossAllowed ==
  ASSUME SupervisorInv, Unasked, EarlySignal \/ ForkFails
  PROVE  Allowed
<1>1. pc \notin Ended /\ UNCHANGED <<handlers, shuttingDown, proc, crashes>>
  BY DEF EarlySignal, ForkFails, Ended
<1>2. UNCHANGED <<Crew, crashes>> /\ Parent \in {"starting", "working"}
  BY <1>1, CrewStays DEF Parent
<1>3. CASE pc' \in Ended
  <2>1. Hiring' = "closed" /\ Parent' = "lost"
    BY <1>1, <1>3 DEF Hiring, Parent, Ended, EarlySignal, ForkFails
  <2>2. Parent = "working" => pc = "respawn"
    BY <1>1 DEF Parent, EarlySignal, ForkFails, SupervisorInv, Starting
  <2>3. Parent = "working" => Hiring # "closed" /\ W!Out \ W!GivenUp # {}
    BY <2>2, OneIsOut DEF Hiring, Ended
  <2>4. W!IsLost
    BY <1>2, <2>1, <2>3 DEF W!IsLost
  <2> QED BY <2>4 DEF Allowed, W!Next
<1>4. CASE pc' \notin Ended
  <2>1. handlers = "default" /\ pc \in {"fork", "record"} /\ pc' = "term"
    BY <1>4 DEF Ended, EarlySignal, ForkFails
  <2>2. Hiring = "open" /\ Hiring' = "closed" /\ Parent' = Parent
    BY <1>1, <2>1 DEF Hiring, Parent, Ended, Unasked
  <2>3. W!Closes
    BY <1>2, <2>2 DEF W!Closes
  <2> QED BY <2>3 DEF Allowed, W!Next
<1> QED BY <1>3, <1>4

(* The parent ends of itself: no child is left, so nobody is up or down;   *)
(* and if it was not stopped everybody is given up.                        *)
LEMMA EndAllowed ==
  ASSUME SupervisorInv, Unasked, LeaveLoop \/ AllStopped
  PROVE  Allowed
<1>1. /\ pc \notin Ended /\ UNCHANGED <<handlers, shuttingDown, proc, crashes>>
      /\ pc = "select" \/ pc \in {"wait", "kill"}
  BY DEF LeaveLoop, AllStopped, Ended
<1>2. UNCHANGED <<Crew, crashes>> /\ Hiring' = "closed"
  <2>1. pc' \in Ended \cup {"term"}
    BY DEF LeaveLoop, AllStopped, Ended
  <2> QED BY <1>1, <2>1, CrewStays DEF Hiring
<1>3. CASE pc' = "term"
  <2>1. pc = "select" /\ shuttingDown
    BY <1>3 DEF LeaveLoop, AllStopped
  <2>2. Hiring = "closed" /\ Parent' = Parent
    BY <1>1, <1>3, <2>1 DEF Hiring, Parent, Ended
  <2> QED BY <1>2, <2>2 DEF Allowed
<1>4. CASE pc' = "exited" /\ handlers = "default"
  <2>1. Parent = "starting" /\ Parent' = "lost"
    BY <1>1, <1>4 DEF Parent, Ended
  <2>2. W!IsLost
    BY <1>2, <2>1 DEF W!IsLost
  <2> QED BY <2>2 DEF Allowed, W!Next
<1>5. CASE pc' = "exited" /\ handlers = "wakeup"
  <2>1. Parent = "working" /\ Parent' = "ended"
    BY <1>1, <1>5 DEF Parent, Ended
  <2>2. children = {}
    BY <1>5 DEF LeaveLoop, AllStopped
  <2>3. \A p \in Pids : ~Exists(p)
    BY <1>1, <1>5, <2>2 DEF SupervisorInv, Tracked, Recording
  <2>4. W!Out = Workers
    BY <2>3, CrewShows DEF CrewOK, W!Out
  <2>5. Hiring = "open" => W!GivenUp = Workers
    <3>1. SUFFICES ASSUME Hiring = "open" PROVE \A w \in Workers : crashes[w] = MaxCrashes
      BY DEF W!GivenUp
    <3>2. pc = "select" /\ ~shuttingDown
      BY <1>1, <3>1 DEF Hiring
    <3> QED BY <2>2, <3>2 DEF SupervisorInv, WorkersAccounted, InLoop
  <2>6. W!Ends
    BY <1>2, <2>1, <2>4, <2>5 DEF W!Ends
  <2> QED BY <2>6 DEF Allowed, W!Next
<1>6. handlers \in {"default", "wakeup"} /\ pc' \in {"term", "exited"}
  BY DEF LeaveLoop, AllStopped, SupervisorInv, SupervisorTypeOK
<1> QED BY <1>3, <1>4, <1>5, <1>6

(* The other steps of the parent change nothing of this.                   *)
LEMMA MoveAllowed ==
  ASSUME SupervisorInv, Unasked,
         \/ RecordFork \/ RecordRespawn \/ Select \/ NothingToReap \/ AllTerminated \/ Deadline
         \/ UNCHANGED vars
  PROVE  Allowed
<1>1. /\ UNCHANGED <<handlers, shuttingDown, proc, crashes>>
      /\ \/ pc' = pc
         \/ pc = "record" /\ pc' = "fork"
         \/ pc \in {"select", "reap", "recordRespawn"} /\ pc' \in {"select", "reap"}
         \/ pc \in {"term", "wait"} /\ pc' \in {"wait", "kill"}
  BY DEF RecordFork, RecordRespawn, Record, Select, NothingToReap, AllTerminated, Deadline, vars
<1>2. UNCHANGED <<Hiring, Parent>>
  BY <1>1 DEF Hiring, Parent, Ended
<1> QED BY <1>1, <1>2, CrewStays DEF Allowed

(* The parent starts with everybody out.                                   *)
LEMMA InitWorkforce == Init => W!Init
BY DEF Init, W!Init, Crew, Hiring, Parent, Zombies, Alive, Ended

(* Every step of the processes and signals is one of the workforce.        *)
LEMMA NextWorkforce ==
  SupervisorInv /\ SupervisorInv' /\ Unasked /\ [Next]_vars => Allowed
<1> SUFFICES ASSUME SupervisorInv, SupervisorInv', Unasked, [Next]_vars PROVE Allowed
  OBVIOUS
<1>1. ASSUME NEW p \in Pids, Fork(p) \/ Respawn(p) PROVE Allowed
  <2>1. cur \in Workers
    BY <1>1, SupervisorAssumption
       DEF Fork, Respawn, SupervisorInv, SupervisorTypeOK, Position, Workers
  <2> QED BY <1>1, <2>1, ForkAllowed DEF Allowed, W!Next
<1>2. ASSUME NEW p \in Pids, ReapCrashed(p) \/ ReapStopping(p) \/ WaitReap(p) \/ Kill(p)
      PROVE  Allowed
  <2>1. proc[p].worker \in Workers
    BY DEF SupervisorInv, SupervisorTypeOK
  <2> QED BY <1>2, <2>1, CrashAllowed, StopAllowed DEF Allowed, W!Next
<1>3. CASE EnterLoop
  BY <1>3, OpensAllowed DEF Allowed, W!Next
<1> QED BY <1>1, <1>2, <1>3, ChildAllowed, AskAllowed, LossAllowed, EndAllowed, MoveAllowed
        DEF Next, ParentStep

(* The supervisor implements Workforce: for any number of workers, pids    *)
(* and deaths, and signals at any time, each worker is run by one process, *)
(* replaced in turn, given up after its crashes only, and left behind only *)
(* by a parent that is killed or cannot fork.                              *)
THEOREM ImplementsWorkforceAlways == Spec => ImplementsWorkforce
<1>1. Init => W!Init
  BY InitWorkforce
<1>2. SupervisorInv /\ SupervisorInv' /\ Unasked /\ [Next]_vars
        => [W!Next]_<<Crew, crashes, Hiring, Parent>>
  BY NextWorkforce DEF Allowed
<1> QED BY <1>1, <1>2, SupervisorInvariant, UnaskedAlways, PTL
        DEF Spec, ImplementsWorkforce, W!Spec, W!crewVars
=============================================================================
