----------------------------- MODULE Supervisor -----------------------------
(***************************************************************************)
(* The pre-fork mode (theframework/server.py): _serve_prefork forks the    *)
(* workers, _supervisor_loop reaps and replaces those that die, and        *)
(* _shutdown_children stops them, while signals arrive and workers crash   *)
(* between any two steps.                                                  *)
(*                                                                         *)
(* Time is abstract: a crash may or may not have left the 60 s window when *)
(* the next one is counted, the backoff sleep and select end at some time, *)
(* and the shutdown deadline passes at any time after the SIGTERMs.        *)
(***************************************************************************)
EXTENDS Naturals, FiniteSets

CONSTANTS
  NumWorkers,   \* workers to keep running
  Pids,         \* process ids the kernel hands out, again after a reap
  MaxCrashes,   \* MAX_CRASHES_IN_WINDOW
  MaxDeaths     \* bound: the workers that die of themselves

ASSUME SupervisorAssumption ==
  /\ NumWorkers \in Nat \ {0}
  /\ IsFiniteSet(Pids)
  /\ MaxCrashes \in Nat \ {0}
  /\ MaxDeaths \in Nat

VARIABLES
  pc,            \* where the parent is
  handlers,      \* the parent's: "default", or "wakeup" once installed
  shuttingDown,  \* _shutting_down
  children,      \* the pids that are keys of `children`
  proc,          \* kernel: the state of each pid, and which worker it is
  cur,           \* worker_id of the loop at work
  pid,           \* the pid fork returned, before it is recorded
  crashes,       \* length of each worker's crash_history
  toSignal,      \* _shutdown_children: who is still to get a SIGTERM
  deaths         \* workers that have died of themselves

vars == <<pc, handlers, shuttingDown, children, proc, cur, pid, crashes, toSignal, deaths>>

Workers == 0..NumWorkers-1

(* "fresh": forked by a parent with default handlers, "deaf": by one whose *)
(* handlers only set a flag; both until the child resets its own.          *)
Alive == {"fresh", "deaf", "serving"}
ProcStates == Alive \cup {"none", "zombie"}

InLoop == {"select", "reap", "respawn", "recordRespawn"}
Ended  == {"exited", "killed", "crashed"}
PCs    == InLoop \cup Ended \cup {"fork", "record", "term", "wait", "kill"}

Init ==
  /\ pc = "fork"
  /\ handlers = "default"
  /\ shuttingDown = FALSE
  /\ children = {}
  /\ proc = [p \in Pids |-> [state |-> "none", worker |-> 0]]
  /\ cur = 0
  /\ pid \in Pids
  /\ crashes = [w \in Workers |-> 0]
  /\ toSignal = {}
  /\ deaths = 0

(* The kernel forgets a process when its parent has waited for it.         *)
Waited(p) == [proc EXCEPT ![p].state = "none"]

Ends(p) == [proc EXCEPT ![p].state = "zombie"]

-----------------------------------------------------------------------------
(* Starting the workers.                                                   *)

(* Mutant: the parent does not enter the new pid in `children`.            *)
RecordNothing(next) ==
  /\ pc' = next
  /\ UNCHANGED <<children, handlers, shuttingDown, proc, pid, crashes, toSignal, deaths>>

Record(next) ==
  /\ children' = children \cup {pid}
  /\ pc' = next
  /\ UNCHANGED <<handlers, shuttingDown, proc, pid, crashes, toSignal, deaths>>

ForksInto(p, state, next) ==
  /\ proc[p].state = "none"
  /\ proc' = [proc EXCEPT ![p] = [state |-> state, worker |-> cur]]
  /\ pid' = p
  /\ pc' = next
  /\ UNCHANGED <<handlers, shuttingDown, children, cur, crashes, toSignal, deaths>>

Fork(p) ==
  /\ pc = "fork"
  /\ cur < NumWorkers
  /\ ForksInto(p, "fresh", "record")

RecordFork == pc = "record" /\ Record("fork") /\ cur' = cur + 1

(* os.fork raises: nothing catches it and the parent ends.                 *)
ForkFails ==
  /\ \/ pc = "fork" /\ cur < NumWorkers
     \/ pc = "respawn"
  /\ pc' = "crashed"
  /\ UNCHANGED <<handlers, shuttingDown, children, proc, cur, pid, crashes, toSignal, deaths>>

EnterLoop ==
  /\ pc = "fork"
  /\ cur = NumWorkers
  /\ handlers' = "wakeup"
  /\ pc' = "select"
  /\ UNCHANGED <<shuttingDown, children, proc, cur, pid, crashes, toSignal, deaths>>

-----------------------------------------------------------------------------
(* The supervisor loop.                                                    *)

(* select returns: a signal has come or 0.1 s have passed.                 *)
Select ==
  /\ pc = "select"
  /\ children # {} /\ ~shuttingDown
  /\ pc' = "reap"
  /\ UNCHANGED <<handlers, shuttingDown, children, proc, cur, pid, crashes, toSignal, deaths>>

Zombies == {p \in Pids : proc[p].state = "zombie"}

NothingToReap ==
  /\ pc = "reap"
  /\ Zombies = {}
  /\ pc' = "select"
  /\ UNCHANGED <<handlers, shuttingDown, children, proc, cur, pid, crashes, toSignal, deaths>>

(* Mutant: the pid is looked up in `children` and left there.              *)
ReapKeeps(p) ==
  /\ pc = "reap"
  /\ p \in Zombies
  /\ proc' = Waited(p)
  /\ UNCHANGED <<handlers, shuttingDown, children, pid, toSignal, deaths>>

Reap(p) ==
  /\ pc = "reap"
  /\ p \in Zombies
  /\ proc' = Waited(p)
  /\ children' = children \ {p}
  /\ UNCHANGED <<handlers, shuttingDown, pid, toSignal, deaths>>

ReapStopping(p) ==
  /\ Reap(p)
  /\ shuttingDown
  /\ UNCHANGED <<pc, cur, crashes>>

(* The crashes within the window, the new one included, once those that    *)
(* have left it are dropped from the history.                              *)
Counted(w) == {kept + 1 : kept \in 0..crashes[w]}

(* Mutant: one crash too few.                                              *)
CrashLoopsEarly(n) == n >= MaxCrashes - 1

(* Mutant: one too many.                                                   *)
CrashLoopsLate(n) == n > MaxCrashes

CrashLoops(n) == n >= MaxCrashes

ReapCrashed(p) ==
  LET w == proc[p].worker IN
  /\ Reap(p)
  /\ ~shuttingDown
  /\ \E n \in Counted(w) :
       /\ crashes' = [crashes EXCEPT ![w] = n]
       /\ IF CrashLoops(n) THEN UNCHANGED <<pc, cur>>
          ELSE pc' = "respawn" /\ cur' = w

(* After the backoff; whether a shutdown was asked for meanwhile is not    *)
(* looked at again.                                                        *)
Respawn(p) == pc = "respawn" /\ ForksInto(p, "deaf", "recordRespawn")

RecordRespawn == pc = "recordRespawn" /\ Record("reap") /\ UNCHANGED cur

-----------------------------------------------------------------------------
(* Shutting down.                                                          *)

(* The loop is over: no child is left, or a shutdown was asked for.        *)
LeaveLoop ==
  /\ pc = "select"
  /\ children = {} \/ shuttingDown
  /\ pc' = IF children = {} THEN "exited" ELSE "term"
  /\ toSignal' = children
  /\ UNCHANGED <<handlers, shuttingDown, children, proc, cur, pid, crashes, deaths>>

(* SIGTERM ends a child that has its default action, a serving one too.    *)
Terminate(p) ==
  /\ pc = "term"
  /\ p \in toSignal
  /\ toSignal' = toSignal \ {p}
  /\ proc' = IF proc[p].state \in {"fresh", "serving"} THEN Ends(p) ELSE proc
  /\ UNCHANGED <<pc, handlers, shuttingDown, children, cur, pid, crashes, deaths>>

AllTerminated ==
  /\ pc = "term"
  /\ toSignal = {}
  /\ pc' = "wait"
  /\ UNCHANGED <<handlers, shuttingDown, children, proc, cur, pid, crashes, toSignal, deaths>>

WaitReap(p) ==
  /\ pc = "wait"
  /\ children # {}
  /\ p \in Zombies
  /\ proc' = Waited(p)
  /\ children' = children \ {p}
  /\ UNCHANGED <<pc, handlers, shuttingDown, cur, pid, crashes, toSignal, deaths>>

(* Mutant: the wait has no deadline.                                       *)
DeadlineNever ==
  /\ pc = "wait"
  /\ children = {}
  /\ pc' = "kill"
  /\ UNCHANGED <<handlers, shuttingDown, children, proc, cur, pid, crashes, toSignal, deaths>>

Deadline ==
  /\ pc = "wait"
  /\ children # {}
  /\ pc' = "kill"
  /\ UNCHANGED <<handlers, shuttingDown, children, proc, cur, pid, crashes, toSignal, deaths>>

(* SIGKILL cannot be ignored: the blocking waitpid that follows returns.   *)
Kill(p) ==
  /\ pc = "kill"
  /\ p \in children
  /\ proc' = Waited(p)
  /\ children' = children \ {p}
  /\ UNCHANGED <<pc, handlers, shuttingDown, cur, pid, crashes, toSignal, deaths>>

AllStopped ==
  /\ pc \in {"wait", "kill"}
  /\ children = {}
  /\ pc' = "exited"
  /\ UNCHANGED <<handlers, shuttingDown, children, proc, cur, pid, crashes, toSignal, deaths>>

-----------------------------------------------------------------------------
(* Signals to the parent, and the children.                                *)

(* SIGINT or SIGTERM once the handlers are installed.                      *)
AskStop ==
  /\ handlers = "wakeup" /\ pc \notin Ended
  /\ shuttingDown' = TRUE
  /\ UNCHANGED <<pc, handlers, children, proc, cur, pid, crashes, toSignal, deaths>>

(* Before that SIGTERM kills the parent, and SIGINT raises                 *)
(* KeyboardInterrupt, in _shutdown_children too.                           *)
EarlySignal ==
  /\ handlers = "default" /\ pc \notin Ended
  /\ \/ pc' = "killed" /\ UNCHANGED toSignal
     \/ /\ pc \in {"fork", "record"}
        /\ pc' = IF children = {} THEN "exited" ELSE "term"
        /\ toSignal' = children
     \/ pc \notin {"fork", "record"} /\ pc' = "crashed" /\ UNCHANGED toSignal
  /\ UNCHANGED <<handlers, shuttingDown, children, proc, cur, pid, crashes, deaths>>

(* _worker_main resets its signal handlers.                                *)
Starts(p) ==
  /\ proc[p].state \in {"fresh", "deaf"}
  /\ proc' = [proc EXCEPT ![p].state = "serving"]
  /\ UNCHANGED <<pc, handlers, shuttingDown, children, cur, pid, crashes, toSignal, deaths>>

(* It cannot bind, its hub ends, a handler crashes the process.            *)
Dies(p) ==
  /\ deaths < MaxDeaths
  /\ proc[p].state \in Alive
  /\ proc' = Ends(p)
  /\ deaths' = deaths + 1
  /\ UNCHANGED <<pc, handlers, shuttingDown, children, cur, pid, crashes, toSignal>>

-----------------------------------------------------------------------------
ParentStep ==
  \/ \E p \in Pids : Fork(p) \/ ReapStopping(p) \/ ReapCrashed(p) \/ Respawn(p)
                     \/ Terminate(p) \/ WaitReap(p) \/ Kill(p)
  \/ RecordFork \/ EnterLoop \/ Select \/ NothingToReap \/ RecordRespawn
  \/ LeaveLoop \/ AllTerminated \/ Deadline \/ AllStopped

Next ==
  \/ ParentStep
  \/ ForkFails
  \/ AskStop
  \/ EarlySignal
  \/ \E p \in Pids : Starts(p) \/ Dies(p)

(* The parent is scheduled; nothing is assumed of workers and signals.     *)
Spec == Init /\ [][Next]_vars /\ WF_vars(ParentStep)

-----------------------------------------------------------------------------
(* Properties.                                                             *)

(* Every variable has its type; no history outgrows the limit it is        *)
(* compared with.                                                          *)
SupervisorTypeOK ==
  /\ pc \in PCs
  /\ handlers \in {"default", "wakeup"}
  /\ shuttingDown \in BOOLEAN
  /\ children \subseteq Pids
  /\ proc \in [Pids -> [state : ProcStates, worker : Workers]]
  /\ cur \in 0..NumWorkers
  /\ pid \in Pids
  /\ crashes \in [Workers -> 0..MaxCrashes]
  /\ toSignal \subseteq Pids
  /\ deaths \in 0..MaxDeaths

(* The parent signals and waits for processes of its own only: a pid it    *)
(* has reaped, which the kernel may give to anybody, is gone from          *)
(* `children` and from the SIGTERM round.                                  *)
KillsOnlyOwn ==
  /\ \A p \in children : proc[p].state # "none"
  /\ pc = "term" => toSignal \subseteq children

(* A worker is never run by two processes, and while the supervisor runs   *)
(* none is forgotten: it has a process the parent knows of, or is about to *)
(* get one, or has crashed as often as the limit allows.                   *)
WorkersAccounted ==
  /\ \A p, q \in Pids :
       proc[p].state # "none" /\ proc[q].state # "none" /\ p # q =>
         proc[p].worker # proc[q].worker
  /\ pc \in InLoop /\ ~shuttingDown => \A w \in Workers :
       \/ \E p \in children : proc[p].worker = w
       \/ pc \in {"respawn", "recordRespawn"} /\ cur = w
       \/ crashes[w] = MaxCrashes

(* A parent that ran its supervisor loop to the end leaves no worker       *)
(* running, not even one that was forked while the shutdown was being asked*)
(* for or that swallowed its SIGTERM.  (A fork that fails ends the parent  *)
(* in "crashed" instead.)                                                  *)
NoOrphans ==
  handlers = "wakeup" /\ pc = "exited" =>
    \A p \in Pids : proc[p].state \notin Alive

(* The supervisor as Workforce has it: which workers have a process, and   *)
(* whether one more may be started.                                        *)
Crew == [w \in Workers |->
  IF \E p \in Pids : proc[p].worker = w /\ proc[p].state \in Alive THEN "up"
  ELSE IF \E p \in Zombies : proc[p].worker = w THEN "down" ELSE "out"]

Hiring ==
  IF pc \in Ended \cup {"term", "wait", "kill"} THEN "closed"
  ELSE IF ~shuttingDown THEN "open"
  ELSE IF pc = "respawn" THEN "one" ELSE "closed"

Parent ==
  IF pc \notin Ended THEN IF handlers = "default" THEN "starting" ELSE "working"
  ELSE IF handlers = "wakeup" /\ pc = "exited" THEN "ended" ELSE "lost"

W == INSTANCE Workforce WITH
  crew <- Crew, strikes <- crashes, hiring <- Hiring, parent <- Parent

(* The supervisor implements Workforce: one process for each worker, each  *)
(* replaced before the next death is counted, none beyond its crashes, at  *)
(* most one started after a stop is asked for, and none left behind; with  *)
(* deaths, signals and forks in any order.                                 *)
ImplementsWorkforce == W!Spec

(* A signal to the parent stops the workers, whenever it comes.            *)
SignalStopsWorkers ==
  pc \in {"exited", "killed"} => \A p \in Pids : proc[p].state \notin Alive

(* Once a shutdown is asked for the parent ends, whatever it is doing and  *)
(* whatever its workers do.                                                *)
ShutdownEnds == shuttingDown ~> pc \in Ended

(* A worker without a process gets one, unless it has used up its crashes  *)
(* or the parent stops.                                                    *)
DeadWorkerReplaced ==
  \A w \in Workers :
    (pc \in InLoop /\ ~\E p \in Pids : proc[p].worker = w /\ proc[p].state \in Alive) ~>
      \/ \E p \in children : proc[p].worker = w /\ proc[p].state # "zombie"
      \/ crashes[w] = MaxCrashes
      \/ shuttingDown
      \/ pc \in Ended

-----------------------------------------------------------------------------
(* The inductive invariant behind KillsOnlyOwn, WorkersAccounted and       *)
(* NoOrphans: which processes exist, and which the parent knows of.        *)

Exists(p) == proc[p].state # "none"

Recording == pc \in {"record", "recordRespawn"}

(* The pid fork returned is a new child's, and not recorded yet.           *)
NewChild == Recording =>
  /\ Exists(pid) /\ pid \notin children
  /\ proc[pid].worker = cur

(* No process escapes the parent, except to a SIGINT while it forks.       *)
Tracked ==
  handlers = "wakeup" \/ pc \in {"fork", "record"} =>
    \A p \in Pids : Exists(p) => p \in children \/ (Recording /\ p = pid)

(* While the workers are started those up to cur have their process.       *)
Starting == pc \in {"fork", "record"} =>
  /\ handlers = "default"
  /\ \A p \in children : proc[p].worker < cur
  /\ \A w \in Workers : w < cur => \E p \in children : proc[p].worker = w
  /\ \A w \in Workers : crashes[w] < MaxCrashes

(* A worker about to be replaced has no process left, but crashes.         *)
Replacing == pc = "respawn" =>
  /\ \A p \in Pids : Exists(p) => proc[p].worker # cur
  /\ crashes[cur] < MaxCrashes

(* A worker that has used up its crashes has no process.                   *)
CrashesLeft == \A p \in Pids : Exists(p) => crashes[proc[p].worker] < MaxCrashes

Position ==
  /\ pc \in InLoop => handlers = "wakeup"
  /\ Recording \/ pc = "respawn" => cur \in Workers
  /\ pc = "exited" => children = {}

SupervisorInv ==
  /\ SupervisorTypeOK
  /\ KillsOnlyOwn
  /\ NewChild
  /\ Tracked
  /\ Starting
  /\ Replacing
  /\ CrashesLeft
  /\ Position
  /\ WorkersAccounted
=============================================================================
