------------------------------ MODULE HubLoop ------------------------------
(***************************************************************************)
(* The hub's event loop (src/src/hub.zig, Hub.hubLoop): one thread that    *)
(* runs greenlets from a ready queue and, when none is left, submits the   *)
(* queued SQEs to io_uring and reaps completions.  This module holds what  *)
(* every kind of wait shares; HubSlots and HubConns add the waits.         *)
(*                                                                         *)
(* Greenlets are cooperative: while one runs the loop does not, and a      *)
(* greenlet gives the thread back only by blocking in a green_* call or by *)
(* ending.  The kernel may complete an operation at any time, but the loop *)
(* looks at completions only between SubmitAndWait and EndBatch, so a      *)
(* completion is modelled by the step that reaps it, in any order.         *)
(***************************************************************************)
EXTENDS Naturals, Sequences, FiniteSets

CONSTANTS
  Greenlets,   \* the greenlets the program may create
  SqSize,      \* the entries of the submission queue (Ring.init(256))
  Fates        \* what becomes of a greenlet another one throws into: it ends
               \* ("dead") or catches the exception and goes on ("running");
               \* {} when nobody throws

ASSUME LoopAssumption ==
  /\ SqSize \in Nat \ {0}
  /\ Fates \subseteq {"dead", "running"}

VARIABLES
  status,       \* what each greenlet is doing
  ready,        \* Hub.ready: the greenlets to switch to, in order
  activeWaits,  \* Hub.active_waits: what keeps the loop alive
  phase,        \* where hubLoop is
  stop,         \* the stop pipe: not written, written, or its read reaped
  sq,           \* SQEs prepared and not yet submitted
  inflight      \* operations the kernel has and has not completed

loopVars == <<status, ready, activeWaits, phase, stop, sq, inflight>>

Statuses == {"unborn", "scheduled", "running", "blocked", "dead"}
Phases   == {"drain", "wait", "reap", "exited", "failed"}

(* The loop itself holds the thread.                                       *)
HubTurn == \A g \in Greenlets : status[g] # "running"

Running(g) == phase = "drain" /\ status[g] = "running"

Stopped == phase \in {"exited", "failed"}

InReady(g) == \E i \in 1..Len(ready) : ready[i] = g

(* The greenlet at the head of the ready queue, when the loop drains it.   *)
Drains(g) == phase = "drain" /\ HubTurn /\ ready # <<>> /\ g = Head(ready)

(* Room for n more SQEs: the prep functions fail when the queue is full.   *)
HasRoom(n) == Cardinality(sq) + n <= SqSize

(* What io_uring_enter hands to the kernel: a linked timeout only bounds   *)
(* the operation before it, and its own completion carries IGNORE_SENTINEL,*)
(* which the loop skips.                                                   *)
Submitted == inflight \cup {e \in sq : ~e.link}

LoopInit ==
  /\ \E root \in Greenlets :
       /\ status = [g \in Greenlets |-> IF g = root THEN "scheduled" ELSE "unborn"]
       /\ ready = <<root>>
  /\ activeWaits = 0
  /\ phase = "drain"
  /\ stop = "no"
  /\ sq = {}
  /\ inflight = {}

-----------------------------------------------------------------------------
(* Steps of a running greenlet that do not block.                          *)

(* hub_schedule of a greenlet just created.                                *)
Schedule(g, h) ==
  /\ Running(g)
  /\ status[h] = "unborn"
  /\ status' = [status EXCEPT ![h] = "scheduled"]
  /\ ready' = Append(ready, h)
  /\ UNCHANGED <<activeWaits, phase, stop, sq, inflight>>

(* The greenlet's function returns: its parent, the hub, runs next.        *)
Finish(g) ==
  /\ Running(g)
  /\ status' = [status EXCEPT ![g] = "dead"]
  /\ UNCHANGED <<ready, activeWaits, phase, stop, sq, inflight>>

(* The greenlet ends with an exception: it is raised in the hub's switch,  *)
(* which drops the rest of the ready queue and leaves the loop.            *)
Raise(g) ==
  /\ Running(g)
  /\ status' = [status EXCEPT ![g] = "dead"]
  /\ ready' = <<>>
  /\ phase' = "failed"
  /\ UNCHANGED <<activeWaits, stop, sq, inflight>>

(* k, having queued itself (hub_schedule), throws into the suspended       *)
(* greenlet v, which runs its clean-up and ends or goes on.                *)
ThrowsInto(k, v) ==
  /\ Running(k)
  /\ status[v] = "blocked"
  /\ ready' = Append(ready, k)
  /\ \E fate \in Fates :
       status' = [status EXCEPT ![k] = "scheduled", ![v] = fate]
  /\ UNCHANGED <<phase, stop>>

-----------------------------------------------------------------------------
(* Steps of the loop.                                                      *)

(* Draining an entry whose greenlet has not blocked since it was queued.   *)
RunScheduled(g) ==
  /\ Drains(g)
  /\ status[g] = "scheduled"
  /\ status' = [status EXCEPT ![g] = "running"]
  /\ ready' = Tail(ready)
  /\ UNCHANGED <<activeWaits, phase, stop, sq, inflight>>

(* Switching to a dead greenlet whose parent is the hub returns at once.   *)
SkipDead(g) ==
  /\ Drains(g)
  /\ status[g] = "dead"
  /\ ready' = Tail(ready)
  /\ UNCHANGED <<status, activeWaits, phase, stop, sq, inflight>>

(* Mutant: the loop ends as soon as nothing is ready.                      *)
ExitIdleEarly ==
  /\ phase = "drain" /\ HubTurn /\ ready = <<>>
  /\ phase' = "exited"
  /\ UNCHANGED <<status, ready, activeWaits, stop, sq, inflight>>

(* Nothing is ready and nothing is awaited: the loop ends.                 *)
ExitIdle ==
  /\ phase = "drain" /\ HubTurn /\ ready = <<>>
  /\ activeWaits = 0
  /\ phase' = "exited"
  /\ UNCHANGED <<status, ready, activeWaits, stop, sq, inflight>>

SubmitAndWait ==
  /\ phase = "drain" /\ HubTurn /\ ready = <<>>
  /\ activeWaits # 0
  /\ phase' = "wait"
  /\ inflight' = Submitted
  /\ sq' = {}
  /\ UNCHANGED <<status, ready, activeWaits, stop>>

(* io_uring_enter fails, interrupted by a signal for one, or the copy of   *)
(* the completions does: the loop ends with an exception.                  *)
LoopFails ==
  /\ \/ phase = "drain" /\ HubTurn /\ ready = <<>> /\ activeWaits # 0
     \/ phase = "wait"
  /\ phase' = "failed"
  /\ UNCHANGED <<status, ready, activeWaits, stop, sq, inflight>>

(* hub_stop, from any thread: a byte in the stop pipe completes the read   *)
(* the loop submitted when it started.                                     *)
RequestStop ==
  /\ ~Stopped
  /\ stop = "no"
  /\ stop' = "asked"
  /\ UNCHANGED <<status, ready, activeWaits, phase, sq, inflight>>

ReapStop ==
  /\ phase \in {"wait", "reap"}
  /\ stop = "asked"
  /\ stop' = "seen"
  /\ phase' = "reap"
  /\ UNCHANGED <<status, ready, activeWaits, sq, inflight>>

(* Mutant: the loop goes on after the stop pipe's completion.              *)
EndBatchRunning ==
  /\ phase = "reap"
  /\ phase' = "drain"
  /\ UNCHANGED <<status, ready, activeWaits, stop, sq, inflight>>

(* The batch is used up: `while (self.running)`.                           *)
EndBatch ==
  /\ phase = "reap"
  /\ phase' = IF stop = "seen" THEN "exited" ELSE "drain"
  /\ UNCHANGED <<status, ready, activeWaits, stop, sq, inflight>>

-----------------------------------------------------------------------------
GreenletStep ==
  \E g \in Greenlets :
    \/ Finish(g)
    \/ Raise(g)
    \/ \E h \in Greenlets : Schedule(g, h)

LoopStep ==
  \/ \E g \in Greenlets : RunScheduled(g) \/ SkipDead(g)
  \/ ExitIdle
  \/ SubmitAndWait
  \/ EndBatch
=============================================================================
