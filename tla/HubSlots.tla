------------------------------ MODULE HubSlots ------------------------------
(***************************************************************************)
(* Waits that use an operation slot (src/src/op_slot.zig): green_sleep,    *)
(* green_poll_fd, green_connect_fd, green_poll_fd_timeout and              *)
(* green_poll_multi, with the loop's handling of their completions, the    *)
(* clean-up when another greenlet throws into the waiter, and completions  *)
(* of slots that were released and taken again (the generation).           *)
(*                                                                         *)
(* A completion's data does not matter here, whose completion it is does:  *)
(* every wait has a number, and "result" is the number of the wait whose   *)
(* operation produced it, 0 when there is none.                            *)
(***************************************************************************)
EXTENDS HubLoop

CONSTANTS
  Slots,          \* the slots of the table (OP_SLOT_SIZE of them)
  None,           \* null
  GenMod,         \* generations are u32 and wrap: 2^32
  MaxWaits,       \* bound: the waits a run begins
  MaxPollFds,     \* fds green_poll_multi takes at most
  Timed           \* greenlets whose waits all have a timeout

ASSUME SlotsAssumption ==
  /\ IsFiniteSet(Slots)
  /\ None \notin Greenlets /\ None \notin Slots
  /\ MaxWaits \in Nat /\ GenMod \in Nat /\ MaxPollFds \in Nat
  /\ MaxWaits < GenMod
  /\ Timed \subseteq Greenlets

VARIABLES
  slot,    \* OpSlotTable.slots
  group,   \* SqeStorage.poll_group of each slot
  free,    \* OpSlotTable.free_list, as a set: which slot is popped is not fixed
  held,    \* the slots the suspended call of each greenlet holds
  wait,    \* the number of each greenlet's latest wait
  waits    \* how many waits have begun

slotVars == <<slot, group, free, held, wait, waits>>
vars == <<loopVars, slotVars>>

Slot  == [gen : 0..GenMod-1, greenlet : Greenlets \cup {None},
          result : 0..MaxWaits, group : Slots \cup {None}]
Group == [resumed : BOOLEAN, greenlet : Greenlets \cup {None}, n : Nat]
Sqe   == [slot : Slots, gen : 0..GenMod-1, wait : 0..MaxWaits, link : BOOLEAN]

SlotsInit ==
  /\ LoopInit
  /\ slot  = [s \in Slots |-> [gen |-> 0, greenlet |-> None, result |-> 0, group |-> None]]
  /\ group = [s \in Slots |-> [resumed |-> FALSE, greenlet |-> None, n |-> 0]]
  /\ free  = Slots
  /\ held  = [g \in Greenlets |-> {}]
  /\ wait  = [g \in Greenlets |-> 0]
  /\ waits = 0

-----------------------------------------------------------------------------
(* The slot table.                                                         *)

Acquired(s) == [slot[s] EXCEPT !.greenlet = None, !.result = 0, !.group = None]

(* Mutant: release forgets to bump the generation.                         *)
ReleasedSameGen(s) == [gen |-> slot[s].gen, greenlet |-> None, result |-> 0, group |-> None]

Released(s) ==
  [gen |-> (slot[s].gen + 1) % GenMod, greenlet |-> None, result |-> 0, group |-> None]

ReleaseAll(S) == [s \in Slots |-> IF s \in S THEN Released(s) ELSE slot[s]]

(* The user_data of an SQE for slot s, with the wait it belongs to.        *)
SqeFor(s, w, link) == [slot |-> s, gen |-> slot[s].gen, wait |-> w, link |-> link]

(* lookup: the slot an entry names, unless it was released since.          *)
Lookup(e) == slot[e.slot].gen = e.gen

(* The slots a completion is still owed to: exactly those counted in       *)
(* active_waits.                                                           *)
Armed(s) ==
  \/ slot[s].greenlet # None
  \/ slot[s].group # None /\ ~group[slot[s].group].resumed

IsGroupWait(g) == \E s \in held[g] : slot[s].group # None

-----------------------------------------------------------------------------
(* Beginning a wait.  The call takes the slots it needs, prepares the SQEs *)
(* and switches to the hub; when the submission queue has no room it       *)
(* releases the slots again and raises, but the SQEs it had already        *)
(* prepared stay queued.                                                   *)

BeginsWait(g, w) ==
  /\ Running(g)
  /\ waits < MaxWaits
  /\ w = waits + 1
  /\ waits' = w
  /\ UNCHANGED <<ready, phase, stop, inflight>>

BlocksHolding(g, w, S) ==
  /\ status' = [status EXCEPT ![g] = "blocked"]
  /\ held' = [held EXCEPT ![g] = S]
  /\ wait' = [wait EXCEPT ![g] = w]
  /\ free' = free \ S

FailsToBegin ==
  UNCHANGED <<status, activeWaits, group, free, held, wait>>

(* The SQEs of a wait on one slot: the operation and, for                  *)
(* green_poll_fd_timeout, the timeout linked to it.                        *)
SingleSqes(s, w, linked) ==
  {SqeFor(s, w, link) : link \in IF linked THEN BOOLEAN ELSE {FALSE}}

(* Mutant: active_waits is not counted up for a linked poll.               *)
BlockOnSlotUncounted(g, s, linked) ==
  LET w == waits + 1
      sqes == SingleSqes(s, w, linked)
  IN
  /\ BeginsWait(g, w)
  /\ s \in free
  /\ HasRoom(Cardinality(sqes))
  /\ slot' = [slot EXCEPT ![s] = [Acquired(s) EXCEPT !.greenlet = g]]
  /\ sq' = sq \cup sqes
  /\ activeWaits' = IF linked THEN activeWaits ELSE activeWaits + 1
  /\ BlocksHolding(g, w, {s})
  /\ UNCHANGED group

BlockOnSlot(g, s, linked) ==
  LET w == waits + 1
      sqes == SingleSqes(s, w, linked)
  IN
  /\ BeginsWait(g, w)
  /\ s \in free
  /\ HasRoom(Cardinality(sqes))
  /\ slot' = [slot EXCEPT ![s] = [Acquired(s) EXCEPT !.greenlet = g]]
  /\ sq' = sq \cup sqes
  /\ activeWaits' = activeWaits + 1
  /\ BlocksHolding(g, w, {s})
  /\ UNCHANGED group

BlockOnSlotFails(g, s, linked) ==
  LET w == waits + 1
      sqes == SingleSqes(s, w, linked)
  IN
  /\ BeginsWait(g, w)
  /\ s \in free
  /\ ~HasRoom(Cardinality(sqes))
  /\ slot' = ReleaseAll({s})
  /\ sq' = IF HasRoom(1) THEN sq \cup {SqeFor(s, w, FALSE)} ELSE sq
  /\ FailsToBegin

(* Mutant: only the first slot points at the group.                        *)
PollMultiLeaderOnly(g, S, leader) ==
  LET w == waits + 1 IN
  /\ BeginsWait(g, w)
  /\ S \subseteq free /\ leader \in S
  /\ HasRoom(Cardinality(S))
  /\ slot' = [s \in Slots |->
                IF s \in S THEN [Acquired(s) EXCEPT
                                  !.group = IF s = leader THEN leader ELSE None]
                ELSE slot[s]]
  /\ group' = [group EXCEPT ![leader] =
                 [resumed |-> FALSE, greenlet |-> g, n |-> Cardinality(S)]]
  /\ sq' = sq \cup {SqeFor(s, w, FALSE) : s \in S}
  /\ activeWaits' = activeWaits + Cardinality(S)
  /\ BlocksHolding(g, w, S)

(* green_poll_multi over S: one slot per fd and one for the timeout, all   *)
(* pointing at the PollGroup in the storage of the first.                  *)
PollMulti(g, S, leader) ==
  LET w == waits + 1 IN
  /\ BeginsWait(g, w)
  /\ S \subseteq free /\ leader \in S
  /\ HasRoom(Cardinality(S))
  /\ slot' = [s \in Slots |->
                IF s \in S THEN [Acquired(s) EXCEPT !.group = leader] ELSE slot[s]]
  /\ group' = [group EXCEPT ![leader] =
                 [resumed |-> FALSE, greenlet |-> g, n |-> Cardinality(S)]]
  /\ sq' = sq \cup {SqeFor(s, w, FALSE) : s \in S}
  /\ activeWaits' = activeWaits + Cardinality(S)
  /\ BlocksHolding(g, w, S)

(* The queue fills while the polls are prepared: Q is what was queued.     *)
PollMultiFails(g, S, Q) ==
  LET w == waits + 1 IN
  /\ BeginsWait(g, w)
  /\ S \subseteq free /\ Q \subseteq S
  /\ Q # S /\ Cardinality(sq) + Cardinality(Q) = SqSize
  /\ slot' = ReleaseAll(S)
  /\ sq' = sq \cup {SqeFor(s, w, FALSE) : s \in Q}
  /\ FailsToBegin

(* Fewer slots are free than the call needs: it takes every one of them    *)
(* and gives them all back.                                                *)
PollMultiExhausts(g) ==
  /\ BeginsWait(g, waits + 1)
  /\ Cardinality(free) < MaxPollFds + 1
  /\ slot' = ReleaseAll(free)
  /\ UNCHANGED sq
  /\ FailsToBegin

-----------------------------------------------------------------------------
(* Reaping the completion of a slot's operation.                           *)

Reaps(e) ==
  /\ phase \in {"wait", "reap"}
  /\ e \in inflight
  /\ inflight' = inflight \ {e}
  /\ phase' = "reap"
  /\ UNCHANGED <<status, stop, sq, free, held, wait, waits>>

(* The slot was released since the SQE was prepared: the CQE is discarded. *)
ReapStale(e) ==
  /\ Reaps(e)
  /\ ~Lookup(e)
  /\ UNCHANGED <<ready, activeWaits, slot, group>>

(* Mutant: the loop clears the slot's greenlet and then finds nobody to    *)
(* queue.                                                                  *)
ReapSingleForgets(e) ==
  LET s == e.slot IN
  /\ Reaps(e)
  /\ Lookup(e)
  /\ slot[s].group = None
  /\ slot' = [slot EXCEPT ![s].result = e.wait, ![s].greenlet = None]
  /\ UNCHANGED <<ready, activeWaits, group>>

ReapSingle(e) ==
  LET s == e.slot IN
  /\ Reaps(e)
  /\ Lookup(e)
  /\ slot[s].group = None
  /\ slot' = [slot EXCEPT ![s].result = e.wait, ![s].greenlet = None]
  /\ IF slot[s].greenlet # None
       THEN /\ ready' = Append(ready, slot[s].greenlet)
            /\ activeWaits' = activeWaits - 1
       ELSE UNCHANGED <<ready, activeWaits>>
  /\ UNCHANGED group

(* Mutant: every completion of a group queues its greenlet.                *)
ReapGroupedAgain(e) ==
  LET s == e.slot
      leader == slot[s].group
  IN
  /\ Reaps(e)
  /\ Lookup(e)
  /\ leader # None
  /\ slot' = [slot EXCEPT ![s].result = e.wait]
  /\ group' = [group EXCEPT ![leader].resumed = TRUE]
  /\ ready' = Append(ready, group[leader].greenlet)
  /\ activeWaits' = IF group[leader].resumed THEN activeWaits
                    ELSE activeWaits - group[leader].n

ReapGrouped(e) ==
  LET s == e.slot
      leader == slot[s].group
  IN
  /\ Reaps(e)
  /\ Lookup(e)
  /\ leader # None
  /\ slot' = [slot EXCEPT ![s].result = e.wait]
  /\ IF group[leader].resumed
       THEN UNCHANGED <<group, ready, activeWaits>>
       ELSE /\ group' = [group EXCEPT ![leader].resumed = TRUE]
            /\ ready' = Append(ready, group[leader].greenlet)
            /\ activeWaits' = activeWaits - group[leader].n

-----------------------------------------------------------------------------
(* Ending a wait.                                                          *)

(* Mutant: the slots of a group are not put back on the free list.         *)
GivesBackSingleSlot(g) ==
  /\ slot' = ReleaseAll(held[g])
  /\ free' = IF IsGroupWait(g) THEN free ELSE free \cup held[g]
  /\ held' = [held EXCEPT ![g] = {}]
  /\ IF IsGroupWait(g)
       THEN inflight' = Submitted /\ sq' = {}
       ELSE UNCHANGED <<inflight, sq>>
  /\ UNCHANGED <<group, wait, waits>>

(* cancelAndReleasePollSlots also submits what is queued, so that the      *)
(* cancellations reach the kernel before the generations move on.  The     *)
(* cancellations' own completions carry IGNORE_SENTINEL, and a cancelled   *)
(* poll completes like any other: neither changes what the loop does.      *)
GivesBackSlots(g) ==
  /\ slot' = ReleaseAll(held[g])
  /\ free' = free \cup held[g]
  /\ held' = [held EXCEPT ![g] = {}]
  /\ IF IsGroupWait(g)
       THEN inflight' = Submitted /\ sq' = {}
       ELSE UNCHANGED <<inflight, sq>>
  /\ UNCHANGED <<group, wait, waits>>

(* The loop switches to a suspended waiter: the call reads its results,    *)
(* releases its slots and returns.                                         *)
ResumeWaiter(g) ==
  /\ Drains(g)
  /\ status[g] = "blocked"
  /\ ready' = Tail(ready)
  /\ status' = [status EXCEPT ![g] = "running"]
  /\ GivesBackSlots(g)
  /\ UNCHANGED <<activeWaits, phase, stop>>

(* What the wait of v still counts for in active_waits: a completion that  *)
(* was reaped has already been taken off.                                  *)
StillCountedAlways(v) == Cardinality(held[v])

StillCounted(v) ==
  IF IsGroupWait(v)
    THEN IF \E s \in held[v] : Armed(s) THEN Cardinality(held[v]) ELSE 0
    ELSE Cardinality({s \in held[v] : slot[s].greenlet # None})

(* The switch inside v's call returns null: cleanupSlotSwitch, or the      *)
(* group's own clean-up, runs.                                             *)
Throw(k, v) ==
  /\ ThrowsInto(k, v)
  /\ activeWaits' = activeWaits - StillCounted(v)
  /\ GivesBackSlots(v)

-----------------------------------------------------------------------------
WaitStep ==
  \E g \in Greenlets :
    \/ \E s \in Slots, linked \in BOOLEAN :
         BlockOnSlot(g, s, linked) \/ BlockOnSlotFails(g, s, linked)
    \/ \E S \in SUBSET Slots :
         /\ S # {} /\ Cardinality(S) <= MaxPollFds + 1
         /\ \/ \E leader \in S : PollMulti(g, S, leader)
            \/ \E Q \in SUBSET S : PollMultiFails(g, S, Q)
    \/ PollMultiExhausts(g)
    \/ \E v \in Greenlets : Throw(g, v)

ReapStep == \E e \in inflight : ReapStale(e) \/ ReapSingle(e) \/ ReapGrouped(e)

Next ==
  \/ (GreenletStep \/ LoopStep \/ LoopFails) /\ UNCHANGED slotVars
  \/ (RequestStop \/ ReapStop) /\ UNCHANGED slotVars
  \/ WaitStep
  \/ ReapStep
  \/ \E g \in Greenlets : ResumeWaiter(g)

SafeSpec == SlotsInit /\ [][Next]_vars

(* The loop runs whenever it can (LoopFails is not among its steps), and a *)
(* running greenlet gives the thread back in the end.  Of the kernel only  *)
(* this is assumed: it completes the timer of a wait that has one, and the *)
(* read of a written stop pipe.  Both can be reaped only while the loop    *)
(* reaps, hence strong fairness: the completion stays in the ring until a  *)
(* batch takes it.                                                         *)
Fairness ==
  /\ WF_vars((LoopStep /\ UNCHANGED slotVars) \/ \E g \in Greenlets : ResumeWaiter(g))
  /\ WF_vars((GreenletStep /\ UNCHANGED slotVars) \/ WaitStep)
  /\ SF_vars(ReapStop /\ UNCHANGED slotVars)
  /\ \A g \in Timed : SF_vars(\E e \in inflight :
        e.wait = wait[g] /\ (ReapStale(e) \/ ReapSingle(e) \/ ReapGrouped(e)))

Spec == SafeSpec /\ Fairness

-----------------------------------------------------------------------------
(* Properties.                                                             *)

(* Every variable has its type: what hub.zig and op_slot.zig declare.      *)
SlotsTypeOK ==
  /\ status \in [Greenlets -> Statuses]
  /\ ready \in Seq(Greenlets)
  /\ activeWaits \in Nat
  /\ phase \in Phases
  /\ stop \in {"no", "asked", "seen"}
  /\ sq \subseteq Sqe /\ inflight \subseteq Sqe
  /\ slot \in [Slots -> Slot]
  /\ group \in [Slots -> Group]
  /\ free \subseteq Slots
  /\ held \in [Greenlets -> SUBSET Slots]
  /\ wait \in [Greenlets -> 0..MaxWaits]
  /\ waits \in 0..MaxWaits

(* active_waits counts exactly the slots a completion is still owed to,    *)
(* through every interleaving of completions, throws and failed calls: one *)
(* too many and the loop never ends, one too few and it ends (or the u32   *)
(* underflows) while a greenlet waits.                                     *)
ActiveWaitsExact == activeWaits = Cardinality({s \in Slots : Armed(s)})

(* The operation of slot s, for the wait of g, on its way to or in the     *)
(* kernel and able to wake g when it completes.                            *)
Underway(g, s) ==
  /\ Armed(s)
  /\ \E e \in sq \cup inflight :
       e.slot = s /\ e.gen = slot[s].gen /\ e.wait = wait[g]

(* A suspended greenlet is either queued to run or every operation of its  *)
(* wait is underway: no completion is dropped between the free list, the   *)
(* generations and the first-completion-only rule of a poll group.  (An    *)
(* exception in a greenlet drops the queue and ends the loop: "failed".)   *)
NoLostGreenlet ==
  phase # "failed" => \A g \in Greenlets : status[g] = "blocked" =>
    \/ InReady(g)
    \/ held[g] # {} /\ \A s \in held[g] : Underway(g, s)

(* Every slot is either free or held by exactly one suspended call, on     *)
(* every error path too, and the PollGroup a slot points at lies in the    *)
(* storage of a slot of the same call (else the loop would write through a *)
(* pointer into a slot that belongs to somebody else).                     *)
SlotsConserved ==
  /\ \A s \in Slots : s \notin free <=> \E g \in Greenlets : s \in held[g]
  /\ \A g, h \in Greenlets : g # h => held[g] \cap held[h] = {}
  /\ \A g \in Greenlets : \A s \in held[g] :
       slot[s].group # None => slot[s].group \in held[g]

(* A slot holds no result but its own wait's: the completion of a wait     *)
(* that was given up is never delivered to the next user of the slot, and  *)
(* a greenlet is queued only once one of its own operations has completed. *)
OwnResult ==
  \A g \in Greenlets :
    /\ \A s \in held[g] : slot[s].result \in {0, wait[g]}
    /\ status[g] = "blocked" /\ InReady(g) =>
         \E s \in held[g] : slot[s].result = wait[g]

(* No greenlet is queued twice: the second switch would land in whatever   *)
(* the greenlet waits for next.                                            *)
ReadyOnce ==
  \A i, j \in 1..Len(ready) : ready[i] = ready[j] => i = j

(* When the loop ends of itself, nobody it knows of is left suspended or   *)
(* waiting for its turn.                                                   *)
IdleExitLeavesNobody ==
  phase = "exited" /\ stop # "seen" =>
    \A g \in Greenlets : status[g] \in {"unborn", "dead"}

(* A wait with a timeout returns, unless the loop ends first.              *)
TimedWaitReturns ==
  \A g \in Timed : status[g] = "blocked" ~> (status[g] # "blocked" \/ Stopped)

(* hub_stop ends the loop, whatever the greenlets wait for.                *)
StopEndsLoop == (stop = "asked") ~> Stopped

-----------------------------------------------------------------------------
(* The inductive invariant behind ActiveWaitsExact, SlotsConserved and     *)
(* ReadyOnce when nobody survives a throw ("running" \notin Fates): the    *)
(* shape of a wait, and what an entry of the ready queue means.            *)

SingleWait(g) ==
  \E s \in Slots : /\ held[g] = {s}
                   /\ slot[s].group = None
                   /\ slot[s].greenlet \in {g, None}

GroupWait(g, leader) ==
  /\ leader \in held[g]
  /\ \A s \in held[g] : slot[s].group = leader /\ slot[s].greenlet = None
  /\ group[leader].greenlet = g
  /\ group[leader].n = Cardinality(held[g])

WaitShape ==
  \A g \in Greenlets :
    IF status[g] = "blocked"
      THEN SingleWait(g) \/ \E leader \in Slots : GroupWait(g, leader)
      ELSE held[g] = {}

FreeReset == \A s \in free : slot[s].greenlet = None /\ slot[s].group = None

Completed(g) == \A s \in held[g] : ~Armed(s)

(* The greenlet has its turn coming.                                       *)
IsDue(g) ==
  \/ status[g] = "scheduled"
  \/ status[g] = "blocked" /\ Completed(g)

ReadyMeans ==
  \A g \in Greenlets : InReady(g) => IsDue(g) \/ status[g] = "dead"

QueuedWhenDue ==
  phase # "failed" => \A g \in Greenlets : IsDue(g) => InReady(g)

SlotsInv ==
  /\ SlotsTypeOK
  /\ SlotsConserved
  /\ WaitShape
  /\ FreeReset
  /\ ReadyOnce
  /\ ReadyMeans
  /\ QueuedWhenDue
  /\ ActiveWaitsExact

-----------------------------------------------------------------------------
(* The strengthening behind NoLostGreenlet and OwnResult: a generation is  *)
(* never used twice, an entry that still names its slot belongs to the     *)
(* slot's present wait, and a slot that is armed has its entry.            *)

Entries == sq \cup inflight

(* Each wait that begins bumps the generation of a slot at most once: with *)
(* fewer waits than generations none comes round again.                    *)
GensBound ==
  \A s \in Slots :
    /\ slot[s].gen <= waits
    /\ s \notin free => slot[s].gen < waits

EntriesOwn ==
  \A e \in Entries :
    /\ e.gen <= slot[e.slot].gen
    /\ e.slot \in free => e.gen < slot[e.slot].gen
    /\ Lookup(e) => \A g \in Greenlets : e.slot \in held[g] => e.wait = wait[g]

ArmedUnderway ==
  \A g \in Greenlets : \A s \in held[g] : Armed(s) =>
    \E e \in Entries : ~e.link /\ e.slot = s /\ Lookup(e)

ResultsOwn ==
  \A g \in Greenlets : \A s \in held[g] : slot[s].result \in {0, wait[g]}

CompletedHasResult ==
  \A g \in Greenlets : status[g] = "blocked" /\ Completed(g) =>
    \E s \in held[g] : slot[s].result = wait[g]

WaitInv ==
  /\ GensBound
  /\ EntriesOwn
  /\ ArmedUnderway
  /\ ResultsOwn
  /\ CompletedHasResult
=============================================================================
