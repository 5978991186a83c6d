-------------------------- MODULE HubSlots_proofs --------------------------
(***************************************************************************)
(* Proofs about HubSlots for any number of greenlets, slots, waits and     *)
(* submission queue entries, provided no greenlet survives an exception    *)
(* thrown into it: active_waits is exact, slots are conserved, the ready   *)
(* queue holds no greenlet twice, no suspended greenlet is lost and every  *)
(* wait gets its own completion.                                           *)
(***************************************************************************)
EXTENDS HubSlots, HubLoop_proofs

NobodySurvives == "running" \notin Fates

-----------------------------------------------------------------------------
(* Counting.                                                               *)

ArmedSlots == {s \in Slots : Armed(s)}

(* The constants' assumptions leave the armed slots finitely many.         *)
LEMMA ArmedFinite ==
  /\ IsFiniteSet(ArmedSlots)
  /\ Cardinality(ArmedSlots) \in Nat
<1>1. IsFiniteSet(Slots) /\ ArmedSlots \subseteq Slots
  BY SlotsAssumption DEF ArmedSlots
<1> QED BY <1>1, RemovePart

(* The count the invariant speaks of is the count of ArmedSlots.           *)
LEMMA CountMeans == ActiveWaitsExact <=> activeWaits = Cardinality(ArmedSlots)
  BY DEF ActiveWaitsExact, ArmedSlots

-----------------------------------------------------------------------------
(* Steps that leave the slots alone.                                       *)

(* What the invariant says of slots survives a step that changes none.     *)
LEMMA SlotsKept ==
  ASSUME SlotsInv, UNCHANGED <<slot, group, free, held>>
  PROVE  /\ SlotsConserved' /\ FreeReset'
         /\ \A s \in Slots : Armed(s)' <=> Armed(s)
         /\ \A g \in Greenlets : Completed(g)' <=> Completed(g)
         /\ activeWaits' = activeWaits => ActiveWaitsExact'
         /\ (\A g \in Greenlets : (status'[g] = "blocked") <=> (status[g] = "blocked"))
              => WaitShape'
<1>1. SlotsConserved'
  BY DEF SlotsInv, SlotsConserved
<1>2. FreeReset'
  BY DEF SlotsInv, FreeReset
<1>3. \A s \in Slots : Armed(s)' <=> Armed(s)
  BY DEF Armed
<1>4. \A g \in Greenlets : Completed(g)' <=> Completed(g)
  BY DEF Completed, Armed
<1>5. ASSUME activeWaits' = activeWaits PROVE ActiveWaitsExact'
  <2>1. ArmedSlots' = ArmedSlots
    BY <1>3 DEF ArmedSlots
  <2> QED BY <1>5, <2>1, CountMeans DEF SlotsInv, ActiveWaitsExact, ArmedSlots
<1>6. ASSUME \A g \in Greenlets : (status'[g] = "blocked") <=> (status[g] = "blocked")
      PROVE  WaitShape'
  BY <1>6 DEF SlotsInv, WaitShape, SingleWait, GroupWait
<1> QED BY <1>1, <1>2, <1>3, <1>4, <1>5, <1>6

(* The queue and the turns of the greenlets after h is queued, or after    *)
(* the greenlet at the head of the queue is taken off it.                  *)
LEMMA Queued ==
  ASSUME SlotsInv, NEW h \in Greenlets, ready' = Append(ready, h)
  PROVE  /\ ready' \in Seq(Greenlets)
         /\ \A g \in Greenlets : InReady(g)' <=> g = h \/ InReady(g)
         /\ ~InReady(h) => ReadyOnce'
<1>1. ready \in Seq(Greenlets) /\ Distinct(ready)
  BY DEF SlotsInv, SlotsTypeOK, ReadyOnce, Distinct
<1>2. /\ Append(ready, h) \in Seq(Greenlets)
      /\ \A y : Occurs(Append(ready, h), y) <=> y = h \/ Occurs(ready, y)
      /\ ~Occurs(ready, h) => Distinct(Append(ready, h))
  BY <1>1, AppendOccurs
<1> QED BY <1>2 DEF InReady, Occurs, Distinct, ReadyOnce

(* The same for the step that takes h off the head of the queue.           *)
LEMMA Drained ==
  ASSUME SlotsInv, NEW h \in Greenlets, Drains(h), ready' = Tail(ready)
  PROVE  /\ ready' \in Seq(Greenlets)
         /\ ReadyOnce'
         /\ InReady(h)
         /\ \A g \in Greenlets : InReady(g)' <=> InReady(g) /\ g # h
<1>1. ready \in Seq(Greenlets) /\ Distinct(ready) /\ ready # <<>> /\ h = Head(ready)
  BY DEF SlotsInv, SlotsTypeOK, ReadyOnce, Distinct, Drains
<1>2. /\ Tail(ready) \in Seq(Greenlets)
      /\ Distinct(Tail(ready))
      /\ \A y : Occurs(Tail(ready), y) <=> Occurs(ready, y) /\ y # h
  BY <1>1, TailOccurs
<1>3. InReady(h)
  BY <1>1 DEF InReady
<1> QED BY <1>2, <1>3 DEF InReady, Occurs, Distinct, ReadyOnce

(* A running greenlet holds no slots and is not in the queue.              *)
LEMMA RunningFree ==
  ASSUME SlotsInv, NEW g \in Greenlets, Running(g)
  PROVE  ~InReady(g) /\ held[g] = {} /\ phase # "failed"
BY DEF SlotsInv, Running, ReadyMeans, IsDue, WaitShape

(* Creating, ending and starting greenlets keeps the invariant.            *)
LEMMA GreenletStepInv ==
  ASSUME SlotsInv, GreenletStep, UNCHANGED slotVars
  PROVE  SlotsInv'
<1> USE DEF slotVars
<1>1. PICK g \in Greenlets : Finish(g) \/ Raise(g) \/ \E h \in Greenlets : Schedule(g, h)
  BY DEF GreenletStep
<1>2. Running(g)
  BY <1>1 DEF Finish, Raise, Schedule
<1>3. ~InReady(g) /\ held[g] = {} /\ phase # "failed"
  BY <1>2, RunningFree
<1>4. CASE Finish(g) \/ Raise(g)
  <2>1. /\ status' = [status EXCEPT ![g] = "dead"]
        /\ ready' \in {ready, <<>>} /\ (ready' # ready => phase' = "failed")
        /\ activeWaits' = activeWaits
        /\ phase' \in {phase, "failed"}
        /\ UNCHANGED <<stop, sq, inflight>>
    BY <1>4 DEF Finish, Raise
  <2>2. SlotsTypeOK'
    <3>1. <<>> \in Seq(Greenlets)
      OBVIOUS
    <3>2. ready' \in Seq(Greenlets)
      BY <2>1, <3>1 DEF SlotsInv, SlotsTypeOK
    <3>3. status' \in [Greenlets -> Statuses]
      BY <2>1 DEF SlotsInv, SlotsTypeOK, Statuses
    <3> QED BY <2>1, <3>2, <3>3 DEF SlotsInv, SlotsTypeOK, Phases
  <2>3. \A h \in Greenlets : InReady(h)' => InReady(h)
    BY <2>1 DEF InReady
  <2>4. \A h \in Greenlets : (status'[h] = "blocked") <=> (status[h] = "blocked")
    BY <1>2, <2>1 DEF SlotsInv, SlotsTypeOK, Running
  <2>5. ReadyOnce'
    BY <2>1 DEF SlotsInv, ReadyOnce
  <2>6. ReadyMeans'
    BY <1>3, <2>1, <2>3, SlotsKept DEF SlotsInv, SlotsTypeOK, ReadyMeans, IsDue
  <2>7. QueuedWhenDue'
    BY <1>3, <2>1, SlotsKept DEF SlotsInv, SlotsTypeOK, QueuedWhenDue, IsDue, InReady
  <2> QED BY <2>1, <2>2, <2>4, <2>5, <2>6, <2>7, SlotsKept DEF SlotsInv
<1>5. CASE \E h \in Greenlets : Schedule(g, h)
  <2>1. PICK h \in Greenlets : Schedule(g, h)
    BY <1>5
  <2>2. status[h] = "unborn" /\ ~InReady(h)
    BY <2>1 DEF Schedule, SlotsInv, ReadyMeans, IsDue
  <2>3. /\ ready' \in Seq(Greenlets)
        /\ \A k \in Greenlets : InReady(k)' <=> k = h \/ InReady(k)
        /\ ReadyOnce'
    BY <2>1, <2>2, Queued DEF Schedule
  <2>4. SlotsTypeOK'
    BY <2>1, <2>3 DEF Schedule, SlotsInv, SlotsTypeOK, Statuses
  <2>5. \A k \in Greenlets : (status'[k] = "blocked") <=> (status[k] = "blocked")
    BY <2>1, <2>2 DEF Schedule, SlotsInv, SlotsTypeOK
  <2>6. \A k \in Greenlets : k # h => status'[k] = status[k]
    BY <2>1 DEF Schedule, SlotsInv, SlotsTypeOK
  <2>7. status'[h] = "scheduled"
    BY <2>1 DEF Schedule, SlotsInv, SlotsTypeOK
  <2>8. ReadyMeans'
    BY <2>3, <2>6, <2>7, SlotsKept DEF SlotsInv, ReadyMeans, IsDue
  <2>9. QueuedWhenDue'
    BY <2>1, <2>3, <2>6, <2>7, SlotsKept DEF Schedule, SlotsInv, QueuedWhenDue, IsDue
  <2> QED BY <2>1, <2>3, <2>4, <2>5, <2>8, <2>9, SlotsKept DEF Schedule, SlotsInv
<1> QED BY <1>1, <1>4, <1>5

(* So do the loop's own steps.                                             *)
LEMMA LoopStepInv ==
  ASSUME SlotsInv, LoopStep \/ LoopFails \/ RequestStop \/ ReapStop, UNCHANGED slotVars
  PROVE  SlotsInv'
<1> USE DEF slotVars
<1>1. CASE \E g \in Greenlets : RunScheduled(g) \/ SkipDead(g)
  <2>1. PICK g \in Greenlets : RunScheduled(g) \/ SkipDead(g)
    BY <1>1
  <2>2. /\ Drains(g) /\ ready' = Tail(ready)
        /\ status[g] \in {"scheduled", "dead"}
        /\ status' = [status EXCEPT ![g] = IF @ = "dead" THEN "dead" ELSE "running"]
        /\ UNCHANGED <<activeWaits, phase, stop, sq, inflight>>
    BY <2>1 DEF RunScheduled, SkipDead, SlotsInv, SlotsTypeOK
  <2>3. /\ ready' \in Seq(Greenlets) /\ ReadyOnce'
        /\ \A k \in Greenlets : InReady(k)' <=> InReady(k) /\ k # g
    BY <2>2, Drained
  <2>4. \A k \in Greenlets : k # g => status'[k] = status[k]
    BY <2>2 DEF SlotsInv, SlotsTypeOK
  <2>5. status'[g] \in {"running", "dead"}
    BY <2>2 DEF SlotsInv, SlotsTypeOK
  <2>6. SlotsTypeOK'
    BY <2>2, <2>3 DEF SlotsInv, SlotsTypeOK, Statuses
  <2>7. ReadyMeans' /\ QueuedWhenDue'
    BY <2>2, <2>3, <2>4, <2>5, SlotsKept DEF SlotsInv, ReadyMeans, QueuedWhenDue, IsDue
  <2>8. \A k \in Greenlets : (status'[k] = "blocked") <=> (status[k] = "blocked")
    BY <2>2, <2>4, <2>5
  <2> QED BY <2>2, <2>3, <2>6, <2>7, <2>8, SlotsKept DEF SlotsInv
<1>2. CASE ExitIdle \/ SubmitAndWait \/ LoopFails \/ EndBatch \/ RequestStop \/ ReapStop
  <2>1. /\ UNCHANGED <<status, ready, activeWaits>>
        /\ phase' \in Phases /\ (phase = "failed" => phase' = "failed")
        /\ stop' \in {"no", "asked", "seen"}
        /\ sq' \subseteq Sqe /\ inflight' \subseteq Sqe
    BY <1>2 DEF ExitIdle, SubmitAndWait, LoopFails, EndBatch, RequestStop, ReapStop, Submitted,
                Phases, SlotsInv, SlotsTypeOK
  <2>2. SlotsTypeOK'
    BY <2>1 DEF SlotsInv, SlotsTypeOK
  <2>3. ReadyOnce' /\ ReadyMeans' /\ QueuedWhenDue'
    BY <2>1, SlotsKept DEF SlotsInv, ReadyOnce, ReadyMeans, QueuedWhenDue, IsDue, InReady
  <2> QED BY <2>1, <2>2, <2>3, SlotsKept DEF SlotsInv
<1> QED BY <1>1, <1>2 DEF LoopStep

-----------------------------------------------------------------------------
(* Beginning a wait.                                                       *)

(* Releasing a slot and preparing an SQE keep within the types: the        *)
(* generation is taken modulo 2^32.                                        *)
LEMMA TypesKept ==
  ASSUME SlotsTypeOK
  PROVE  /\ \A S \in SUBSET Slots : ReleaseAll(S) \in [Slots -> Slot]
         /\ \A s \in Slots, w \in 0..MaxWaits, link \in BOOLEAN : SqeFor(s, w, link) \in Sqe
         /\ waits < MaxWaits => waits + 1 \in 0..MaxWaits
<1>1. \A a \in Nat : a % GenMod \in 0..GenMod-1
  BY SlotsAssumption
<1>2. \A s \in Slots : slot[s].gen \in 0..GenMod-1 /\ slot[s].gen + 1 \in Nat
  BY SlotsAssumption DEF SlotsTypeOK, Slot
<1>3. \A s \in Slots : Released(s) \in Slot
  BY <1>1, <1>2, SlotsAssumption DEF Released, Slot
<1>4. \A S \in SUBSET Slots : ReleaseAll(S) \in [Slots -> Slot]
  BY <1>3 DEF ReleaseAll, SlotsTypeOK
<1>5. \A s \in Slots, w \in 0..MaxWaits, link \in BOOLEAN : SqeFor(s, w, link) \in Sqe
  BY <1>2 DEF SqeFor, Sqe
<1>6. waits < MaxWaits => waits + 1 \in 0..MaxWaits
  BY SlotsAssumption DEF SlotsTypeOK
<1> QED BY <1>4, <1>5, <1>6

(* A call that takes the slots S, arms every one of them and counts them   *)
(* in active_waits keeps the invariant, whatever shape its wait has.       *)
LEMMA WaitBegins ==
  ASSUME SlotsInv, NEW g \in Greenlets, NEW S \in SUBSET Slots,
         Running(g), S \subseteq free,
         UNCHANGED <<ready, phase>>,
         status' = [status EXCEPT ![g] = "blocked"],
         held' = [held EXCEPT ![g] = S],
         free' = free \ S,
         \A t \in Slots \ S : slot'[t] = slot[t] /\ group'[t] = group[t],
         S # {}, \A s \in S : Armed(s)',
         SingleWait(g)' \/ \E leader \in Slots : GroupWait(g, leader)',
         activeWaits' = activeWaits + Cardinality(S),
         SlotsTypeOK'
  PROVE  SlotsInv'
<1>1. ~InReady(g) /\ held[g] = {} /\ phase # "failed"
  BY RunningFree
<1>2. /\ status \in [Greenlets -> Statuses] /\ held \in [Greenlets -> SUBSET Slots]
      /\ slot \in [Slots -> Slot]
  BY DEF SlotsInv, SlotsTypeOK
<1>3. /\ held'[g] = S /\ status'[g] = "blocked"
      /\ \A h \in Greenlets : h # g => held'[h] = held[h] /\ status'[h] = status[h]
  BY <1>2
<1>4. /\ \A s \in Slots : s \notin free <=> \E h \in Greenlets : s \in held[h]
      /\ \A h, k \in Greenlets : h # k => held[h] \cap held[k] = {}
      /\ \A h \in Greenlets : \A s \in held[h] : slot[s].group # None => slot[s].group \in held[h]
  BY DEF SlotsInv, SlotsConserved
<1>5. \A h \in Greenlets : held[h] \cap S = {}
  BY <1>2, <1>4
<1>6. \A t \in Slots : slot[t].group # None =>
         t \in S \/ slot[t].group \in Slots \ S
  BY <1>2, <1>4, <1>5 DEF SlotsInv, FreeReset
<1>7. \A t \in Slots \ S : Armed(t)' <=> Armed(t)
  BY <1>6 DEF Armed
<1>8. \A s \in S : ~Armed(s)
  BY DEF SlotsInv, FreeReset, Armed
<1>9. ActiveWaitsExact'
  <2>1. ArmedSlots' = ArmedSlots \cup S /\ ArmedSlots \cap S = {}
    BY <1>7, <1>8 DEF ArmedSlots
  <2>2. IsFiniteSet(S) /\ IsFiniteSet(ArmedSlots)
    BY SlotsAssumption, FS_Subset, ArmedFinite
  <2>3. Cardinality(ArmedSlots \cup S) = Cardinality(ArmedSlots) + Cardinality(S)
    BY <2>1, <2>2, AddPart
  <2>4. activeWaits = Cardinality(ArmedSlots)
    BY CountMeans DEF SlotsInv
  <2> QED BY <2>1, <2>3, <2>4 DEF ActiveWaitsExact, ArmedSlots
<1>10. WaitShape'
  <2>1. ASSUME NEW h \in Greenlets, h # g, status[h] = "blocked"
        PROVE  SingleWait(h)' \/ \E leader \in Slots : GroupWait(h, leader)'
    <3>1. \A t \in held[h] : t \in Slots \ S
      BY <1>2, <1>5
    <3>2. CASE SingleWait(h)
      BY <1>3, <2>1, <3>1, <3>2 DEF SingleWait
    <3>3. CASE \E leader \in Slots : GroupWait(h, leader)
      BY <1>3, <2>1, <3>1, <3>3 DEF GroupWait
    <3> QED BY <2>1, <3>2, <3>3 DEF SlotsInv, WaitShape
  <2> QED BY <1>3, <2>1 DEF SlotsInv, WaitShape
<1>11. FreeReset'
  BY DEF SlotsInv, SlotsTypeOK, FreeReset
<1>12. SlotsConserved'
  <2>1. \A s \in Slots : s \notin free' <=> \E h \in Greenlets : s \in held'[h]
    BY <1>1, <1>3, <1>4
  <2>2. \A h, k \in Greenlets : h # k => held'[h] \cap held'[k] = {}
    BY <1>3, <1>4, <1>5
  <2>3. \A h \in Greenlets : \A s \in held'[h] : slot'[s].group # None => slot'[s].group \in held'[h]
    BY <1>10 DEF WaitShape, SingleWait, GroupWait
  <2> QED BY <2>1, <2>2, <2>3 DEF SlotsConserved
<1>13. \A h \in Greenlets : h # g => (Completed(h)' <=> Completed(h))
  BY <1>2, <1>3, <1>5, <1>7 DEF Completed
<1>14. ~Completed(g)'
  BY <1>3 DEF Completed
<1>15. ReadyOnce' /\ ReadyMeans' /\ QueuedWhenDue'
  BY <1>1, <1>3, <1>13, <1>14 DEF SlotsInv, ReadyOnce, ReadyMeans, QueuedWhenDue, IsDue, InReady
<1> QED BY <1>9, <1>10, <1>11, <1>12, <1>15 DEF SlotsInv

(* A slot just taken, pointed at its greenlet or at its group.             *)
LEMMA AcquiredFields ==
  ASSUME SlotsTypeOK, NEW s \in Slots
  PROVE  /\ \A g \in Greenlets :
              /\ [Acquired(s) EXCEPT !.greenlet = g] \in Slot
              /\ [Acquired(s) EXCEPT !.greenlet = g].greenlet = g
              /\ [Acquired(s) EXCEPT !.greenlet = g].group = None
         /\ \A leader \in Slots :
              /\ [Acquired(s) EXCEPT !.group = leader] \in Slot
              /\ [Acquired(s) EXCEPT !.group = leader].greenlet = None
              /\ [Acquired(s) EXCEPT !.group = leader].group = leader
<1>1. slot[s] \in Slot
  BY DEF SlotsTypeOK
<1>2. 0 \in 0..MaxWaits
  BY SlotsAssumption
<1>3. Acquired(s) \in Slot /\ Acquired(s).greenlet = None /\ Acquired(s).group = None
  BY <1>1, <1>2 DEF Acquired, Slot
<1> QED BY <1>3 DEF Slot

(* A wait on one slot.                                                     *)
LEMMA BlockOnSlotInv ==
  ASSUME SlotsInv, NEW g \in Greenlets, NEW s \in Slots, NEW linked \in BOOLEAN,
         BlockOnSlot(g, s, linked)
  PROVE  SlotsInv'
<1>1. /\ BeginsWait(g, waits + 1) /\ s \in free
      /\ slot' = [slot EXCEPT ![s] = [Acquired(s) EXCEPT !.greenlet = g]]
      /\ sq' = sq \cup SingleSqes(s, waits + 1, linked)
      /\ activeWaits' = activeWaits + 1
      /\ BlocksHolding(g, waits + 1, {s})
      /\ group' = group
  BY DEF BlockOnSlot
<1>2. SlotsTypeOK
  BY DEF SlotsInv
<1>3. /\ slot'[s].greenlet = g /\ slot'[s].group = None /\ slot'[s] \in Slot
      /\ \A t \in Slots \ {s} : slot'[t] = slot[t]
      /\ slot' \in [Slots -> Slot]
  BY <1>1, <1>2, AcquiredFields DEF SlotsTypeOK
<1>4. waits + 1 \in 0..MaxWaits /\ sq' \subseteq Sqe
  BY <1>1, <1>2, TypesKept DEF BeginsWait, SingleSqes, SlotsTypeOK
<1>5. SlotsTypeOK'
  <2>1. status' \in [Greenlets -> Statuses]
    BY <1>1, <1>2 DEF BlocksHolding, SlotsTypeOK, Statuses
  <2>2. held' \in [Greenlets -> SUBSET Slots] /\ free' \subseteq Slots
    BY <1>1, <1>2 DEF BlocksHolding, SlotsTypeOK
  <2>3. wait' \in [Greenlets -> 0..MaxWaits] /\ waits' \in 0..MaxWaits
    BY <1>1, <1>2, <1>4 DEF BlocksHolding, BeginsWait, SlotsTypeOK
  <2>4. activeWaits' \in Nat
    BY <1>1, <1>2 DEF SlotsTypeOK
  <2> QED BY <1>1, <1>2, <1>3, <1>4, <2>1, <2>2, <2>3, <2>4 DEF BeginsWait, SlotsTypeOK
<1>6. Armed(s)'
  BY <1>3, SlotsAssumption DEF Armed
<1>7. held'[g] = {s}
  BY <1>1, <1>2 DEF BlocksHolding, SlotsTypeOK
<1>8. SingleWait(g)'
  BY <1>3, <1>7 DEF SingleWait
<1>9. activeWaits' = activeWaits + Cardinality({s})
  BY <1>1, FS_Singleton
<1>10. /\ {s} \in SUBSET Slots /\ {s} \subseteq free /\ {s} # {}
       /\ \A t \in {s} : Armed(t)'
       /\ \A t \in Slots \ {s} : slot'[t] = slot[t] /\ group'[t] = group[t]
  BY <1>1, <1>3, <1>6
<1>11. /\ Running(g) /\ UNCHANGED <<ready, phase>>
       /\ status' = [status EXCEPT ![g] = "blocked"]
       /\ held' = [held EXCEPT ![g] = {s}]
       /\ free' = free \ {s}
  BY <1>1 DEF BeginsWait, BlocksHolding
<1> QED BY <1>5, <1>8, <1>9, <1>10, <1>11, WaitBegins

(* A wait on a group of slots.                                             *)
LEMMA PollMultiInv ==
  ASSUME SlotsInv, NEW g \in Greenlets, NEW S \in SUBSET Slots, NEW leader \in S,
         PollMulti(g, S, leader)
  PROVE  SlotsInv'
<1>1. /\ BeginsWait(g, waits + 1) /\ S \subseteq free
      /\ slot' = [s \in Slots |->
                    IF s \in S THEN [Acquired(s) EXCEPT !.group = leader] ELSE slot[s]]
      /\ group' = [group EXCEPT ![leader] =
                     [resumed |-> FALSE, greenlet |-> g, n |-> Cardinality(S)]]
      /\ sq' = sq \cup {SqeFor(s, waits + 1, FALSE) : s \in S}
      /\ activeWaits' = activeWaits + Cardinality(S)
      /\ BlocksHolding(g, waits + 1, S)
  BY DEF PollMulti
<1>2. SlotsTypeOK /\ leader \in Slots
  BY DEF SlotsInv
<1>3. /\ \A s \in S : slot'[s].group = leader /\ slot'[s].greenlet = None
      /\ \A t \in Slots \ S : slot'[t] = slot[t]
      /\ slot' \in [Slots -> Slot]
  BY <1>1, <1>2, AcquiredFields DEF SlotsTypeOK
<1>4. Cardinality(S) \in Nat
  BY SlotsAssumption, FS_Subset, FS_CardinalityType
<1>5. /\ group'[leader] = [resumed |-> FALSE, greenlet |-> g, n |-> Cardinality(S)]
      /\ \A t \in Slots \ S : group'[t] = group[t]
      /\ group' \in [Slots -> Group]
  BY <1>1, <1>2, <1>4 DEF SlotsTypeOK, Group
<1>6. waits + 1 \in 0..MaxWaits /\ sq' \subseteq Sqe
  BY <1>1, <1>2, TypesKept DEF BeginsWait, SlotsTypeOK
<1>7. SlotsTypeOK'
  <2>1. status' \in [Greenlets -> Statuses]
    BY <1>1, <1>2 DEF BlocksHolding, SlotsTypeOK, Statuses
  <2>2. held' \in [Greenlets -> SUBSET Slots] /\ free' \subseteq Slots
    BY <1>1, <1>2 DEF BlocksHolding, SlotsTypeOK
  <2>3. wait' \in [Greenlets -> 0..MaxWaits] /\ waits' \in 0..MaxWaits
    BY <1>1, <1>2, <1>6 DEF BlocksHolding, BeginsWait, SlotsTypeOK
  <2>4. activeWaits' \in Nat
    BY <1>1, <1>2, <1>4 DEF SlotsTypeOK
  <2> QED BY <1>1, <1>2, <1>3, <1>5, <1>6, <2>1, <2>2, <2>3, <2>4 DEF BeginsWait, SlotsTypeOK
<1>8. \A s \in S : Armed(s)'
  BY <1>2, <1>3, <1>5, SlotsAssumption DEF Armed
<1>9. held'[g] = S
  BY <1>1, <1>2 DEF BlocksHolding, SlotsTypeOK
<1>10. GroupWait(g, leader)'
  BY <1>3, <1>5, <1>9 DEF GroupWait
<1> QED BY <1>1, <1>2, <1>3, <1>5, <1>7, <1>8, <1>10, WaitBegins DEF BeginsWait, BlocksHolding

(* A step that changes neither who waits on a slot nor the queue keeps the *)
(* invariant.                                                              *)
LEMMA SlotsSame ==
  ASSUME SlotsInv, SlotsTypeOK',
         UNCHANGED <<status, ready, activeWaits, group, free, held>>,
         (phase' = "failed") <=> (phase = "failed"),
         \A s \in Slots : slot'[s].greenlet = slot[s].greenlet /\ slot'[s].group = slot[s].group
  PROVE  SlotsInv'
<1>1. \A s \in Slots : Armed(s)' <=> Armed(s)
  BY DEF Armed
<1>2. ArmedSlots' = ArmedSlots
  BY <1>1 DEF ArmedSlots
<1>3. ActiveWaitsExact'
  BY <1>2, CountMeans DEF SlotsInv, ActiveWaitsExact, ArmedSlots
<1>4. FreeReset'
  BY DEF SlotsInv, FreeReset, SlotsTypeOK
<1>5. \A g \in Greenlets : held[g] \subseteq Slots
  BY DEF SlotsInv, SlotsTypeOK
<1>6. SlotsConserved'
  BY <1>5 DEF SlotsInv, SlotsConserved
<1>7. WaitShape'
  BY <1>5 DEF SlotsInv, WaitShape, SingleWait, GroupWait
<1>8. \A g \in Greenlets : Completed(g)' <=> Completed(g)
  BY <1>1, <1>5 DEF Completed
<1>9. ReadyOnce' /\ ReadyMeans' /\ QueuedWhenDue'
  BY <1>8 DEF SlotsInv, ReadyOnce, ReadyMeans, QueuedWhenDue, IsDue, InReady
<1> QED BY <1>3, <1>4, <1>6, <1>7, <1>9 DEF SlotsInv

(* A call that fails gives back free slots only: nothing is armed or held  *)
(* that was not before.                                                    *)
LEMMA FailedCall ==
  ASSUME SlotsInv, NEW S \in SUBSET Slots, S \subseteq free,
         waits < MaxWaits, waits' = waits + 1,
         UNCHANGED <<ready, phase, stop, inflight>>,
         slot' = ReleaseAll(S), sq' \subseteq Sqe, FailsToBegin
  PROVE  SlotsInv'
<1> USE DEF FailsToBegin
<1>1. SlotsTypeOK
  BY DEF SlotsInv
<1>2. /\ slot' \in [Slots -> Slot] /\ waits' \in 0..MaxWaits
  BY <1>1, TypesKept
<1>3. SlotsTypeOK'
  BY <1>1, <1>2 DEF SlotsTypeOK
<1>4. \A s \in Slots : slot'[s].greenlet = slot[s].greenlet /\ slot'[s].group = slot[s].group
  BY <1>1 DEF SlotsInv, FreeReset, ReleaseAll, Released
<1> QED BY <1>3, <1>4, SlotsSame

(* Every way a call fails to begin its wait.                               *)
LEMMA FailedCallsInv ==
  ASSUME SlotsInv, NEW g \in Greenlets,
         \/ \E s \in Slots, linked \in BOOLEAN : BlockOnSlotFails(g, s, linked)
         \/ \E S \in SUBSET Slots : \E Q \in SUBSET S : PollMultiFails(g, S, Q)
         \/ PollMultiExhausts(g)
  PROVE  SlotsInv'
<1>1. SlotsTypeOK /\ sq \subseteq Sqe /\ free \in SUBSET Slots
  BY DEF SlotsInv, SlotsTypeOK
<1>2. CASE \E s \in Slots, linked \in BOOLEAN : BlockOnSlotFails(g, s, linked)
  <2>1. PICK s \in Slots, linked \in BOOLEAN : BlockOnSlotFails(g, s, linked)
    BY <1>2
  <2>2. waits < MaxWaits => SqeFor(s, waits + 1, FALSE) \in Sqe
    BY <1>1, TypesKept
  <2>3. sq' \subseteq Sqe
    BY <1>1, <2>1, <2>2 DEF BlockOnSlotFails, BeginsWait
  <2>4. {s} \in SUBSET Slots /\ {s} \subseteq free
    BY <2>1 DEF BlockOnSlotFails
  <2> QED BY <2>1, <2>3, <2>4, FailedCall DEF BlockOnSlotFails, BeginsWait
<1>3. CASE \E S \in SUBSET Slots : \E Q \in SUBSET S : PollMultiFails(g, S, Q)
  <2>1. PICK S \in SUBSET Slots : \E Q \in SUBSET S : PollMultiFails(g, S, Q)
    BY <1>3
  <2>2. PICK Q \in SUBSET S : PollMultiFails(g, S, Q)
    BY <2>1
  <2>3. waits < MaxWaits => \A s \in Q : SqeFor(s, waits + 1, FALSE) \in Sqe
    BY <1>1, TypesKept
  <2>4. sq' \subseteq Sqe
    BY <1>1, <2>2, <2>3 DEF PollMultiFails, BeginsWait
  <2> QED BY <2>2, <2>4, FailedCall DEF PollMultiFails, BeginsWait
<1>4. CASE PollMultiExhausts(g)
  BY <1>1, <1>4, FailedCall DEF PollMultiExhausts, BeginsWait
<1> QED BY <1>2, <1>3, <1>4

-----------------------------------------------------------------------------
(* Reaping a completion.                                                   *)

(* Two waits never share a slot or a poll group.                           *)
LEMMA WaitsApart ==
  ASSUME SlotsInv, NEW g \in Greenlets, NEW s \in held[g]
  PROVE  /\ s \in Slots /\ status[g] = "blocked"
         /\ \A h \in Greenlets : s \in held[h] => h = g
         /\ \/ slot[s].group = None /\ held[g] = {s} /\ slot[s].greenlet \in {g, None}
            \/ /\ GroupWait(g, slot[s].group)
               /\ slot[s].group \in held[g] /\ slot[s].group # None
<1>1. held[g] \subseteq Slots
  BY DEF SlotsInv, SlotsTypeOK
<1>2. s \in Slots /\ status[g] = "blocked"
  BY <1>1 DEF SlotsInv, WaitShape
<1>3. \A h \in Greenlets : s \in held[h] => h = g
  BY DEF SlotsInv, SlotsConserved
<1>4. SingleWait(g) \/ \E leader \in Slots : GroupWait(g, leader)
  BY <1>2 DEF SlotsInv, WaitShape
<1> QED BY <1>1, <1>2, <1>3, <1>4, SlotsAssumption DEF SingleWait, GroupWait

(* A slot that is armed, or that points at a group, is held by a suspended *)
(* greenlet.                                                               *)
LEMMA HeldWhenUsed ==
  ASSUME SlotsInv, NEW s \in Slots, slot[s].greenlet # None \/ slot[s].group # None
  PROVE  \E g \in Greenlets : s \in held[g]
BY DEF SlotsInv, FreeReset, SlotsConserved

(* What a reaping step leaves alone, and the type of what it changes.      *)
LEMMA ReapTypes ==
  ASSUME SlotsInv, NEW e, Reaps(e), NEW g \in Greenlets \cup {None},
         ready' \in Seq(Greenlets), activeWaits' \in Nat,
         slot' = [slot EXCEPT ![e.slot].result = e.wait, ![e.slot].greenlet = g],
         group' \in [Slots -> Group]
  PROVE  /\ SlotsTypeOK'
         /\ e.slot \in Slots
         /\ (phase' = "failed" <=> phase = "failed")
<1>1. SlotsTypeOK
  BY DEF SlotsInv
<1>2. e \in Sqe
  BY <1>1 DEF SlotsTypeOK, Reaps
<1>3. e.slot \in Slots /\ e.wait \in 0..MaxWaits
  BY <1>2 DEF Sqe
<1>4. slot' \in [Slots -> Slot]
  <2>1. slot[e.slot] \in Slot
    BY <1>1, <1>3 DEF SlotsTypeOK
  <2>2. [slot[e.slot] EXCEPT !.result = e.wait, !.greenlet = g] \in Slot
    BY <1>3, <2>1 DEF Slot
  <2>3. slot' = [slot EXCEPT ![e.slot] = [slot[e.slot] EXCEPT !.result = e.wait, !.greenlet = g]]
    BY <1>1, <1>3 DEF SlotsTypeOK
  <2> QED BY <1>1, <1>3, <2>2, <2>3 DEF SlotsTypeOK
<1> QED BY <1>1, <1>3, <1>4 DEF SlotsTypeOK, Reaps, Phases

(* What a wait that no completion has ended yet counts for can be taken    *)
(* off active_waits.                                                       *)
LEMMA WaitCounted ==
  ASSUME SlotsInv, NEW P \in SUBSET ArmedSlots
  PROVE  /\ activeWaits - Cardinality(P) \in Nat
         /\ activeWaits - Cardinality(P) = Cardinality(ArmedSlots \ P)
<1>1. activeWaits = Cardinality(ArmedSlots)
  BY CountMeans DEF SlotsInv
<1>2. /\ Cardinality(ArmedSlots \ P) = Cardinality(ArmedSlots) - Cardinality(P)
      /\ Cardinality(ArmedSlots \ P) \in Nat
  BY ArmedFinite, RemovePart
<1> QED BY <1>1, <1>2

(* A greenlet with an unfinished operation has no turn coming.             *)
LEMMA NotQueuedYet ==
  ASSUME SlotsInv, NEW g \in Greenlets, NEW s \in held[g], Armed(s)
  PROVE  ~InReady(g) /\ status[g] = "blocked"
<1>1. status[g] = "blocked"
  BY WaitsApart
<1>2. ~Completed(g)
  BY DEF Completed
<1> QED BY <1>1, <1>2 DEF SlotsInv, ReadyMeans, IsDue

(* The completion that ends the wait of g disarms every slot of the wait,  *)
(* takes them off active_waits and queues g.                               *)
LEMMA WaitEnds ==
  ASSUME SlotsInv, NEW g \in Greenlets,
         held[g] # {}, held[g] \subseteq ArmedSlots,
         UNCHANGED <<status, free, held>>, (phase' = "failed") <=> (phase = "failed"),
         ready' = Append(ready, g),
         activeWaits' = activeWaits - Cardinality(held[g]),
         \A t \in Slots \ held[g] : slot'[t] = slot[t] /\ group'[t] = group[t],
         \A s \in held[g] : ~Armed(s)',
         SingleWait(g)' \/ \E leader \in Slots : GroupWait(g, leader)',
         SlotsTypeOK'
  PROVE  SlotsInv'
<1>1. ~InReady(g) /\ status[g] = "blocked"
  BY NotQueuedYet DEF ArmedSlots
<1>2. /\ \A h \in Greenlets : InReady(h)' <=> h = g \/ InReady(h)
      /\ ReadyOnce'
  BY <1>1, Queued
<1>3. /\ \A h, k \in Greenlets : h # k => held[h] \cap held[k] = {}
      /\ \A h \in Greenlets : held[h] \subseteq Slots
  BY DEF SlotsInv, SlotsConserved, SlotsTypeOK
<1>4. \A t \in Slots \ held[g] : slot[t].group # None => slot[t].group \in Slots \ held[g]
  <2>1. SUFFICES ASSUME NEW t \in Slots \ held[g], slot[t].group # None
                 PROVE  slot[t].group \in Slots \ held[g]
    OBVIOUS
  <2>2. PICK h \in Greenlets : t \in held[h]
    BY <2>1, HeldWhenUsed
  <2>3. slot[t].group \in held[h] /\ h # g
    BY <2>1, <2>2 DEF SlotsInv, SlotsConserved
  <2> QED BY <1>3, <2>3
<1>5. \A t \in Slots \ held[g] : Armed(t)' <=> Armed(t)
  BY <1>4 DEF Armed
<1>6. ActiveWaitsExact'
  <2>1. ArmedSlots' = ArmedSlots \ held[g]
    BY <1>3, <1>5 DEF ArmedSlots
  <2> QED BY <2>1, WaitCounted DEF ActiveWaitsExact, ArmedSlots
<1>7. WaitShape'
  <2>1. ASSUME NEW h \in Greenlets, h # g, status[h] = "blocked"
        PROVE  SingleWait(h)' \/ \E leader \in Slots : GroupWait(h, leader)'
    <3>1. \A t \in held[h] : t \in Slots \ held[g]
      BY <1>3, <2>1
    <3>2. CASE SingleWait(h)
      BY <3>1, <3>2 DEF SingleWait
    <3>3. CASE \E leader \in Slots : GroupWait(h, leader)
      BY <3>1, <3>3 DEF GroupWait
    <3> QED BY <2>1, <3>2, <3>3 DEF SlotsInv, WaitShape
  <2> QED BY <1>1, <2>1 DEF SlotsInv, WaitShape
<1>8. FreeReset'
  <2>1. \A s \in free : s \in Slots \ held[g]
    BY DEF SlotsInv, SlotsTypeOK, SlotsConserved
  <2> QED BY <2>1 DEF SlotsInv, FreeReset
<1>9. SlotsConserved'
  <2>1. \A h \in Greenlets : \A s \in held'[h] : slot'[s].group # None => slot'[s].group \in held'[h]
    BY <1>7 DEF WaitShape, SingleWait, GroupWait
  <2> QED BY <2>1 DEF SlotsInv, SlotsConserved
<1>10. Completed(g)' /\ \A h \in Greenlets : h # g => (Completed(h)' <=> Completed(h))
  BY <1>3, <1>5 DEF Completed
<1>11. ReadyMeans' /\ QueuedWhenDue'
  BY <1>1, <1>2, <1>10 DEF SlotsInv, ReadyMeans, QueuedWhenDue, IsDue
<1> QED BY <1>2, <1>6, <1>7, <1>8, <1>9, <1>11 DEF SlotsInv

(* A completion whose slot was released since: nothing happens.            *)
LEMMA ReapStaleInv ==
  ASSUME SlotsInv, NEW e, ReapStale(e)
  PROVE  SlotsInv'
<1>1. SlotsTypeOK' /\ ((phase' = "failed") <=> (phase = "failed"))
  BY DEF SlotsInv, SlotsTypeOK, ReapStale, Reaps, Phases
<1> QED BY <1>1, SlotsSame DEF ReapStale, Reaps

(* The completion of a wait on one slot.                                   *)
LEMMA ReapSingleInv ==
  ASSUME SlotsInv, NEW e, ReapSingle(e)
  PROVE  SlotsInv'
<1> DEFINE s == e.slot
<1>1. /\ Reaps(e) /\ slot[s].group = None /\ group' = group
      /\ slot' = [slot EXCEPT ![s].result = e.wait, ![s].greenlet = None]
      /\ \/ slot[s].greenlet = None /\ UNCHANGED <<ready, activeWaits>>
         \/ /\ slot[s].greenlet # None
            /\ ready' = Append(ready, slot[s].greenlet)
            /\ activeWaits' = activeWaits - 1
  BY DEF ReapSingle
<1>2. SlotsTypeOK /\ s \in Slots /\ ((phase' = "failed") <=> (phase = "failed"))
  BY <1>1 DEF SlotsInv, SlotsTypeOK, Reaps, Phases, Sqe
<1>3. /\ slot[s] \in Slot
      /\ slot'[s].greenlet = None /\ slot'[s].group = None
      /\ \A t \in Slots \ {s} : slot'[t] = slot[t]
  BY <1>1, <1>2 DEF SlotsTypeOK, Slot
<1>4. CASE slot[s].greenlet = None
  <2>1. SlotsTypeOK'
    BY <1>1, <1>2, <1>4, ReapTypes DEF SlotsTypeOK
  <2> QED BY <1>1, <1>2, <1>3, <1>4, <2>1, SlotsSame DEF Reaps
<1>5. CASE slot[s].greenlet # None
  <2>1. PICK g \in Greenlets : s \in held[g]
    BY <1>2, <1>5, HeldWhenUsed
  <2>2. slot[s].greenlet = g /\ held[g] = {s}
    BY <1>1, <1>5, <2>1, WaitsApart
  <2>3. s \in ArmedSlots /\ Cardinality(held[g]) = 1
    BY <1>2, <1>5, <2>2, FS_Singleton DEF ArmedSlots, Armed
  <2>4. ready' = Append(ready, g) /\ activeWaits' = activeWaits - Cardinality(held[g])
    BY <1>1, <1>5, <2>2, <2>3
  <2>5. ready' \in Seq(Greenlets) /\ activeWaits' \in Nat
    BY <2>2, <2>3, <2>4, Queued, WaitCounted
  <2>6. SlotsTypeOK'
    BY <1>1, <1>2, <2>5, ReapTypes DEF SlotsTypeOK
  <2>7. ~Armed(s)'
    BY <1>3 DEF Armed
  <2>8. held' = held
    BY <1>1 DEF Reaps
  <2>9. SingleWait(g)'
    BY <1>2, <1>3, <2>2, <2>8 DEF SingleWait
  <2> QED BY <1>1, <1>2, <1>3, <2>2, <2>3, <2>4, <2>6, <2>7, <2>9, WaitEnds DEF Reaps
<1> QED BY <1>4, <1>5

(* The completion of one operation of a group wait.                        *)
LEMMA ReapGroupedInv ==
  ASSUME SlotsInv, NEW e, ReapGrouped(e)
  PROVE  SlotsInv'
<1> DEFINE s == e.slot
<1>0. PICK leader : leader = slot[s].group
  OBVIOUS
<1>1. /\ Reaps(e) /\ leader # None
      /\ slot' = [slot EXCEPT ![s].result = e.wait]
      /\ \/ group[leader].resumed /\ UNCHANGED <<group, ready, activeWaits>>
         \/ /\ ~group[leader].resumed
            /\ group' = [group EXCEPT ![leader].resumed = TRUE]
            /\ ready' = Append(ready, group[leader].greenlet)
            /\ activeWaits' = activeWaits - group[leader].n
  BY <1>0 DEF ReapGrouped
<1>2. SlotsTypeOK /\ s \in Slots /\ e.wait \in 0..MaxWaits
  BY <1>1 DEF SlotsInv, SlotsTypeOK, Reaps, Sqe
<1>3. PICK g \in Greenlets : s \in held[g]
  BY <1>0, <1>1, <1>2, HeldWhenUsed
<1>4. /\ GroupWait(g, leader) /\ leader \in held[g] /\ leader \in Slots /\ held[g] \subseteq Slots
  BY <1>0, <1>1, <1>2, <1>3, WaitsApart DEF SlotsTypeOK
<1>5. /\ \A t \in Slots : slot'[t].group = slot[t].group /\ slot'[t].greenlet = slot[t].greenlet
      /\ \A t \in Slots \ {s} : slot'[t] = slot[t]
      /\ slot' = [slot EXCEPT ![s].result = e.wait, ![s].greenlet = slot[s].greenlet]
      /\ slot[s].greenlet \in Greenlets \cup {None}
  <2>1. slot[s] \in Slot
    BY <1>2 DEF SlotsTypeOK
  <2>2. [slot[s] EXCEPT !.result = e.wait] = [slot[s] EXCEPT !.result = e.wait, !.greenlet = slot[s].greenlet]
    BY <2>1 DEF Slot
  <2> QED BY <1>1, <1>2, <2>1, <2>2 DEF SlotsTypeOK, Slot
<1>6. (phase' = "failed") <=> (phase = "failed")
  BY <1>1 DEF SlotsInv, SlotsTypeOK, Reaps, Phases
<1>7. CASE group[leader].resumed
  <2>1. UNCHANGED <<group, ready, activeWaits>>
    BY <1>1, <1>7
  <2>2. SlotsTypeOK'
    BY <1>1, <1>2, <1>5, <2>1, ReapTypes DEF SlotsTypeOK
  <2> QED BY <1>1, <1>5, <1>6, <2>1, <2>2, SlotsSame DEF Reaps
<1>8. CASE ~group[leader].resumed
  <2>1. /\ group' = [group EXCEPT ![leader].resumed = TRUE]
        /\ ready' = Append(ready, g)
        /\ activeWaits' = activeWaits - Cardinality(held[g])
    BY <1>1, <1>4, <1>8 DEF GroupWait
  <2>2. held[g] \subseteq ArmedSlots
    BY <1>1, <1>4, <1>8 DEF GroupWait, ArmedSlots, Armed
  <2>3. group[leader] \in Group
    BY <1>2, <1>4 DEF SlotsTypeOK
  <2>4. /\ group' \in [Slots -> Group]
        /\ group'[leader].resumed /\ group'[leader].greenlet = group[leader].greenlet
        /\ group'[leader].n = group[leader].n
        /\ \A t \in Slots \ {leader} : group'[t] = group[t]
    BY <1>2, <1>4, <2>1, <2>3 DEF SlotsTypeOK, Group
  <2>5. ready' \in Seq(Greenlets) /\ activeWaits' \in Nat
    BY <2>1, <2>2, Queued, WaitCounted
  <2>6. SlotsTypeOK'
    BY <1>1, <1>5, <2>4, <2>5, ReapTypes
  <2>7. held' = held
    BY <1>1 DEF Reaps
  <2>8. \A t \in held[g] : slot'[t].group = leader /\ slot'[t].greenlet = None
    BY <1>4, <1>5 DEF GroupWait
  <2>12. GroupWait(g, leader)'
    BY <1>4, <2>4, <2>7, <2>8 DEF GroupWait
  <2>9. \A t \in held[g] : ~Armed(t)'
    BY <2>4, <2>8 DEF Armed
  <2>10. \A t \in Slots \ held[g] : slot'[t] = slot[t] /\ group'[t] = group[t]
    BY <1>3, <1>4, <1>5, <2>4
  <2>11. held[g] # {} /\ \E l \in Slots : GroupWait(g, l)'
    BY <1>3, <1>4, <2>12
  <2> QED BY <1>1, <1>6, <2>1, <2>2, <2>6, <2>9, <2>10, <2>11, WaitEnds DEF Reaps
<1> QED BY <1>7, <1>8

-----------------------------------------------------------------------------
(* Ending a wait.                                                          *)

(* What a wait still counts for is the number of its armed slots.          *)
LEMMA StillCountedMeans ==
  ASSUME SlotsInv, NEW v \in Greenlets, status[v] = "blocked"
  PROVE  StillCounted(v) = Cardinality(ArmedSlots \cap held[v])
<1>1. held[v] \subseteq Slots
  BY DEF SlotsInv, SlotsTypeOK
<1>2. SingleWait(v) \/ \E leader \in Slots : GroupWait(v, leader)
  BY DEF SlotsInv, WaitShape
<1>3. CASE SingleWait(v)
  <2>1. ~IsGroupWait(v)
    BY <1>3 DEF SingleWait, IsGroupWait
  <2>2. {s \in held[v] : slot[s].greenlet # None} = ArmedSlots \cap held[v]
    BY <1>1, <1>3 DEF SingleWait, ArmedSlots, Armed
  <2> QED BY <2>1, <2>2 DEF StillCounted
<1>4. CASE \E leader \in Slots : GroupWait(v, leader)
  <2>1. PICK leader \in Slots : GroupWait(v, leader)
    BY <1>4
  <2>2. IsGroupWait(v)
    BY <2>1, SlotsAssumption DEF GroupWait, IsGroupWait
  <2>3. CASE \E s \in held[v] : Armed(s)
    <3>1. ArmedSlots \cap held[v] = held[v]
      BY <1>1, <2>1, <2>3, SlotsAssumption DEF GroupWait, ArmedSlots, Armed
    <3> QED BY <2>2, <2>3, <3>1 DEF StillCounted
  <2>4. CASE ~\E s \in held[v] : Armed(s)
    <3>1. ArmedSlots \cap held[v] = {}
      BY <2>4 DEF ArmedSlots
    <3> QED BY <2>2, <2>4, <3>1, FS_EmptySet DEF StillCounted
  <2> QED BY <2>3, <2>4
<1> QED BY <1>2, <1>3, <1>4

(* A call that gives its slots back, once it has been taken off            *)
(* active_waits, leaves the slots as the invariant wants them.             *)
LEMMA GivenBack ==
  ASSUME SlotsInv, NEW v \in Greenlets, status[v] = "blocked", GivesBackSlots(v),
         status'[v] # "blocked",
         \A g \in Greenlets \ {v} : (status'[g] = "blocked") <=> (status[g] = "blocked"),
         activeWaits' = activeWaits - Cardinality(ArmedSlots \cap held[v])
  PROVE  /\ SlotsConserved' /\ WaitShape' /\ FreeReset' /\ ActiveWaitsExact'
         /\ activeWaits' \in Nat
         /\ \A g \in Greenlets \ {v} : Completed(g)' <=> Completed(g)
         /\ slot' \in [Slots -> Slot] /\ free' \subseteq Slots
         /\ held' \in [Greenlets -> SUBSET Slots]
         /\ sq' \subseteq Sqe /\ inflight' \subseteq Sqe
<1>1. /\ slot' = ReleaseAll(held[v]) /\ free' = free \cup held[v]
      /\ held' = [held EXCEPT ![v] = {}] /\ group' = group
  BY DEF GivesBackSlots
<1>2. /\ SlotsTypeOK
      /\ \A g \in Greenlets : held[g] \subseteq Slots
      /\ \A g, h \in Greenlets : g # h => held[g] \cap held[h] = {}
  BY DEF SlotsInv, SlotsTypeOK, SlotsConserved
<1>3. /\ slot' \in [Slots -> Slot] /\ free' \subseteq Slots
      /\ held' \in [Greenlets -> SUBSET Slots]
  BY <1>1, <1>2, TypesKept DEF SlotsTypeOK
<1>4. sq' \subseteq Sqe /\ inflight' \subseteq Sqe
  BY <1>2 DEF GivesBackSlots, SlotsTypeOK, Submitted
<1>5. /\ \A s \in held[v] : slot'[s].greenlet = None /\ slot'[s].group = None
      /\ \A s \in Slots \ held[v] : slot'[s] = slot[s]
      /\ held'[v] = {} /\ \A g \in Greenlets \ {v} : held'[g] = held[g]
  BY <1>1, <1>2 DEF ReleaseAll, Released, SlotsTypeOK
<1>6. \A s \in Slots \ held[v] : Armed(s)' <=> Armed(s)
  BY <1>1, <1>5 DEF Armed
<1>7. ArmedSlots' = ArmedSlots \ held[v]
  BY <1>2, <1>5, <1>6 DEF ArmedSlots, Armed
<1>8. ActiveWaitsExact' /\ activeWaits' \in Nat
  <2>1. ArmedSlots \ (ArmedSlots \cap held[v]) = ArmedSlots \ held[v]
    OBVIOUS
  <2> QED BY <1>7, <2>1, WaitCounted DEF ActiveWaitsExact, ArmedSlots
<1>9. FreeReset'
  BY <1>1, <1>5 DEF SlotsInv, FreeReset, SlotsTypeOK
<1>10. WaitShape'
  <2>1. ASSUME NEW g \in Greenlets \ {v}, status[g] = "blocked"
        PROVE  SingleWait(g)' \/ \E leader \in Slots : GroupWait(g, leader)'
    <3>1. held'[g] = held[g] /\ held[g] \subseteq Slots \ held[v]
      BY <1>2, <1>5
    <3>2. CASE SingleWait(g)
      BY <1>5, <3>1, <3>2 DEF SingleWait
    <3>3. CASE \E leader \in Slots : GroupWait(g, leader)
      BY <1>1, <1>5, <3>1, <3>3 DEF GroupWait
    <3> QED BY <2>1, <3>2, <3>3 DEF SlotsInv, WaitShape
  <2> QED BY <1>5, <2>1 DEF SlotsInv, WaitShape
<1>11. SlotsConserved'
  <2>1. \A s \in Slots : s \notin free' <=> \E g \in Greenlets : s \in held'[g]
    BY <1>1, <1>2, <1>5 DEF SlotsInv, SlotsConserved
  <2>2. \A g, h \in Greenlets : g # h => held'[g] \cap held'[h] = {}
    BY <1>2, <1>5
  <2>3. \A g \in Greenlets : \A s \in held'[g] : slot'[s].group # None => slot'[s].group \in held'[g]
    BY <1>5, <1>10 DEF WaitShape, SingleWait, GroupWait
  <2> QED BY <2>1, <2>2, <2>3 DEF SlotsConserved
<1>12. \A g \in Greenlets \ {v} : Completed(g)' <=> Completed(g)
  <2>1. \A g \in Greenlets \ {v} : held'[g] = held[g] /\ held[g] \subseteq Slots \ held[v]
    BY <1>2, <1>5
  <2> QED BY <1>6, <2>1 DEF Completed
<1> QED BY <1>3, <1>4, <1>8, <1>9, <1>10, <1>11, <1>12

(* A completed wait returns.                                               *)
LEMMA ResumeWaiterInv ==
  ASSUME SlotsInv, NEW g \in Greenlets, ResumeWaiter(g)
  PROVE  SlotsInv'
<1>1. /\ Drains(g) /\ status[g] = "blocked" /\ ready' = Tail(ready)
      /\ status' = [status EXCEPT ![g] = "running"]
      /\ GivesBackSlots(g) /\ UNCHANGED <<activeWaits, phase, stop>>
  BY DEF ResumeWaiter
<1>2. /\ ready' \in Seq(Greenlets) /\ ReadyOnce' /\ InReady(g)
      /\ \A h \in Greenlets : InReady(h)' <=> InReady(h) /\ h # g
  BY <1>1, Drained
<1>3. Completed(g)
  BY <1>1, <1>2 DEF SlotsInv, ReadyMeans, IsDue
<1>4. Cardinality(ArmedSlots \cap held[g]) = 0 /\ activeWaits \in Nat
  <2>1. ArmedSlots \cap held[g] = {}
    BY <1>3 DEF Completed, ArmedSlots
  <2> QED BY <2>1, FS_EmptySet DEF SlotsInv, SlotsTypeOK
<1>5. /\ status' \in [Greenlets -> Statuses] /\ status'[g] = "running"
      /\ \A h \in Greenlets \ {g} : status'[h] = status[h]
  BY <1>1 DEF SlotsInv, SlotsTypeOK, Statuses
<1>6. /\ SlotsConserved' /\ WaitShape' /\ FreeReset' /\ ActiveWaitsExact'
      /\ \A h \in Greenlets \ {g} : Completed(h)' <=> Completed(h)
      /\ slot' \in [Slots -> Slot] /\ free' \subseteq Slots
      /\ held' \in [Greenlets -> SUBSET Slots]
      /\ sq' \subseteq Sqe /\ inflight' \subseteq Sqe
  BY <1>1, <1>4, <1>5, GivenBack
<1>7. SlotsTypeOK'
  BY <1>1, <1>2, <1>5, <1>6 DEF GivesBackSlots, SlotsInv, SlotsTypeOK
<1>8. ReadyMeans' /\ QueuedWhenDue'
  BY <1>1, <1>2, <1>5, <1>6 DEF SlotsInv, ReadyMeans, QueuedWhenDue, IsDue
<1> QED BY <1>2, <1>6, <1>7, <1>8 DEF SlotsInv

(* A waiter that another greenlet throws into gives its slots back and     *)
(* ends.                                                                   *)
LEMMA ThrowInv ==
  ASSUME SlotsInv, NobodySurvives, NEW k \in Greenlets, NEW v \in Greenlets, Throw(k, v)
  PROVE  SlotsInv'
<1>1. /\ Running(k) /\ status[v] = "blocked" /\ ready' = Append(ready, k)
      /\ status' = [status EXCEPT ![k] = "scheduled", ![v] = "dead"]
      /\ UNCHANGED <<phase, stop>>
      /\ activeWaits' = activeWaits - StillCounted(v) /\ GivesBackSlots(v)
  BY LoopAssumption DEF Throw, ThrowsInto, NobodySurvives
<1>2. k # v /\ ~InReady(k) /\ held[k] = {} /\ phase # "failed"
  BY <1>1, RunningFree DEF Running
<1>3. /\ status' \in [Greenlets -> Statuses]
      /\ status'[k] = "scheduled" /\ status'[v] = "dead" /\ status[k] = "running"
      /\ \A g \in Greenlets \ {k, v} : status'[g] = status[g]
  BY <1>1, <1>2 DEF SlotsInv, SlotsTypeOK, Statuses, Running
<1>4. /\ ready' \in Seq(Greenlets) /\ ReadyOnce'
      /\ \A g \in Greenlets : InReady(g)' <=> g = k \/ InReady(g)
  BY <1>1, <1>2, Queued
<1>5. activeWaits' = activeWaits - Cardinality(ArmedSlots \cap held[v])
  BY <1>1, StillCountedMeans
<1>6. /\ SlotsConserved' /\ WaitShape' /\ FreeReset' /\ ActiveWaitsExact'
      /\ activeWaits' \in Nat
      /\ \A g \in Greenlets \ {v} : Completed(g)' <=> Completed(g)
      /\ slot' \in [Slots -> Slot] /\ free' \subseteq Slots
      /\ held' \in [Greenlets -> SUBSET Slots]
      /\ sq' \subseteq Sqe /\ inflight' \subseteq Sqe
  BY <1>1, <1>3, <1>5, GivenBack
<1>7. SlotsTypeOK'
  BY <1>1, <1>3, <1>4, <1>6 DEF GivesBackSlots, SlotsInv, SlotsTypeOK
<1>8. ReadyMeans' /\ QueuedWhenDue'
  BY <1>1, <1>2, <1>3, <1>4, <1>6 DEF SlotsInv, ReadyMeans, QueuedWhenDue, IsDue
<1> QED BY <1>4, <1>6, <1>7, <1>8 DEF SlotsInv

-----------------------------------------------------------------------------
(* The theorems.                                                           *)

(* The hub starts with every slot free and one greenlet scheduled.         *)
LEMMA InitInv == SlotsInit => SlotsInv
<1> SUFFICES ASSUME SlotsInit PROVE SlotsInv
  OBVIOUS
<1>1. PICK root \in Greenlets :
        /\ status = [g \in Greenlets |-> IF g = root THEN "scheduled" ELSE "unborn"]
        /\ ready = <<root>>
  BY DEF SlotsInit, LoopInit
<1>2. /\ activeWaits = 0 /\ phase = "drain" /\ stop = "no" /\ sq = {} /\ inflight = {}
      /\ slot  = [s \in Slots |-> [gen |-> 0, greenlet |-> None, result |-> 0, group |-> None]]
      /\ group = [s \in Slots |-> [resumed |-> FALSE, greenlet |-> None, n |-> 0]]
      /\ free = Slots /\ held = [g \in Greenlets |-> {}]
      /\ wait = [g \in Greenlets |-> 0] /\ waits = 0
  BY DEF SlotsInit, LoopInit
<1>3. 0 \in 0..GenMod-1 /\ 0 \in 0..MaxWaits
  BY SlotsAssumption
<1>4. SlotsTypeOK
  BY <1>1, <1>2, <1>3 DEF SlotsTypeOK, Statuses, Phases, Slot, Group
<1>5. SlotsConserved /\ FreeReset
  BY <1>2 DEF SlotsConserved, FreeReset
<1>6. WaitShape
  BY <1>1, <1>2 DEF WaitShape
<1>7. \A g \in Greenlets : InReady(g) <=> g = root
  BY <1>1 DEF InReady
<1>8. ReadyOnce /\ ReadyMeans /\ QueuedWhenDue
  BY <1>1, <1>7 DEF ReadyOnce, ReadyMeans, QueuedWhenDue, IsDue
<1>9. ArmedSlots = {}
  BY <1>2 DEF ArmedSlots, Armed
<1>10. ActiveWaitsExact
  BY <1>2, <1>9, CountMeans, FS_EmptySet
<1> QED BY <1>4, <1>5, <1>6, <1>8, <1>10 DEF SlotsInv

(* Every step of the loop, of a greenlet and of the kernel keeps it.       *)
LEMMA NextInv == NobodySurvives /\ SlotsInv /\ [Next]_vars => SlotsInv'
<1> SUFFICES ASSUME NobodySurvives, SlotsInv, [Next]_vars PROVE SlotsInv'
  OBVIOUS
<1>1. CASE (GreenletStep \/ LoopStep \/ LoopFails \/ RequestStop \/ ReapStop) /\ UNCHANGED slotVars
  BY <1>1, GreenletStepInv, LoopStepInv
<1>2. CASE WaitStep
  <2>1. PICK g \in Greenlets :
          \/ \E s \in Slots, linked \in BOOLEAN : BlockOnSlot(g, s, linked)
          \/ \E S \in SUBSET Slots : \E leader \in S : PollMulti(g, S, leader)
          \/ \/ \E s \in Slots, linked \in BOOLEAN : BlockOnSlotFails(g, s, linked)
             \/ \E S \in SUBSET Slots : \E Q \in SUBSET S : PollMultiFails(g, S, Q)
             \/ PollMultiExhausts(g)
          \/ \E v \in Greenlets : Throw(g, v)
    BY <1>2 DEF WaitStep
  <2> QED BY <2>1, BlockOnSlotInv, PollMultiInv, FailedCallsInv, ThrowInv
<1>3. CASE ReapStep
  BY <1>3, ReapStaleInv, ReapSingleInv, ReapGroupedInv DEF ReapStep
<1>4. CASE \E g \in Greenlets : ResumeWaiter(g)
  BY <1>4, ResumeWaiterInv
<1>5. CASE UNCHANGED vars
  <2>1. UNCHANGED <<slot, group, free, held>> /\ UNCHANGED loopVars /\ UNCHANGED <<wait, waits>>
    BY <1>5 DEF vars, slotVars
  <2>2. SlotsTypeOK' /\ ((phase' = "failed") <=> (phase = "failed"))
    BY <2>1 DEF SlotsInv, SlotsTypeOK, loopVars
  <2> QED BY <2>1, <2>2, SlotsSame DEF loopVars
<1> QED BY <1>1, <1>2, <1>3, <1>4, <1>5 DEF Next

(* The hub keeps SlotsInv for any number of greenlets, slots and waits.    *)
THEOREM SlotsInvariant == NobodySurvives => (SafeSpec => []SlotsInv)
<1> SUFFICES ASSUME NobodySurvives PROVE SafeSpec => []SlotsInv
  OBVIOUS
<1>1. SlotsInit => SlotsInv
  BY InitInv
<1>2. SlotsInv /\ [Next]_vars => SlotsInv'
  BY NextInv
<1> QED BY <1>1, <1>2, PTL DEF SafeSpec

(* Every variable keeps its type; in particular active_waits never goes    *)
(* below zero, where the u32 would wrap.                                   *)
THEOREM TypeCorrect == NobodySurvives => (SafeSpec => []SlotsTypeOK)
<1>1. SlotsInv => SlotsTypeOK
  BY DEF SlotsInv
<1> QED BY <1>1, SlotsInvariant, PTL

(* active_waits is the number of slots a completion is still owed to.      *)
THEOREM CountExact == NobodySurvives => (SafeSpec => []ActiveWaitsExact)
<1>1. SlotsInv => ActiveWaitsExact
  BY DEF SlotsInv
<1> QED BY <1>1, SlotsInvariant, PTL

(* No slot leaks, none is held twice, and poll groups stay within a call.  *)
THEOREM SlotsAreConserved == NobodySurvives => (SafeSpec => []SlotsConserved)
<1>1. SlotsInv => SlotsConserved
  BY DEF SlotsInv
<1> QED BY <1>1, SlotsInvariant, PTL

(* The ready queue never holds a greenlet twice.                           *)
THEOREM QueuedAtMostOnce == NobodySurvives => (SafeSpec => []ReadyOnce)
<1>1. SlotsInv => ReadyOnce
  BY DEF SlotsInv
<1> QED BY <1>1, SlotsInvariant, PTL

(* Once the loop has ended nothing moves.                                  *)
LEMMA ExitIsFinal ==
  ASSUME phase = "exited", [Next]_vars
  PROVE  UNCHANGED <<phase, stop, status>>
<1>1. Stopped
  BY DEF Stopped
<1>2. CASE (GreenletStep \/ LoopStep \/ LoopFails \/ RequestStop \/ ReapStop) /\ UNCHANGED slotVars
  <2>1. ~GreenletStep
    BY DEF GreenletStep, Finish, Raise, Schedule, Running
  <2>2. ~LoopStep /\ ~LoopFails
    BY DEF LoopStep, RunScheduled, SkipDead, Drains, ExitIdle, SubmitAndWait, LoopFails, EndBatch
  <2> QED BY <1>1, <1>2, <2>1, <2>2 DEF RequestStop, ReapStop
<1>3. ~WaitStep
  BY DEF WaitStep, BlockOnSlot, BlockOnSlotFails, PollMulti, PollMultiFails,
         PollMultiExhausts, BeginsWait, Throw, ThrowsInto, Running
<1>4. ~ReapStep
  BY DEF ReapStep, ReapStale, ReapSingle, ReapGrouped, Reaps
<1>5. ~\E g \in Greenlets : ResumeWaiter(g)
  BY DEF ResumeWaiter, Drains
<1> QED BY <1>2, <1>3, <1>4, <1>5 DEF Next, vars, loopVars

(* The exit check comes when everybody due has been run and nobody has an  *)
(* operation outstanding, so nobody is left.                               *)
LEMMA IdleMeansDone ==
  ASSUME SlotsInv, ExitIdle
  PROVE  \A g \in Greenlets : status[g] \in {"unborn", "dead"}
<1>1. /\ HubTurn /\ phase = "drain" /\ \A g \in Greenlets : ~InReady(g)
      /\ activeWaits = 0
  BY DEF ExitIdle, InReady
<1>2. ArmedSlots = {}
  BY <1>1, CountMeans, ArmedFinite, FS_EmptySet DEF SlotsInv
<1>3. \A g \in Greenlets : Completed(g)
  BY <1>2 DEF Completed, ArmedSlots, SlotsInv, SlotsTypeOK
<1>4. \A g \in Greenlets : ~IsDue(g)
  BY <1>1 DEF SlotsInv, QueuedWhenDue
<1> QED BY <1>1, <1>3, <1>4 DEF IsDue, HubTurn, SlotsInv, SlotsTypeOK, Statuses

(* When the loop ends of itself, every greenlet it knew of has ended.      *)
THEOREM NobodyLeftBehind == NobodySurvives => (SafeSpec => []IdleExitLeavesNobody)
<1> SUFFICES ASSUME NobodySurvives PROVE SafeSpec => []IdleExitLeavesNobody
  OBVIOUS
<1>1. SlotsInit => IdleExitLeavesNobody
  BY DEF SlotsInit, LoopInit, IdleExitLeavesNobody
<1>2. IdleExitLeavesNobody /\ SlotsInv /\ [Next]_vars => IdleExitLeavesNobody'
  <2> SUFFICES ASSUME IdleExitLeavesNobody, SlotsInv, [Next]_vars,
                      phase' = "exited", stop' # "seen"
               PROVE  \A g \in Greenlets : status'[g] \in {"unborn", "dead"}
    BY DEF IdleExitLeavesNobody
  <2>1. CASE phase = "exited"
    BY <2>1, ExitIsFinal DEF IdleExitLeavesNobody
  <2>2. CASE phase # "exited"
    <3>1. ~WaitStep
      BY <2>2 DEF WaitStep, BlockOnSlot, BlockOnSlotFails, PollMulti, PollMultiFails,
                  PollMultiExhausts, BeginsWait, Throw, ThrowsInto, Running
    <3>2. ~ReapStep
      BY DEF ReapStep, ReapStale, ReapSingle, ReapGrouped, Reaps
    <3>3. ~\E g \in Greenlets : ResumeWaiter(g)
      BY <2>2 DEF ResumeWaiter
    <3>4. ~GreenletStep
      BY <2>2 DEF GreenletStep, Finish, Raise, Schedule, Running
    <3>5. ExitIdle
      BY <2>2, <3>1, <3>2, <3>3, <3>4
         DEF Next, vars, loopVars, LoopStep, RunScheduled, SkipDead, SubmitAndWait,
             LoopFails, EndBatch, RequestStop, ReapStop
    <3> QED BY <3>5, IdleMeansDone DEF ExitIdle
  <2> QED BY <2>1, <2>2
<1>3. SafeSpec => []SlotsInv
  BY SlotsInvariant
<1> QED BY <1>1, <1>2, <1>3, PTL DEF SafeSpec

-----------------------------------------------------------------------------
(* Whose completion it is.                                                 *)

(* What the types say of a slot, of an entry and of who holds what.        *)
LEMMA Typed ==
  ASSUME SlotsInv
  PROVE  /\ \A s \in Slots : slot[s].gen \in Nat
         /\ \A e \in Entries : e.slot \in Slots /\ e.gen \in Nat /\ e.link \in BOOLEAN
         /\ \A g \in Greenlets : held[g] \subseteq Slots
         /\ \A s \in Slots : s \notin free <=> \E g \in Greenlets : s \in held[g]
         /\ \A g, h \in Greenlets : g # h => held[g] \cap held[h] = {}
         /\ waits \in Nat /\ waits <= MaxWaits /\ MaxWaits < GenMod
         /\ MaxWaits \in Nat /\ GenMod \in Nat
<1>1. 0..GenMod-1 \subseteq Nat
  BY SlotsAssumption
<1>2. \A s \in Slots : slot[s].gen \in Nat
  BY <1>1 DEF SlotsInv, SlotsTypeOK, Slot
<1>3. \A e \in Entries : e.slot \in Slots /\ e.gen \in Nat /\ e.link \in BOOLEAN
  BY <1>1 DEF SlotsInv, SlotsTypeOK, Sqe, Entries
<1> QED BY <1>2, <1>3, SlotsAssumption DEF SlotsInv, SlotsTypeOK, SlotsConserved

(* A release bumps the generation and never wraps it.                      *)
LEMMA ReleasedFields ==
  ASSUME SlotsInv, GensBound, NEW S \in SUBSET Slots,
         \A s \in S : s \in free => waits < MaxWaits,
         slot' = ReleaseAll(S)
  PROVE  /\ \A s \in S : slot'[s].gen = slot[s].gen + 1
         /\ \A s \in Slots \ S : slot'[s] = slot[s]
<1>1. \A s \in S : slot[s].gen \in Nat /\ slot[s].gen + 1 < GenMod
  BY Typed DEF GensBound
<1>2. \A s \in S : (slot[s].gen + 1) % GenMod = slot[s].gen + 1
  BY <1>1, Typed
<1> QED BY <1>2 DEF ReleaseAll, Released

(* Steps that change no slot and lose no entry but a linked timeout.       *)
LEMMA WaitsKept ==
  ASSUME SlotsInv, WaitInv, UNCHANGED slotVars,
         Entries' \subseteq Entries, \A e \in Entries : ~e.link => e \in Entries',
         \A g \in Greenlets : status'[g] = "blocked" => status[g] = "blocked"
  PROVE  WaitInv'
<1> USE DEF WaitInv, slotVars
<1>1. GensBound'
  BY DEF GensBound
<1>2. EntriesOwn'
  BY DEF EntriesOwn, Lookup
<1>3. ArmedUnderway'
  <2>1. \A s \in Slots : Armed(s)' <=> Armed(s)
    BY DEF Armed
  <2>2. SUFFICES ASSUME NEW g \in Greenlets, NEW s \in held[g], Armed(s)
                 PROVE  \E e \in Entries' : ~e.link /\ e.slot = s /\ Lookup(e)'
    BY <2>1, Typed DEF ArmedUnderway
  <2>3. PICK e \in Entries : ~e.link /\ e.slot = s /\ Lookup(e)
    BY <2>2 DEF ArmedUnderway
  <2> QED BY <2>3 DEF Lookup
<1>4. ResultsOwn'
  BY DEF ResultsOwn
<1>5. CompletedHasResult'
  BY DEF CompletedHasResult, Completed, Armed
<1> QED BY <1>1, <1>2, <1>3, <1>4, <1>5

(* The entries N are those of the next wait, for the slots S.              *)
EntriesOfNext(N, S) ==
  /\ \A e \in N : e.slot \in S /\ e.gen = slot[e.slot].gen /\ e.wait = waits + 1
  /\ \A s \in S : \E e \in N : ~e.link /\ e.slot = s

(* The step arms the slots S, clears their results and leaves the others.  *)
JustArmed(S) ==
  /\ \A s \in S : slot'[s].gen = slot[s].gen /\ slot'[s].result = 0 /\ Armed(s)'
  /\ \A t \in Slots \ S : slot'[t] = slot[t] /\ group'[t] = group[t]

(* A wait that begins on the slots S with the entries N.                   *)
LEMMA WaitBeginsOwn ==
  ASSUME SlotsInv, WaitInv, NEW g \in Greenlets, NEW S \in SUBSET Slots, NEW N,
         Running(g), S \subseteq free, S # {},
         waits' = waits + 1,
         status' = [status EXCEPT ![g] = "blocked"],
         held' = [held EXCEPT ![g] = S],
         wait' = [wait EXCEPT ![g] = waits + 1],
         free' = free \ S,
         inflight' = inflight, sq' = sq \cup N,
         EntriesOfNext(N, S), JustArmed(S)
  PROVE  WaitInv'
<1> USE DEF WaitInv, EntriesOfNext, JustArmed
<1>1. /\ held'[g] = S /\ status'[g] = "blocked" /\ wait'[g] = waits + 1 /\ held[g] = {}
      /\ \A h \in Greenlets \ {g} :
           held'[h] = held[h] /\ status'[h] = status[h] /\ wait'[h] = wait[h]
  BY RunningFree DEF SlotsInv, SlotsTypeOK
<1>2. \A h \in Greenlets : held[h] \subseteq Slots \ S
  BY Typed
<1>3. Entries' = Entries \cup N
  BY DEF Entries
<1>4. \A s \in Slots : slot'[s].gen = slot[s].gen
  OBVIOUS
<1>5. GensBound'
  <2>1. \A s \in Slots : slot[s].gen \in Nat /\ slot[s].gen <= waits /\ waits \in Nat
    BY Typed DEF GensBound
  <2> QED BY <1>4, <2>1 DEF GensBound
<1>6. EntriesOwn'
  <2>1. ASSUME NEW e \in Entries
        PROVE  /\ e.gen <= slot'[e.slot].gen
               /\ e.slot \in free' => e.gen < slot'[e.slot].gen
               /\ Lookup(e)' => \A h \in Greenlets : e.slot \in held'[h] => e.wait = wait'[h]
    <3>1. /\ e.slot \in Slots /\ e.gen \in Nat /\ slot[e.slot].gen \in Nat
          /\ e.gen <= slot[e.slot].gen /\ (e.slot \in free => e.gen < slot[e.slot].gen)
      BY Typed DEF EntriesOwn
    <3>2. /\ e.gen <= slot'[e.slot].gen
          /\ e.slot \in free' => e.gen < slot'[e.slot].gen
      BY <1>4, <3>1
    <3>3. ASSUME Lookup(e)', NEW h \in Greenlets, e.slot \in held'[h]
          PROVE  e.wait = wait'[h]
      <4>1. Lookup(e)
        BY <1>4, <3>1, <3>3 DEF Lookup
      <4>2. e.slot \notin free
        BY <3>1, <4>1 DEF Lookup
      <4>3. h # g
        BY <1>1, <3>3, <4>2
      <4> QED BY <1>1, <3>3, <4>1, <4>3 DEF EntriesOwn
    <3> QED BY <3>2, <3>3
  <2>2. ASSUME NEW e \in N
        PROVE  /\ e.gen <= slot'[e.slot].gen
               /\ e.slot \in free' => e.gen < slot'[e.slot].gen
               /\ Lookup(e)' => \A h \in Greenlets : e.slot \in held'[h] => e.wait = wait'[h]
    <3>1. e.slot \in S /\ e.gen = slot'[e.slot].gen /\ e.gen \in Nat /\ e.slot \notin free'
      BY <1>4, <2>2, Typed
    <3>2. \A h \in Greenlets : e.slot \in held'[h] => h = g
      BY <1>1, <1>2, <3>1
    <3> QED BY <1>1, <3>1, <3>2
  <2> QED BY <1>3, <2>1, <2>2 DEF EntriesOwn
<1>7. \A h \in Greenlets \ {g} : \A s \in held[h] : Armed(s)' <=> Armed(s)
  <2>1. \A h \in Greenlets : \A s \in held[h] : slot[s].group # None => slot[s].group \in held[h]
    BY DEF SlotsInv, SlotsConserved
  <2> QED BY <1>2, <2>1 DEF Armed
<1>8. ArmedUnderway'
  <2>1. ASSUME NEW h \in Greenlets \ {g}, NEW s \in held[h], Armed(s)
        PROVE  \E e \in Entries' : ~e.link /\ e.slot = s /\ Lookup(e)'
    <3>1. PICK e \in Entries : ~e.link /\ e.slot = s /\ Lookup(e)
      BY <2>1 DEF ArmedUnderway
    <3> QED BY <1>2, <1>3, <1>4, <3>1 DEF Lookup
  <2>2. ASSUME NEW s \in S
        PROVE  \E e \in Entries' : ~e.link /\ e.slot = s /\ Lookup(e)'
    <3>1. PICK e \in N : ~e.link /\ e.slot = s
      BY <2>2
    <3> QED BY <1>3, <1>4, <3>1 DEF Lookup
  <2> QED BY <1>1, <1>7, <2>1, <2>2 DEF ArmedUnderway
<1>9. ResultsOwn'
  BY <1>1, <1>2 DEF ResultsOwn
<1>10. CompletedHasResult'
  <2>1. ~Completed(g)'
    BY <1>1 DEF Completed
  <2>2. ASSUME NEW h \in Greenlets \ {g}, status'[h] = "blocked", Completed(h)'
        PROVE  \E s \in held'[h] : slot'[s].result = wait'[h]
    <3>1. Completed(h) /\ status[h] = "blocked"
      BY <1>1, <1>7, <2>2 DEF Completed
    <3>2. PICK s \in held[h] : slot[s].result = wait[h]
      BY <3>1 DEF CompletedHasResult
    <3> QED BY <1>1, <1>2, <3>2
  <2> QED BY <2>1, <2>2 DEF CompletedHasResult
<1> QED BY <1>5, <1>6, <1>8, <1>9, <1>10

(* A failed call: the slots it took were free and their generations move   *)
(* past the entries it leaves behind.                                      *)
LEMMA FailedCallOwn ==
  ASSUME SlotsInv, WaitInv, NEW S \in SUBSET Slots, S \subseteq free,
         waits < MaxWaits, waits' = waits + 1,
         slot' = ReleaseAll(S), FailsToBegin, inflight' = inflight,
         sq \subseteq sq', sq' \subseteq sq \cup {SqeFor(s, waits + 1, FALSE) : s \in S}
  PROVE  WaitInv'
<1> USE DEF WaitInv, FailsToBegin
<1>1. /\ \A s \in S : slot'[s].gen = slot[s].gen + 1
      /\ \A s \in Slots \ S : slot'[s] = slot[s]
  BY ReleasedFields
<1>2. \A h \in Greenlets : held[h] \subseteq Slots \ S
  BY Typed
<1>3. GensBound'
  <2>1. \A s \in Slots : slot[s].gen \in Nat /\ slot[s].gen <= waits /\ waits \in Nat
    BY Typed DEF GensBound
  <2> QED BY <1>1, <2>1 DEF GensBound
<1>4. EntriesOwn'
  <2>1. SUFFICES ASSUME NEW e \in Entries'
        PROVE  /\ e.gen <= slot'[e.slot].gen
               /\ e.slot \in free => e.gen < slot'[e.slot].gen
               /\ Lookup(e)' => \A h \in Greenlets : e.slot \in held[h] => e.wait = wait[h]
    BY DEF EntriesOwn
  <2>2. CASE e \in Entries
    <3>1. /\ e.slot \in Slots /\ e.gen \in Nat /\ slot[e.slot].gen \in Nat
          /\ e.gen <= slot[e.slot].gen /\ (e.slot \in free => e.gen < slot[e.slot].gen)
          /\ Lookup(e) => \A h \in Greenlets : e.slot \in held[h] => e.wait = wait[h]
      BY <2>2, Typed DEF EntriesOwn
    <3>2. CASE e.slot \in S
      BY <1>1, <1>2, <3>1, <3>2
    <3>3. CASE e.slot \notin S
      BY <1>1, <3>1, <3>3 DEF Lookup
    <3> QED BY <3>2, <3>3
  <2>3. CASE e \notin Entries
    <3>1. PICK s \in S : e = SqeFor(s, waits + 1, FALSE)
      BY <2>1, <2>3 DEF Entries
    <3>2. e.slot = s /\ e.gen = slot[s].gen /\ slot[s].gen \in Nat
      BY <3>1, Typed DEF SqeFor
    <3> QED BY <1>1, <1>2, <3>2
  <2> QED BY <2>2, <2>3
<1>5. \A s \in Slots : Armed(s)' <=> Armed(s)
  BY <1>1 DEF SlotsInv, SlotsTypeOK, FreeReset, Armed, ReleaseAll, Released
<1>6. ArmedUnderway'
  <2>1. SUFFICES ASSUME NEW h \in Greenlets, NEW s \in held[h], Armed(s)
                 PROVE  \E e \in Entries' : ~e.link /\ e.slot = s /\ Lookup(e)'
    BY <1>2, <1>5 DEF ArmedUnderway
  <2>2. PICK e \in Entries : ~e.link /\ e.slot = s /\ Lookup(e)
    BY <2>1 DEF ArmedUnderway
  <2>3. e \in Entries'
    BY <2>2 DEF Entries
  <2> QED BY <1>1, <1>2, <2>2, <2>3 DEF Lookup
<1>7. ResultsOwn'
  BY <1>1, <1>2 DEF ResultsOwn
<1>8. CompletedHasResult'
  <2>1. \A h \in Greenlets : Completed(h)' <=> Completed(h)
    BY <1>2, <1>5 DEF Completed
  <2> QED BY <1>1, <1>2, <2>1 DEF CompletedHasResult
<1> QED BY <1>3, <1>4, <1>6, <1>7, <1>8

(* A completion that names no wait any more: nothing changes but that it   *)
(* is gone.                                                                *)
LEMMA StaleOwn ==
  ASSUME SlotsInv, WaitInv, NEW e, ~Lookup(e), UNCHANGED <<status, slotVars>>,
         Entries' \subseteq Entries, \A f \in Entries : f # e => f \in Entries'
  PROVE  WaitInv'
<1> USE DEF WaitInv, slotVars
<1>1. GensBound' /\ EntriesOwn' /\ ResultsOwn' /\ CompletedHasResult'
  BY DEF GensBound, EntriesOwn, ResultsOwn, CompletedHasResult, Completed, Armed, Lookup
<1>2. ArmedUnderway'
  <2>1. \A s \in Slots : Armed(s)' <=> Armed(s)
    BY DEF Armed
  <2>2. SUFFICES ASSUME NEW g \in Greenlets, NEW s \in held[g], Armed(s)
                 PROVE  \E f \in Entries' : ~f.link /\ f.slot = s /\ Lookup(f)'
    BY <2>1, Typed DEF ArmedUnderway
  <2>3. PICK f \in Entries : ~f.link /\ f.slot = s /\ Lookup(f)
    BY <2>2 DEF ArmedUnderway
  <2> QED BY <2>3 DEF Lookup
<1> QED BY <1>1, <1>2

(* A completion whose entry still names its slot: the slot gets the result *)
(* of its own wait, and nothing of another wait changes.                   *)
LEMMA ReapOwn ==
  ASSUME SlotsInv, WaitInv, NEW e \in inflight, Lookup(e),
         inflight' = inflight \ {e},
         UNCHANGED <<status, sq, free, held, wait, waits>>,
         slot'[e.slot].result = e.wait, slot'[e.slot].gen = slot[e.slot].gen,
         \A t \in Slots \ {e.slot} : slot'[t] = slot[t],
         ~Armed(e.slot)',
         \A g \in Greenlets : \A t \in held[g] :
           /\ Armed(t)' => Armed(t)
           /\ e.slot \notin held[g] => (Armed(t)' <=> Armed(t))
  PROVE  WaitInv'
<1> USE DEF WaitInv
<1>1. e \in Entries /\ Entries' \subseteq Entries /\ \A f \in Entries : f # e => f \in Entries'
  BY DEF Entries
<1>2. e.slot \in Slots /\ \A s \in Slots : slot'[s].gen = slot[s].gen
  BY <1>1, Typed
<1>3. \A g \in Greenlets : e.slot \in held[g] => e.wait = wait[g]
  BY <1>1 DEF EntriesOwn
<1>4. \A f \in Entries : f.slot \in Slots /\ (Lookup(f)' <=> Lookup(f))
  BY <1>2, Typed DEF Lookup
<1>5. GensBound'
  BY <1>2 DEF GensBound
<1>6. EntriesOwn'
  BY <1>1, <1>2, <1>4 DEF EntriesOwn
<1>7. ArmedUnderway'
  <2>1. SUFFICES ASSUME NEW g \in Greenlets, NEW s \in held[g], Armed(s)'
                 PROVE  \E f \in Entries' : ~f.link /\ f.slot = s /\ Lookup(f)'
    BY DEF ArmedUnderway
  <2>2. PICK f \in Entries : ~f.link /\ f.slot = s /\ Lookup(f)
    BY <2>1 DEF ArmedUnderway
  <2>3. f # e
    BY <2>1, <2>2
  <2> QED BY <1>1, <1>4, <2>2, <2>3
<1>8. \A g \in Greenlets : held[g] \subseteq Slots
  BY Typed
<1>9. ResultsOwn'
  BY <1>3, <1>8 DEF ResultsOwn
<1>10. CompletedHasResult'
  <2>1. SUFFICES ASSUME NEW g \in Greenlets, status[g] = "blocked", Completed(g)'
                 PROVE  \E s \in held[g] : slot'[s].result = wait[g]
    BY DEF CompletedHasResult
  <2>2. CASE e.slot \in held[g]
    BY <1>3, <2>2
  <2>3. CASE e.slot \notin held[g]
    <3>1. Completed(g)
      BY <2>1, <2>3 DEF Completed
    <3>2. PICK s \in held[g] : slot[s].result = wait[g]
      BY <2>1, <3>1 DEF CompletedHasResult
    <3> QED BY <1>8, <2>3, <3>2
  <2> QED BY <2>2, <2>3
<1> QED BY <1>5, <1>6, <1>7, <1>9, <1>10

(* The completion of a wait on one slot.                                   *)
LEMMA ReapSingleOwn ==
  ASSUME SlotsInv, WaitInv, NEW e \in inflight, ReapSingle(e)
  PROVE  WaitInv'
<1> DEFINE s == e.slot
<1>1. /\ Reaps(e) /\ Lookup(e) /\ slot[s].group = None /\ group' = group
      /\ slot' = [slot EXCEPT ![s].result = e.wait, ![s].greenlet = None]
  BY DEF ReapSingle
<1>2. s \in Slots /\ slot \in [Slots -> Slot]
  BY Typed DEF Entries, SlotsInv, SlotsTypeOK
<1>3. /\ slot'[s].greenlet = None /\ slot'[s].group = None
      /\ slot'[s].result = e.wait /\ slot'[s].gen = slot[s].gen
      /\ \A t \in Slots \ {s} : slot'[t] = slot[t]
  BY <1>1, <1>2 DEF Slot
<1>4. ~Armed(s)' /\ \A t \in Slots \ {s} : Armed(t)' <=> Armed(t)
  BY <1>1, <1>3 DEF Armed
<1>5. \A g \in Greenlets : held[g] \subseteq Slots
  BY Typed
<1>6. \A g \in Greenlets : \A t \in held[g] :
        /\ Armed(t)' => Armed(t)
        /\ s \notin held[g] => (Armed(t)' <=> Armed(t))
  BY <1>4, <1>5
<1> QED BY <1>1, <1>3, <1>4, <1>6, ReapOwn DEF Reaps

(* The completion of one operation of a group wait.                        *)
LEMMA ReapGroupedOwn ==
  ASSUME SlotsInv, WaitInv, NEW e \in inflight, ReapGrouped(e)
  PROVE  WaitInv'
<1> DEFINE s == e.slot
<1>0. PICK leader : leader = slot[s].group
  OBVIOUS
<1>1. /\ Reaps(e) /\ Lookup(e) /\ leader # None
      /\ slot' = [slot EXCEPT ![s].result = e.wait]
      /\ \/ group[leader].resumed /\ group' = group
         \/ group' = [group EXCEPT ![leader].resumed = TRUE]
  BY <1>0 DEF ReapGrouped
<1>2. s \in Slots /\ slot \in [Slots -> Slot] /\ group \in [Slots -> Group]
  BY Typed DEF Entries, SlotsInv, SlotsTypeOK
<1>3. PICK g \in Greenlets : s \in held[g]
  BY <1>0, <1>1, <1>2, HeldWhenUsed
<1>4. GroupWait(g, leader) /\ leader \in held[g] /\ leader \in Slots
  BY <1>0, <1>1, <1>2, <1>3, WaitsApart, Typed
<1>5. /\ slot'[s].result = e.wait /\ slot'[s].gen = slot[s].gen
      /\ \A t \in Slots : slot'[t].greenlet = slot[t].greenlet /\ slot'[t].group = slot[t].group
      /\ \A t \in Slots \ {s} : slot'[t] = slot[t]
  <2>1. slot[s] \in Slot
    BY <1>2
  <2>2. slot'[s] = [slot[s] EXCEPT !.result = e.wait]
    BY <1>1, <1>2
  <2>3. \A t \in Slots \ {s} : slot'[t] = slot[t]
    BY <1>1, <1>2
  <2> QED BY <2>1, <2>2, <2>3 DEF Slot
<1>6. /\ group'[leader].resumed
      /\ \A t \in Slots : t # leader => group'[t] = group[t]
  <2>1. group[leader] \in Group
    BY <1>2, <1>4
  <2>2. [group[leader] EXCEPT !.resumed = TRUE].resumed
    BY <2>1 DEF Group
  <2> QED BY <1>1, <1>2, <1>4, <2>2
<1>7. \A t \in held[g] : ~Armed(t)'
  BY <1>4, <1>5, <1>6, Typed DEF GroupWait, Armed
<1>8. \A h \in Greenlets : h # g => \A t \in held[h] : Armed(t)' <=> Armed(t)
  <2>1. SUFFICES ASSUME NEW h \in Greenlets, h # g, NEW t \in held[h]
                 PROVE  Armed(t)' <=> Armed(t)
    OBVIOUS
  <2>2. slot[t].group # None => slot[t].group \in held[h]
    BY DEF SlotsInv, SlotsConserved
  <2>3. t \in Slots /\ held[h] \subseteq Slots /\ leader \notin held[h]
    BY <1>4, <2>1, Typed
  <2> QED BY <1>5, <1>6, <2>2, <2>3 DEF Armed
<1>9. /\ ~Armed(s)'
      /\ \A h \in Greenlets : \A t \in held[h] :
           /\ Armed(t)' => Armed(t)
           /\ s \notin held[h] => (Armed(t)' <=> Armed(t))
  BY <1>3, <1>7, <1>8
<1> QED BY <1>1, <1>5, <1>9, ReapOwn DEF Reaps

(* A call that gives its slots back: their generations move past every     *)
(* entry that was made for them.                                           *)
LEMMA GivenBackOwn ==
  ASSUME SlotsInv, WaitInv, NEW v \in Greenlets, GivesBackSlots(v),
         \A g \in Greenlets \ {v} : status'[g] = "blocked" => status[g] = "blocked",
         status'[v] # "blocked"
  PROVE  WaitInv'
<1> USE DEF WaitInv
<1>1. /\ slot' = ReleaseAll(held[v]) /\ free' = free \cup held[v]
      /\ held' = [held EXCEPT ![v] = {}] /\ UNCHANGED <<group, wait, waits>>
  BY DEF GivesBackSlots
<1>2. /\ Entries' \subseteq Entries
      /\ \A e \in Entries : ~e.link => e \in Entries'
  BY DEF GivesBackSlots, Submitted, Entries
<1>3. /\ held[v] \in SUBSET Slots
      /\ \A s \in held[v] : s \notin free
  BY Typed
<1>4. /\ \A s \in held[v] : slot'[s].gen = slot[s].gen + 1
      /\ \A s \in Slots \ held[v] : slot'[s] = slot[s]
  BY <1>1, <1>3, ReleasedFields
<1>5. /\ held'[v] = {}
      /\ \A g \in Greenlets \ {v} : held'[g] = held[g] /\ held[g] \subseteq Slots \ held[v]
  BY <1>1, Typed DEF SlotsInv, SlotsTypeOK
<1>6. GensBound'
  <2>1. \A s \in Slots : slot[s].gen \in Nat /\ waits \in Nat
    BY Typed
  <2>2. \A s \in held[v] : slot[s].gen + 1 <= waits
    BY <1>3, <2>1 DEF GensBound
  <2> QED BY <1>1, <1>3, <1>4, <2>1, <2>2 DEF GensBound
<1>7. EntriesOwn'
  <2>1. SUFFICES ASSUME NEW e \in Entries
        PROVE  /\ e.gen <= slot'[e.slot].gen
               /\ e.slot \in free' => e.gen < slot'[e.slot].gen
               /\ Lookup(e)' => \A h \in Greenlets : e.slot \in held'[h] => e.wait = wait[h]
    BY <1>1, <1>2 DEF EntriesOwn
  <2>2. /\ e.slot \in Slots /\ e.gen \in Nat /\ slot[e.slot].gen \in Nat
        /\ e.gen <= slot[e.slot].gen /\ (e.slot \in free => e.gen < slot[e.slot].gen)
        /\ Lookup(e) => \A h \in Greenlets : e.slot \in held[h] => e.wait = wait[h]
    BY Typed DEF EntriesOwn
  <2>3. CASE e.slot \in held[v]
    <3>1. e.gen < slot'[e.slot].gen
      BY <1>4, <2>2, <2>3
    <3>2. ~Lookup(e)'
      BY <2>2, <3>1 DEF Lookup
    <3> QED BY <1>4, <2>2, <2>3, <3>1, <3>2
  <2>4. CASE e.slot \notin held[v]
    BY <1>1, <1>4, <1>5, <2>2, <2>4 DEF Lookup
  <2> QED BY <2>3, <2>4
<1>8. \A g \in Greenlets \ {v} : \A s \in held[g] : Armed(s)' <=> Armed(s)
  BY <1>1, <1>4, <1>5 DEF Armed
<1>9. ArmedUnderway'
  <2>1. SUFFICES ASSUME NEW g \in Greenlets \ {v}, NEW s \in held[g], Armed(s)
                 PROVE  \E e \in Entries' : ~e.link /\ e.slot = s /\ Lookup(e)'
    BY <1>5, <1>8 DEF ArmedUnderway
  <2>2. PICK e \in Entries : ~e.link /\ e.slot = s /\ Lookup(e)
    BY <2>1 DEF ArmedUnderway
  <2> QED BY <1>2, <1>4, <1>5, <2>2 DEF Lookup
<1>10. ResultsOwn'
  BY <1>1, <1>4, <1>5 DEF ResultsOwn
<1>11. CompletedHasResult'
  <2>1. SUFFICES ASSUME NEW g \in Greenlets \ {v}, status[g] = "blocked", Completed(g)'
                 PROVE  \E s \in held'[g] : slot'[s].result = wait'[g]
    BY DEF CompletedHasResult
  <2>2. Completed(g)
    BY <1>5, <1>8, <2>1 DEF Completed
  <2>3. PICK s \in held[g] : slot[s].result = wait[g]
    BY <2>1, <2>2 DEF CompletedHasResult
  <2> QED BY <1>1, <1>4, <1>5, <2>3
<1> QED BY <1>6, <1>7, <1>9, <1>10, <1>11

(* Every way to begin a wait, or to fail to.                               *)
LEMMA BeginsOwn ==
  ASSUME SlotsInv, WaitInv, NEW g \in Greenlets,
         \/ \E s \in Slots, linked \in BOOLEAN :
              BlockOnSlot(g, s, linked) \/ BlockOnSlotFails(g, s, linked)
         \/ \E S \in SUBSET Slots :
              \/ \E leader \in S : PollMulti(g, S, leader)
              \/ \E Q \in SUBSET S : PollMultiFails(g, S, Q)
         \/ PollMultiExhausts(g)
  PROVE  WaitInv'
<1>1. ASSUME NEW s \in Slots, NEW linked \in BOOLEAN, BlockOnSlot(g, s, linked)
      PROVE  WaitInv'
  <2>1. /\ BeginsWait(g, waits + 1) /\ s \in free
        /\ slot' = [slot EXCEPT ![s] = [Acquired(s) EXCEPT !.greenlet = g]]
        /\ sq' = sq \cup SingleSqes(s, waits + 1, linked)
        /\ BlocksHolding(g, waits + 1, {s}) /\ group' = group
    BY <1>1 DEF BlockOnSlot
  <2>2. /\ slot'[s].gen = slot[s].gen /\ slot'[s].result = 0 /\ slot'[s].greenlet = g
        /\ \A t \in Slots \ {s} : slot'[t] = slot[t]
    <3>1. slot[s] \in Slot /\ slot \in [Slots -> Slot]
      BY DEF SlotsInv, SlotsTypeOK
    <3>2. /\ Acquired(s) \in [gen : 0..GenMod-1, greenlet : {None}, result : {0}, group : {None}]
          /\ Acquired(s).gen = slot[s].gen
      BY <3>1 DEF Acquired, Slot
    <3>3. slot'[s] = [Acquired(s) EXCEPT !.greenlet = g]
      BY <2>1, <3>1
    <3> QED BY <2>1, <3>1, <3>2, <3>3
  <2>3. Armed(s)'
    BY <2>2, SlotsAssumption DEF Armed
  <2>4. /\ \A e \in SingleSqes(s, waits + 1, linked) :
             e.slot = s /\ e.gen = slot[s].gen /\ e.wait = waits + 1
        /\ \E e \in SingleSqes(s, waits + 1, linked) : ~e.link
    <3>1. \A link \in BOOLEAN :
            /\ SqeFor(s, waits + 1, link).slot = s /\ SqeFor(s, waits + 1, link).link = link
            /\ SqeFor(s, waits + 1, link).gen = slot[s].gen
            /\ SqeFor(s, waits + 1, link).wait = waits + 1
      BY DEF SqeFor
    <3>2. SqeFor(s, waits + 1, FALSE) \in SingleSqes(s, waits + 1, linked)
      BY DEF SingleSqes
    <3> QED BY <3>1, <3>2 DEF SingleSqes
  <2>5. /\ {s} \in SUBSET Slots /\ {s} \subseteq free /\ {s} # {}
        /\ EntriesOfNext(SingleSqes(s, waits + 1, linked), {s})
        /\ JustArmed({s})
    BY <2>1, <2>2, <2>3, <2>4 DEF EntriesOfNext, JustArmed
  <2>6. /\ Running(g) /\ waits' = waits + 1 /\ inflight' = inflight
        /\ status' = [status EXCEPT ![g] = "blocked"]
        /\ held' = [held EXCEPT ![g] = {s}]
        /\ wait' = [wait EXCEPT ![g] = waits + 1]
        /\ free' = free \ {s}
    BY <2>1 DEF BeginsWait, BlocksHolding
  <2> QED BY <2>1, <2>5, <2>6, WaitBeginsOwn
<1>2. ASSUME NEW S \in SUBSET Slots, NEW leader \in S, PollMulti(g, S, leader)
      PROVE  WaitInv'
  <2>1. /\ BeginsWait(g, waits + 1) /\ S \subseteq free
        /\ slot' = [s \in Slots |->
                      IF s \in S THEN [Acquired(s) EXCEPT !.group = leader] ELSE slot[s]]
        /\ group' = [group EXCEPT ![leader] =
                       [resumed |-> FALSE, greenlet |-> g, n |-> Cardinality(S)]]
        /\ sq' = sq \cup {SqeFor(s, waits + 1, FALSE) : s \in S}
        /\ BlocksHolding(g, waits + 1, S)
    BY <1>2 DEF PollMulti
  <2>2. /\ \A s \in S : slot'[s].gen = slot[s].gen /\ slot'[s].result = 0 /\ slot'[s].group = leader
        /\ \A t \in Slots \ S : slot'[t] = slot[t]
    <3>1. \A s \in S : slot[s] \in Slot
      BY DEF SlotsInv, SlotsTypeOK
    <3>2. \A s \in S :
            /\ Acquired(s) \in [gen : 0..GenMod-1, greenlet : {None}, result : {0}, group : {None}]
            /\ Acquired(s).gen = slot[s].gen
      BY <3>1 DEF Acquired, Slot
    <3>3. \A s \in S : slot'[s] = [Acquired(s) EXCEPT !.group = leader]
      BY <2>1
    <3> QED BY <2>1, <3>2, <3>3
  <2>3. ~group'[leader].resumed /\ \A t \in Slots \ S : group'[t] = group[t]
    BY <2>1 DEF SlotsInv, SlotsTypeOK
  <2>4. \A s \in S : Armed(s)'
    BY <2>2, <2>3, SlotsAssumption DEF Armed
  <2>5. \A s \in S : /\ SqeFor(s, waits + 1, FALSE).slot = s
                     /\ ~SqeFor(s, waits + 1, FALSE).link
                     /\ SqeFor(s, waits + 1, FALSE).gen = slot[s].gen
                     /\ SqeFor(s, waits + 1, FALSE).wait = waits + 1
    BY DEF SqeFor
  <2>6. PICK N : N = {SqeFor(s, waits + 1, FALSE) : s \in S}
    OBVIOUS
  <2>7. EntriesOfNext(N, S)
    <3>1. ASSUME NEW e \in N
          PROVE  e.slot \in S /\ e.gen = slot[e.slot].gen /\ e.wait = waits + 1
      <4>1. PICK s \in S : e = SqeFor(s, waits + 1, FALSE)
        BY <2>6
      <4> QED BY <2>5, <4>1
    <3>2. \A s \in S : SqeFor(s, waits + 1, FALSE) \in N
      BY <2>6
    <3>3. \A s \in S : \E e \in N : ~e.link /\ e.slot = s
      BY <2>5, <3>2
    <3> QED BY <3>1, <3>3 DEF EntriesOfNext
  <2>8. /\ Running(g) /\ waits' = waits + 1 /\ inflight' = inflight
        /\ status' = [status EXCEPT ![g] = "blocked"]
        /\ held' = [held EXCEPT ![g] = S]
        /\ wait' = [wait EXCEPT ![g] = waits + 1]
        /\ free' = free \ S /\ S # {}
    BY <2>1 DEF BeginsWait, BlocksHolding
  <2>9. S \subseteq free /\ JustArmed(S) /\ sq' = sq \cup N
    BY <2>1, <2>2, <2>3, <2>4, <2>6 DEF JustArmed
  <2> QED BY <2>7, <2>8, <2>9, WaitBeginsOwn
<1>3. ASSUME NEW s \in Slots, NEW linked \in BOOLEAN, BlockOnSlotFails(g, s, linked)
      PROVE  WaitInv'
  <2>1. /\ {s} \in SUBSET Slots /\ {s} \subseteq free
        /\ waits < MaxWaits /\ waits' = waits + 1 /\ inflight' = inflight
        /\ slot' = ReleaseAll({s}) /\ FailsToBegin
        /\ sq \subseteq sq' /\ sq' \subseteq sq \cup {SqeFor(t, waits + 1, FALSE) : t \in {s}}
    BY <1>3 DEF BlockOnSlotFails, BeginsWait
  <2> QED BY <2>1, FailedCallOwn
<1>4. ASSUME NEW S \in SUBSET Slots, NEW Q \in SUBSET S, PollMultiFails(g, S, Q)
      PROVE  WaitInv'
  <2>1. /\ S \subseteq free
        /\ waits < MaxWaits /\ waits' = waits + 1 /\ inflight' = inflight
        /\ slot' = ReleaseAll(S) /\ FailsToBegin
        /\ sq \subseteq sq' /\ sq' \subseteq sq \cup {SqeFor(t, waits + 1, FALSE) : t \in S}
    BY <1>4 DEF PollMultiFails, BeginsWait
  <2> QED BY <2>1, FailedCallOwn
<1>5. ASSUME PollMultiExhausts(g)
      PROVE  WaitInv'
  <2>1. /\ free \in SUBSET Slots
        /\ waits < MaxWaits /\ waits' = waits + 1 /\ inflight' = inflight
        /\ slot' = ReleaseAll(free) /\ FailsToBegin /\ sq' = sq
    BY <1>5 DEF PollMultiExhausts, BeginsWait, SlotsInv, SlotsTypeOK
  <2> QED BY <2>1, FailedCallOwn
<1> QED BY <1>1, <1>2, <1>3, <1>4, <1>5

(* Every step keeps whose completion it is.                                *)
LEMMA NextOwn == NobodySurvives /\ SlotsInv /\ WaitInv /\ [Next]_vars => WaitInv'
<1> SUFFICES ASSUME NobodySurvives, SlotsInv, WaitInv, [Next]_vars PROVE WaitInv'
  OBVIOUS
<1>1. status \in [Greenlets -> Statuses]
  BY DEF SlotsInv, SlotsTypeOK
<1>2. CASE UNCHANGED slotVars /\ (GreenletStep \/ LoopStep \/ LoopFails \/ RequestStop \/ ReapStop)
  <2>1. /\ Entries' \subseteq Entries
        /\ \A e \in Entries : ~e.link => e \in Entries'
    BY <1>2 DEF GreenletStep, Finish, Raise, Schedule, LoopStep, RunScheduled, SkipDead, ExitIdle,
                SubmitAndWait, LoopFails, EndBatch, RequestStop, ReapStop, Submitted, Entries
  <2>2. \A g \in Greenlets : status'[g] = "blocked" => status[g] = "blocked"
    BY <1>1, <1>2 DEF GreenletStep, Finish, Raise, Schedule, LoopStep, RunScheduled, SkipDead,
                ExitIdle, SubmitAndWait, LoopFails, EndBatch, RequestStop, ReapStop
  <2> QED BY <1>2, <2>1, <2>2, WaitsKept
<1>3. CASE WaitStep
  <2>1. PICK g \in Greenlets :
          \/ \E s \in Slots, linked \in BOOLEAN :
               BlockOnSlot(g, s, linked) \/ BlockOnSlotFails(g, s, linked)
          \/ \E S \in SUBSET Slots :
               \/ \E leader \in S : PollMulti(g, S, leader)
               \/ \E Q \in SUBSET S : PollMultiFails(g, S, Q)
          \/ PollMultiExhausts(g)
          \/ \E v \in Greenlets : Throw(g, v)
    BY <1>3 DEF WaitStep
  <2>2. ASSUME NEW v \in Greenlets, Throw(g, v) PROVE WaitInv'
    <3>1. /\ GivesBackSlots(v)
          /\ status' = [status EXCEPT ![g] = "scheduled", ![v] = "dead"]
      BY <2>2, LoopAssumption DEF Throw, ThrowsInto, NobodySurvives
    <3>2. /\ status'[v] # "blocked"
          /\ \A h \in Greenlets \ {v} : status'[h] = "blocked" => status[h] = "blocked"
      BY <1>1, <3>1
    <3> QED BY <3>1, <3>2, GivenBackOwn
  <2> QED BY <2>1, <2>2, BeginsOwn
<1>4. CASE ReapStep
  <2>1. PICK e \in inflight : ReapStale(e) \/ ReapSingle(e) \/ ReapGrouped(e)
    BY <1>4 DEF ReapStep
  <2>2. CASE ReapStale(e)
    <3>1. /\ ~Lookup(e) /\ e \in Entries /\ Entries' \subseteq Entries
          /\ \A f \in Entries : f # e => f \in Entries'
          /\ UNCHANGED <<status, slotVars>>
      BY <2>2 DEF ReapStale, Reaps, Entries, slotVars
    <3> QED BY <3>1, StaleOwn
  <2> QED BY <2>1, <2>2, ReapSingleOwn, ReapGroupedOwn
<1>5. CASE \E g \in Greenlets : ResumeWaiter(g)
  <2>1. PICK g \in Greenlets : ResumeWaiter(g)
    BY <1>5
  <2>2. GivesBackSlots(g) /\ status' = [status EXCEPT ![g] = "running"]
    BY <2>1 DEF ResumeWaiter
  <2>3. /\ status'[g] # "blocked"
        /\ \A h \in Greenlets \ {g} : status'[h] = "blocked" => status[h] = "blocked"
    BY <1>1, <2>2
  <2> QED BY <2>2, <2>3, GivenBackOwn
<1>6. CASE UNCHANGED vars
  BY <1>6, WaitsKept DEF vars, loopVars, Entries
<1> QED BY <1>2, <1>3, <1>4, <1>5, <1>6 DEF Next

(* At the start no entry exists and no slot is held.                       *)
LEMMA InitOwn == SlotsInit => WaitInv
<1> SUFFICES ASSUME SlotsInit PROVE WaitInv
  OBVIOUS
<1>1. /\ sq = {} /\ inflight = {} /\ free = Slots /\ waits = 0
      /\ held = [g \in Greenlets |-> {}]
      /\ slot = [s \in Slots |-> [gen |-> 0, greenlet |-> None, result |-> 0, group |-> None]]
      /\ \A g \in Greenlets : status[g] # "blocked"
  BY DEF SlotsInit, LoopInit
<1> QED BY <1>1 DEF WaitInv, GensBound, EntriesOwn, ArmedUnderway, ResultsOwn,
                    CompletedHasResult, Entries

(* The hub keeps both invariants.                                          *)
THEOREM WaitInvariant == NobodySurvives => (SafeSpec => [](SlotsInv /\ WaitInv))
<1> SUFFICES ASSUME NobodySurvives PROVE SafeSpec => [](SlotsInv /\ WaitInv)
  OBVIOUS
<1>1. SlotsInit => SlotsInv /\ WaitInv
  BY InitInv, InitOwn
<1>2. SlotsInv /\ WaitInv /\ [Next]_vars => (SlotsInv /\ WaitInv)'
  BY NextInv, NextOwn
<1> QED BY <1>1, <1>2, PTL DEF SafeSpec

(* A suspended greenlet is queued, or every operation of its wait is on    *)
(* its way to the kernel or in it and still able to wake the greenlet.     *)
THEOREM NoGreenletIsLost == NobodySurvives => (SafeSpec => []NoLostGreenlet)
<1>1. SlotsInv /\ WaitInv => NoLostGreenlet
  <2> SUFFICES ASSUME SlotsInv, WaitInv, phase # "failed",
                      NEW g \in Greenlets, status[g] = "blocked", ~InReady(g)
               PROVE  held[g] # {} /\ \A s \in held[g] : Underway(g, s)
    BY DEF NoLostGreenlet
  <2>1. PICK s \in held[g] : Armed(s)
    BY DEF SlotsInv, QueuedWhenDue, IsDue, Completed
  <2>2. \A t \in held[g] : Armed(t)
    BY <2>1, SlotsAssumption DEF SlotsInv, WaitShape, SingleWait, GroupWait, Armed
  <2>3. ASSUME NEW t \in held[g] PROVE Underway(g, t)
    <3>1. PICK e \in Entries : e.slot = t /\ Lookup(e)
      BY <2>2 DEF WaitInv, ArmedUnderway
    <3>2. e.wait = wait[g] /\ e.gen = slot[t].gen
      BY <3>1 DEF WaitInv, EntriesOwn, Lookup
    <3> QED BY <2>2, <3>1, <3>2 DEF Underway, Entries
  <2> QED BY <2>1, <2>3
<1> QED BY <1>1, WaitInvariant, PTL

(* A slot holds no result but its own wait's, and a suspended greenlet is  *)
(* queued only once an operation of its own has completed: no late         *)
(* completion reaches the next user of a slot.                             *)
THEOREM ResultsAreOwn == NobodySurvives => (SafeSpec => []OwnResult)
<1>1. SlotsInv /\ WaitInv => OwnResult
  <2> SUFFICES ASSUME SlotsInv, WaitInv, NEW g \in Greenlets
               PROVE  /\ \A s \in held[g] : slot[s].result \in {0, wait[g]}
                      /\ status[g] = "blocked" /\ InReady(g) =>
                           \E s \in held[g] : slot[s].result = wait[g]
    BY DEF OwnResult
  <2>1. \A s \in held[g] : slot[s].result \in {0, wait[g]}
    BY DEF WaitInv, ResultsOwn
  <2>2. status[g] = "blocked" /\ InReady(g) => Completed(g)
    BY DEF SlotsInv, ReadyMeans, IsDue
  <2> QED BY <2>1, <2>2 DEF WaitInv, CompletedHasResult
<1> QED BY <1>1, WaitInvariant, PTL
=============================================================================
