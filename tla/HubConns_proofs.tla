-------------------------- MODULE HubConns_proofs --------------------------
(***************************************************************************)
(* Proofs about HubConns for any number of greenlets, connections, fds and *)
(* operations: every property when the hub is used as the server uses it,  *)
(* and then those of the pool and the fd map when greenlets share          *)
(* descriptors.                                                            *)
(***************************************************************************)
EXTENDS HubConns, HubLoop_proofs, Integers

(* Nobody uses another's descriptor or throws, there is one acceptor, and  *)
(* as many connections as the process may have fds.                        *)
ServerUse ==
  /\ Shared = {} /\ Fates = {}
  /\ IsFiniteSet(Greenlets) /\ IsFiniteSet(Conns) /\ IsFiniteSet(Fds)
  /\ Cardinality(Fds) <= Cardinality(Conns)

(* What kinds of SQE the server's use of the hub leads to: no cancel.      *)
Closes == {"close", "rawclose"}
SqeKinds == {"accept", "connect"} \cup Transfers \cup Closes
CallKinds == {"none", "accept", "connect"} \cup Transfers

ConnRecord ==
  [desc : Desc \cup {NoDesc}, state : ConnStates, gen : Nat,
   greenlet : Greenlets \cup {None}, pending : Nat, result : Nat]
CallRecord ==
  [kind : CallKinds, conn : Conns \cup {None}, op : Nat, desc : Desc \cup {NoDesc}]
AcceptRecord ==
  [greenlet : Greenlets \cup {None}, pending : BOOLEAN, result : Desc \cup {NoDesc}]
SqeRecord ==
  [kind : SqeKinds, conn : Conns \cup {None}, gen : Nat, desc : Desc \cup {NoDesc},
   op : Nat, link : {FALSE}]

Sqes == sq \cup inflight

Types ==
  /\ status \in [Greenlets -> Statuses]
  /\ ready \in Seq(Greenlets)
  /\ activeWaits \in Nat
  /\ phase \in Phases
  /\ conn \in [Conns -> ConnRecord]
  /\ freeConns \in SUBSET Conns
  /\ fdToConn \in [Fds -> Conns \cup {None}]
  /\ accept \in AcceptRecord
  /\ call \in [Greenlets -> CallRecord]
  /\ own \in [Greenlets -> SUBSET Desc]
  /\ file \in [Fds -> Nat]
  /\ files \in Nat /\ ops \in Nat
  /\ sq \subseteq SqeRecord /\ inflight \subseteq SqeRecord

Blocked(g) == status[g] = "blocked"

(* The operation g waits for is queued or in the kernel.                   *)
Awaits(g) == \E e \in Sqes : e.op = call[g].op

(* It has completed, and g has not run since.                              *)
Due(g) == Blocked(g) /\ ~Awaits(g)

Live(d) == d \in Desc /\ d.file # 0 /\ file[d.fd] = d.file

(* Who is queued has something to do, and is queued once.                  *)
ReadyOK ==
  /\ \A i, j \in 1..Len(ready) : ready[i] = ready[j] => i = j
  /\ \A g \in Greenlets : InReady(g) => status[g] = "scheduled" \/ Due(g)
  /\ phase # "failed" => \A g \in Greenlets : Due(g) => InReady(g)

(* Every SQE has a number of its own.                                      *)
OpsOK ==
  /\ sq \cap inflight = {}
  /\ \A e \in Sqes : 0 < e.op /\ e.op <= ops
  /\ \A e, f \in Sqes : e.op = f.op => e = f
  /\ \A g \in Greenlets : call[g].op <= ops
  /\ \A g \in Greenlets : Blocked(g) => 0 < call[g].op
  /\ \A g, h \in Greenlets : Blocked(g) /\ Blocked(h) /\ call[g].op = call[h].op => g = h
  /\ \A g \in Greenlets : \A e \in Sqes : Blocked(g) /\ e.op = call[g].op => e.kind = call[g].kind

TransferOK(g) ==
  LET c == call[g].conn IN
  /\ c \in Conns
  /\ call[g].desc \in own[g]
  /\ fdToConn[call[g].desc.fd] = c
  /\ Awaits(g) => conn[c].greenlet = g
  /\ ~Awaits(g) => conn[c].greenlet = None /\ conn[c].result = call[g].op

ConnectOK(g) ==
  LET c == call[g].conn
      d == call[g].desc
  IN  /\ c \in Conns
      /\ conn[c].state = "idle"
      /\ Live(d)
      /\ fdToConn[d.fd] = c
      /\ \A h \in Greenlets : d \notin own[h]
      /\ \A h \in Greenlets \ {g} : call[h].kind = "connect" => call[h].desc # d

(* What a suspended call relies on.                                        *)
CallsOK ==
  /\ \A g \in Greenlets : Blocked(g) <=> call[g].kind # "none"
  /\ \A g \in Greenlets : ~Blocked(g) => call[g] = NoCall
  /\ \A g \in Greenlets : call[g].kind \in Transfers => TransferOK(g)
  /\ \A g \in Greenlets : call[g].kind = "connect" => ConnectOK(g)

Fetched(g) == Due(g) /\ call[g].kind = "accept"

(* One accept at a time, and its result is taken before the next.          *)
AcceptOK ==
  /\ accept.pending <=> accept.greenlet # None
  /\ accept.pending =>
       /\ call[accept.greenlet].kind = "accept"
       /\ Awaits(accept.greenlet)
  /\ \A e \in Sqes : e.kind = "accept" => accept.pending /\ e.op = call[accept.greenlet].op
  /\ \A g \in Greenlets : call[g].kind = "accept" /\ Awaits(g) => accept.greenlet = g
  /\ \A g, h \in Greenlets : Fetched(g) /\ Fetched(h) => g = h
  /\ \A g \in Greenlets : Fetched(g) =>
       /\ \A e \in inflight : e.kind # "accept"
       /\ accept.result # NoDesc =>
            /\ Live(accept.result)
            /\ fdToConn[accept.result.fd] = None
            /\ \A h \in Greenlets : accept.result \notin own[h]

TransferSqeOK(e) ==
  /\ e.conn \in Conns \ freeConns
  /\ conn[e.conn].gen = e.gen
  /\ conn[e.conn].state \in {"reading", "writing"}
  /\ conn[e.conn].greenlet \in Greenlets
  /\ call[conn[e.conn].greenlet].op = e.op

CloseSqeOK(e) ==
  /\ Live(e.desc)
  /\ \A g \in Greenlets : e.desc \notin own[g]
  /\ e.kind = "close" =>
       /\ e.conn \in Conns \ freeConns
       /\ conn[e.conn].gen = e.gen
       /\ conn[e.conn].state = "closing"
       /\ conn[e.conn].desc = e.desc
  /\ e.kind = "rawclose" =>
       /\ e.conn = None
       /\ fdToConn[e.desc.fd] = None
       /\ \A g \in Greenlets : Fetched(g) => accept.result # e.desc

(* An SQE names a connection that still is what it was when it was queued. *)
SqesOK ==
  /\ \A e \in Sqes : e.kind \in {"accept", "connect"} => e.conn = None
  /\ \A e \in Sqes : e.kind = "connect" => \E g \in Greenlets : call[g].kind = "connect" /\ call[g].op = e.op
  /\ \A e \in Sqes : e.kind \in Transfers => TransferSqeOK(e)
  /\ \A e \in Sqes : e.kind \in Closes => CloseSqeOK(e)
  /\ \A e, f \in Sqes : e.kind \in Closes /\ f.kind \in Closes /\ e.desc = f.desc => e = f

ConnOK(c) ==
  /\ Live(conn[c].desc)
  /\ fdToConn[conn[c].desc.fd] = c
  /\ conn[c].state \in {"idle", "reading", "writing", "closing"}
  /\ conn[c].state = "idle" => conn[c].pending = 0 /\ conn[c].greenlet = None
  /\ conn[c].state \in {"reading", "writing"} =>
       LET g == conn[c].greenlet
       IN  /\ conn[c].pending = 1
           /\ g \in Greenlets
           /\ call[g].kind \in Transfers /\ call[g].conn = c /\ Awaits(g)
  /\ conn[c].state = "closing" =>
       /\ conn[c].pending = 1 /\ conn[c].greenlet = None
       /\ \E e \in Sqes : e.kind = "close" /\ e.conn = c

ConnsOK ==
  /\ \A c \in freeConns : conn[c].greenlet = None
  /\ \A c \in Conns \ freeConns : ConnOK(c)
  /\ \A fd \in Fds : fdToConn[fd] # None => fdToConn[fd] \notin freeConns /\ conn[fdToConn[fd]].desc.fd = fd

(* Who holds a descriptor holds it alone, and it names the file it did.    *)
OwnOK ==
  /\ \A g \in Greenlets : \A d \in own[g] : Live(d)
  /\ \A g, h \in Greenlets : g # h => own[g] \cap own[h] = {}
  /\ \A g \in Greenlets : status[g] = "unborn" => own[g] = {}

ConnsInv ==
  /\ Types /\ ReadyOK /\ OpsOK /\ CallsOK /\ AcceptOK /\ SqesOK /\ ConnsOK /\ OwnOK
  /\ ConnWaitsExact

-----------------------------------------------------------------------------
(* What the invariant says of one connection or descriptor.                *)

(* Two descriptors that both name their file and have the same fd are one. *)
LEMMA SameFd ==
  ASSUME NEW d, NEW e, Live(d), Live(e), d.fd = e.fd
  PROVE  d = e
BY DEF Live, Desc

(* A connection that is not free is the one its fd maps to.                *)
LEMMA MappedConn ==
  ASSUME ConnsInv, NEW d, Live(d), fdToConn[d.fd] # None
  PROVE  /\ fdToConn[d.fd] \in Conns \ freeConns
         /\ conn[fdToConn[d.fd]].desc = d
<1> DEFINE c == fdToConn[d.fd]
<1>1. c \in Conns \ freeConns /\ conn[c].desc.fd = d.fd
  BY DEF ConnsInv, Types, ConnsOK, Live, Desc
<1>2. Live(conn[c].desc)
  BY <1>1 DEF ConnsInv, ConnsOK, ConnOK
<1> QED BY <1>1, <1>2, SameFd

(* Whoever owns a descriptor and awaits nothing finds its connection idle: *)
(* a transfer or a close under way would be his or have taken it from him. *)
LEMMA OwnConnIdle ==
  ASSUME ConnsInv, NEW g \in Greenlets, NEW d \in own[g],
         ~(Blocked(g) /\ Awaits(g)), fdToConn[d.fd] # None
  PROVE  LET c == fdToConn[d.fd]
         IN  /\ c \in Conns \ freeConns
             /\ conn[c].desc = d
             /\ conn[c].state = "idle" /\ conn[c].pending = 0 /\ conn[c].greenlet = None
<1> DEFINE c == fdToConn[d.fd]
<1>1. c \in Conns \ freeConns /\ conn[c].desc = d
  BY MappedConn DEF ConnsInv, OwnOK
<1>2. ConnOK(c)
  BY <1>1 DEF ConnsInv, ConnsOK
<1>3. conn[c].state # "closing"
  <2> SUFFICES ASSUME conn[c].state = "closing" PROVE FALSE
    OBVIOUS
  <2>1. PICK e \in Sqes : e.kind = "close" /\ e.conn = c
    BY <1>2 DEF ConnOK
  <2>2. e.desc = d /\ \A h \in Greenlets : e.desc \notin own[h]
    BY <1>1, <2>1 DEF ConnsInv, SqesOK, CloseSqeOK, Closes
  <2> QED BY <2>2
<1>4. conn[c].state \notin {"reading", "writing"}
  <2> SUFFICES ASSUME conn[c].state \in {"reading", "writing"} PROVE FALSE
    OBVIOUS
  <2> DEFINE h == conn[c].greenlet
  <2>1. h \in Greenlets /\ call[h].kind \in Transfers /\ call[h].conn = c /\ Awaits(h)
    BY <1>2 DEF ConnOK
  <2>2. call[h].desc \in own[h] /\ fdToConn[call[h].desc.fd] = c /\ Blocked(h)
    BY <2>1 DEF ConnsInv, CallsOK, TransferOK, Transfers
  <2>3. c # None /\ Live(call[h].desc)
    BY <1>1, <2>1, <2>2, ConnsAssumption DEF ConnsInv, OwnOK
  <2>4. call[h].desc = d
    BY <1>1, <2>2, <2>3, MappedConn
  <2>5. h = g
    BY <2>1, <2>2, <2>4 DEF ConnsInv, OwnOK
  <2> QED BY <2>1, <2>2, <2>5
<1> QED BY <1>1, <1>2, <1>3, <1>4 DEF ConnOK

(* The connection of a socket that is being connected is idle.             *)
LEMMA ConnectIdle ==
  ASSUME ConnsInv, NEW g \in Greenlets, call[g].kind = "connect"
  PROVE  LET c == call[g].conn
         IN  /\ c \in Conns \ freeConns
             /\ fdToConn[call[g].desc.fd] = c
             /\ conn[c].desc = call[g].desc
             /\ conn[c].state = "idle" /\ conn[c].pending = 0 /\ conn[c].greenlet = None
<1> DEFINE c == call[g].conn
<1>1. /\ c \in Conns /\ conn[c].state = "idle"
      /\ Live(call[g].desc) /\ fdToConn[call[g].desc.fd] = c
  BY DEF ConnsInv, CallsOK, ConnectOK
<1>2. c \in Conns \ freeConns /\ conn[c].desc = call[g].desc
  BY <1>1, MappedConn, ConnsAssumption
<1> QED BY <1>1, <1>2 DEF ConnsInv, ConnsOK, ConnOK

-----------------------------------------------------------------------------
(* The ready queue.                                                        *)

(* The queue after h is put on it.                                         *)
LEMMA Queued ==
  ASSUME ConnsInv, NEW h \in Greenlets, ~InReady(h), ready' = Append(ready, h)
  PROVE  /\ ready' \in Seq(Greenlets)
         /\ \A g \in Greenlets : InReady(g)' <=> g = h \/ InReady(g)
         /\ \A i, j \in 1..Len(ready') : ready'[i] = ready'[j] => i = j
<1>1. ready \in Seq(Greenlets) /\ Distinct(ready)
  BY DEF ConnsInv, Types, ReadyOK, Distinct
<1>2. /\ Append(ready, h) \in Seq(Greenlets)
      /\ \A y : Occurs(Append(ready, h), y) <=> y = h \/ Occurs(ready, y)
      /\ ~Occurs(ready, h) => Distinct(Append(ready, h))
  BY <1>1, AppendOccurs
<1> QED BY <1>2 DEF InReady, Occurs, Distinct

(* The queue after h is taken off it.                                      *)
LEMMA Drained ==
  ASSUME ConnsInv, NEW h \in Greenlets, Drains(h), ready' = Tail(ready)
  PROVE  /\ ready' \in Seq(Greenlets)
         /\ InReady(h)
         /\ \A g \in Greenlets : InReady(g)' <=> InReady(g) /\ g # h
         /\ \A i, j \in 1..Len(ready') : ready'[i] = ready'[j] => i = j
         /\ phase # "failed"
<1>1. ready \in Seq(Greenlets) /\ Distinct(ready) /\ ready # <<>> /\ h = Head(ready)
  BY DEF ConnsInv, Types, ReadyOK, Distinct, Drains
<1>2. /\ Tail(ready) \in Seq(Greenlets)
      /\ Distinct(Tail(ready))
      /\ \A y : Occurs(Tail(ready), y) <=> Occurs(ready, y) /\ y # h
  BY <1>1, TailOccurs
<1>3. InReady(h)
  BY <1>1 DEF InReady
<1> QED BY <1>2, <1>3 DEF InReady, Occurs, Distinct, Drains

(* A running greenlet is not queued and waits for nothing.                 *)
LEMMA RunningFree ==
  ASSUME ConnsInv, NEW g \in Greenlets, Running(g)
  PROVE  /\ ~InReady(g) /\ ~Blocked(g) /\ call[g] = NoCall /\ call[g].kind = "none"
         /\ phase = "drain"
<1>1. status[g] = "running" /\ phase = "drain"
  BY DEF Running
<1>2. ~Blocked(g)
  BY <1>1 DEF Blocked
<1>3. ~InReady(g)
  BY <1>1, <1>2 DEF ConnsInv, ReadyOK, Due
<1>4. call[g] = NoCall
  BY <1>2 DEF ConnsInv, CallsOK
<1> QED BY <1>1, <1>2, <1>3, <1>4 DEF NoCall

-----------------------------------------------------------------------------
(* The SQEs.                                                               *)

(* After an SQE is queued.                                                 *)
LEMMA SqeQueued ==
  ASSUME ConnsInv, NEW e \in SqeRecord, Queues(e), e.op = ops + 1, inflight' = inflight
  PROVE  /\ Sqes' = Sqes \cup {e} /\ e \notin Sqes /\ e \in sq'
         /\ sq' \subseteq SqeRecord /\ inflight' \subseteq SqeRecord
         /\ sq' \cap inflight' = {}
         /\ ops' \in Nat /\ ops' = ops + 1 /\ ops \in Nat
         /\ \A f \in Sqes : f.op <= ops /\ f.op # e.op
         /\ \A f \in Sqes' : 0 < f.op /\ f.op <= ops'
         /\ \A f, k \in Sqes' : f.op = k.op => f = k
         /\ \A g \in Greenlets : call[g].op <= ops /\ call[g].op # e.op
<1>1. ops \in Nat /\ ops' = ops + 1 /\ sq' = sq \cup {e}
  BY DEF ConnsInv, Types, Queues
<1>2. \A f \in Sqes : f.op \in Nat /\ 0 < f.op /\ f.op <= ops
  BY DEF ConnsInv, Types, OpsOK, Sqes, SqeRecord
<1>3. \A g \in Greenlets : call[g].op \in Nat /\ call[g].op <= ops
  BY DEF ConnsInv, Types, OpsOK, CallRecord
<1>4. \A f, k \in Sqes : f.op = k.op => f = k
  BY DEF ConnsInv, OpsOK
<1>5. Sqes' = Sqes \cup {e}
  BY <1>1 DEF Sqes
<1>6. \A f \in Sqes : f.op # e.op
  BY <1>1, <1>2
<1>7. \A f \in Sqes' : 0 < f.op /\ f.op <= ops'
  BY <1>1, <1>2, <1>5
<1>8. \A f, k \in Sqes' : f.op = k.op => f = k
  BY <1>4, <1>5, <1>6
<1>9. e \notin Sqes /\ sq' \cap inflight' = {}
  BY <1>1, <1>6 DEF ConnsInv, OpsOK, Sqes
<1>10. sq' \subseteq SqeRecord /\ inflight' \subseteq SqeRecord
  BY <1>1 DEF ConnsInv, Types
<1>11. \A g \in Greenlets : call[g].op # e.op
  BY <1>1, <1>3
<1>12. e \in sq' /\ ops' \in Nat
  BY <1>1
<1> QED BY <1>1, <1>2, <1>3, <1>5, <1>6, <1>7, <1>8, <1>9, <1>10, <1>11, <1>12

(* After a completion is reaped.                                           *)
LEMMA SqeReaped ==
  ASSUME ConnsInv, NEW e \in inflight, Reaps(e), UNCHANGED <<sq, ops>>
  PROVE  /\ Sqes' = Sqes \ {e} /\ e \in Sqes
         /\ sq' \subseteq SqeRecord /\ inflight' \subseteq SqeRecord
         /\ sq' \cap inflight' = {}
         /\ \A f \in Sqes' : f # e /\ f.op # e.op
         /\ \A f \in Sqes' : 0 < f.op /\ f.op <= ops'
         /\ \A f, k \in Sqes' : f.op = k.op => f = k
         /\ \A g \in Greenlets : Awaits(g)' <=> Awaits(g) /\ call[g].op # e.op
         /\ phase # "failed" /\ phase' = "reap"
<1>1. inflight' = inflight \ {e} /\ sq' = sq /\ call' = call /\ ops' = ops
  BY DEF Reaps
<1>2. sq \cap inflight = {} /\ \A f, k \in Sqes : f.op = k.op => f = k
  BY DEF ConnsInv, OpsOK
<1>3. Sqes' = Sqes \ {e} /\ e \in Sqes
  BY <1>1, <1>2 DEF Sqes
<1>4. \A g \in Greenlets : Awaits(g)' <=> Awaits(g) /\ call[g].op # e.op
  BY <1>1, <1>2, <1>3 DEF Awaits
<1>5. phase # "failed" /\ phase' = "reap"
  BY DEF Reaps
<1>6. \A f \in Sqes : 0 < f.op /\ f.op <= ops
  BY DEF ConnsInv, OpsOK
<1>7. sq' \subseteq SqeRecord /\ inflight' \subseteq SqeRecord /\ sq' \cap inflight' = {}
  BY <1>1, <1>2 DEF ConnsInv, Types
<1> QED BY <1>1, <1>2, <1>3, <1>4, <1>5, <1>6, <1>7

-----------------------------------------------------------------------------
(* Steps that leave connections and operations alone.                      *)

ConnWaiters == {c \in Conns : conn[c].greenlet # None}
Connectors == {g \in Greenlets : Connecting(g)}

(* The two counts in ConnWaitsExact, by name.                              *)
LEMMA CountMeans ==
  ConnWaitsExact <=>
    activeWaits = Cardinality(ConnWaiters) + Cardinality(Connectors)
                  + (IF accept.pending THEN 1 ELSE 0)
BY DEF ConnWaitsExact, ConnWaiters, Connectors

(* A connect waits as long as its operation does.                          *)
LEMMA ConnectingMeans ==
  \A g \in Greenlets : Connecting(g) <=> call[g].kind = "connect" /\ Awaits(g)
BY DEF Connecting, Awaits, Sqes

(* What does not concern connections changes nothing but the queue.        *)
LEMMA HubSame ==
  ASSUME ConnsInv, UNCHANGED <<connVars, envVars, ops, activeWaits>>, Sqes' = Sqes,
         sq' \cap inflight' = {},
         \A g \in Greenlets : Blocked(g)' <=> Blocked(g),
         \A g \in Greenlets : status'[g] = "unborn" => status[g] = "unborn",
         inflight' = inflight \/ \A g \in Greenlets : ~Due(g)
  PROVE  /\ OpsOK' /\ CallsOK' /\ AcceptOK' /\ SqesOK' /\ ConnsOK' /\ OwnOK' /\ ConnWaitsExact'
         /\ \A g \in Greenlets : Due(g)' <=> Due(g)
<1> USE DEF connVars, envVars
<1>1. \A g \in Greenlets : (Awaits(g)' <=> Awaits(g)) /\ (Due(g)' <=> Due(g)) /\ (Fetched(g)' <=> Fetched(g))
  BY DEF Awaits, Due, Fetched
<1>2. OpsOK'
  BY DEF ConnsInv, OpsOK
<1>3. CallsOK'
  BY <1>1 DEF ConnsInv, CallsOK, TransferOK, ConnectOK, Live
<1>4. AcceptOK'
  <2>1. accept.pending => accept.greenlet \in Greenlets
    BY DEF ConnsInv, Types, AcceptOK, AcceptRecord
  <2>2. \A g \in Greenlets : Fetched(g)' => \A e \in inflight' : e.kind # "accept"
    BY <1>1 DEF ConnsInv, AcceptOK, Fetched
  <2> QED BY <1>1, <2>1, <2>2 DEF ConnsInv, AcceptOK, Live
<1>5. SqesOK'
  BY <1>1 DEF ConnsInv, SqesOK, TransferSqeOK, CloseSqeOK, Live
<1>6. ConnsOK'
  BY <1>1 DEF ConnsInv, ConnsOK, ConnOK, Live
<1>7. OwnOK'
  BY DEF ConnsInv, OwnOK, Live
<1>8. ConnWaitsExact'
  <2>1. Connectors' = Connectors
    BY <1>1, ConnectingMeans DEF Connectors, Connecting, Awaits, Sqes
  <2>2. ConnWaiters' = ConnWaiters
    BY DEF ConnWaiters
  <2> QED BY <2>1, <2>2, CountMeans DEF ConnsInv, ConnWaitsExact, ConnWaiters, Connectors
<1> QED BY <1>1, <1>2, <1>3, <1>4, <1>5, <1>6, <1>7, <1>8

(* Creating, ending and starting greenlets keeps the invariant.            *)
LEMMA GreenletStepKeeps ==
  ASSUME ConnsInv, GreenletStep, UNCHANGED <<connVars, envVars, ops>>
  PROVE  ConnsInv'
<1>1. PICK g \in Greenlets : Finish(g) \/ Raise(g) \/ \E h \in Greenlets : Schedule(g, h)
  BY DEF GreenletStep
<1>2. Running(g)
  BY <1>1 DEF Finish, Raise, Schedule
<1>3. ~InReady(g) /\ ~Blocked(g) /\ phase = "drain" /\ status[g] = "running"
  BY <1>2, RunningFree DEF Running
<1>4. UNCHANGED <<activeWaits, sq, inflight>> /\ Sqes' = Sqes /\ sq' \cap inflight' = {}
  BY <1>1 DEF Finish, Raise, Schedule, Sqes, ConnsInv, OpsOK
<1>5. status \in [Greenlets -> Statuses] /\ ready \in Seq(Greenlets)
  BY DEF ConnsInv, Types
<1>6. CASE Finish(g) \/ Raise(g)
  <2>1. /\ status' = [status EXCEPT ![g] = "dead"]
        /\ ready' \in {ready, <<>>} /\ (ready' # ready => phase' = "failed")
        /\ phase' \in {phase, "failed"}
    BY <1>6 DEF Finish, Raise
  <2>2. /\ status' \in [Greenlets -> Statuses] /\ status'[g] = "dead"
        /\ \A h \in Greenlets : h # g => status'[h] = status[h]
    BY <1>5, <2>1 DEF Statuses
  <2>3. \A h \in Greenlets : Blocked(h)' <=> Blocked(h)
    BY <1>3, <2>2 DEF Blocked
  <2>4. \A h \in Greenlets : status'[h] = "unborn" => status[h] = "unborn"
    BY <2>2
  <2>5. /\ OpsOK' /\ CallsOK' /\ AcceptOK' /\ SqesOK' /\ ConnsOK' /\ OwnOK' /\ ConnWaitsExact'
        /\ \A h \in Greenlets : Due(h)' <=> Due(h)
    BY <1>4, <2>3, <2>4, HubSame
  <2>6. \A h \in Greenlets : InReady(h)' => InReady(h)
    BY <2>1 DEF InReady
  <2>7. ready' \in Seq(Greenlets)
    <3>1. <<>> \in Seq(Greenlets)
      OBVIOUS
    <3> QED BY <1>5, <2>1, <3>1
  <2>8. ReadyOK'
    <3>1. \A i, j \in 1..Len(ready') : ready'[i] = ready'[j] => i = j
      BY <2>1 DEF ConnsInv, ReadyOK
    <3>2. \A h \in Greenlets : InReady(h)' => status'[h] = "scheduled" \/ Due(h)'
      BY <1>3, <2>2, <2>5, <2>6 DEF ConnsInv, ReadyOK
    <3>3. phase' # "failed" => \A h \in Greenlets : Due(h)' => InReady(h)'
      BY <1>3, <2>1, <2>5 DEF ConnsInv, ReadyOK, InReady
    <3> QED BY <3>1, <3>2, <3>3 DEF ReadyOK
  <2>9. phase' \in Phases
    BY <1>3, <2>1 DEF Phases
  <2> QED BY <1>4, <2>2, <2>5, <2>7, <2>8, <2>9 DEF ConnsInv, Types, connVars, envVars
<1>7. CASE \E h \in Greenlets : Schedule(g, h)
  <2>1. PICK h \in Greenlets : Schedule(g, h)
    BY <1>7
  <2>2. status[h] = "unborn" /\ ~Blocked(h) /\ ~InReady(h)
    BY <2>1 DEF Schedule, Blocked, ConnsInv, ReadyOK, Due
  <2>3. /\ ready' \in Seq(Greenlets)
        /\ \A k \in Greenlets : InReady(k)' <=> k = h \/ InReady(k)
        /\ \A i, j \in 1..Len(ready') : ready'[i] = ready'[j] => i = j
    BY <2>1, <2>2, Queued DEF Schedule
  <2>4. /\ status' \in [Greenlets -> Statuses] /\ status'[h] = "scheduled"
        /\ \A k \in Greenlets : k # h => status'[k] = status[k]
        /\ phase' = phase
    BY <1>5, <2>1 DEF Statuses, Schedule
  <2>5. \A k \in Greenlets : Blocked(k)' <=> Blocked(k)
    BY <2>2, <2>4 DEF Blocked
  <2>6. \A k \in Greenlets : status'[k] = "unborn" => status[k] = "unborn"
    BY <2>4
  <2>7. /\ OpsOK' /\ CallsOK' /\ AcceptOK' /\ SqesOK' /\ ConnsOK' /\ OwnOK' /\ ConnWaitsExact'
        /\ \A k \in Greenlets : Due(k)' <=> Due(k)
    BY <1>4, <2>5, <2>6, HubSame
  <2>8. ReadyOK'
    BY <2>3, <2>4, <2>7 DEF ConnsInv, ReadyOK
  <2> QED BY <1>4, <2>3, <2>4, <2>7, <2>8 DEF ConnsInv, Types, connVars, envVars
<1> QED BY <1>1, <1>6, <1>7

(* So do the loop's own steps.                                             *)
LEMMA LoopStepKeeps ==
  ASSUME ConnsInv, LoopStep \/ LoopFails \/ RequestStop \/ ReapStop,
         UNCHANGED <<connVars, envVars, ops>>
  PROVE  ConnsInv'
<1>0. status \in [Greenlets -> Statuses] /\ sq \cap inflight = {}
  BY DEF ConnsInv, Types, OpsOK
<1>1. CASE \E g \in Greenlets : RunScheduled(g) \/ SkipDead(g)
  <2>1. PICK g \in Greenlets : RunScheduled(g) \/ SkipDead(g)
    BY <1>1
  <2>2. /\ Drains(g) /\ ready' = Tail(ready)
        /\ status[g] \in {"scheduled", "dead"}
        /\ status' = [status EXCEPT ![g] = IF @ = "dead" THEN "dead" ELSE "running"]
        /\ UNCHANGED <<activeWaits, phase, stop, sq, inflight>>
    BY <1>0, <2>1 DEF RunScheduled, SkipDead
  <2>3. /\ ready' \in Seq(Greenlets) /\ InReady(g)
        /\ \A k \in Greenlets : InReady(k)' <=> InReady(k) /\ k # g
        /\ \A i, j \in 1..Len(ready') : ready'[i] = ready'[j] => i = j
    BY <2>2, Drained
  <2>4. /\ status' \in [Greenlets -> Statuses] /\ status'[g] \in {"running", "dead"}
        /\ \A k \in Greenlets : k # g => status'[k] = status[k]
    BY <1>0, <2>2 DEF Statuses
  <2>5. /\ \A k \in Greenlets : Blocked(k)' <=> Blocked(k)
        /\ \A k \in Greenlets : status'[k] = "unborn" => status[k] = "unborn"
        /\ ~Blocked(g)
    BY <2>2, <2>4 DEF Blocked
  <2>6. Sqes' = Sqes
    BY <2>2 DEF Sqes
  <2>7. /\ OpsOK' /\ CallsOK' /\ AcceptOK' /\ SqesOK' /\ ConnsOK' /\ OwnOK' /\ ConnWaitsExact'
        /\ \A k \in Greenlets : Due(k)' <=> Due(k)
    BY <1>0, <2>2, <2>5, <2>6, HubSame
  <2>8. ReadyOK'
    BY <2>2, <2>3, <2>4, <2>5, <2>7 DEF ConnsInv, ReadyOK, Due
  <2> QED BY <2>2, <2>3, <2>4, <2>7, <2>8 DEF ConnsInv, Types, connVars, envVars
<1>2. CASE ExitIdle \/ SubmitAndWait \/ LoopFails \/ EndBatch \/ RequestStop \/ ReapStop
  <2>1. /\ UNCHANGED <<status, ready, activeWaits>>
        /\ phase' \in Phases /\ (phase = "failed" => phase' = "failed")
    BY <1>2 DEF ExitIdle, SubmitAndWait, LoopFails, EndBatch, RequestStop, ReapStop, Phases, Stopped,
                ConnsInv, Types
  <2>2. \/ UNCHANGED <<sq, inflight>>
        \/ sq' = {} /\ inflight' = Submitted /\ ready = <<>> /\ phase = "drain"
    BY <1>2 DEF ExitIdle, SubmitAndWait, LoopFails, EndBatch, RequestStop, ReapStop
  <2>3. Sqes' = Sqes /\ sq' \cap inflight' = {}
    BY <1>0, <2>2 DEF Sqes, Submitted, ConnsInv, Types, SqeRecord
  <2>4. inflight' = inflight \/ \A g \in Greenlets : ~Due(g)
    BY <2>2 DEF ConnsInv, ReadyOK, InReady
  <2>5. /\ OpsOK' /\ CallsOK' /\ AcceptOK' /\ SqesOK' /\ ConnsOK' /\ OwnOK' /\ ConnWaitsExact'
        /\ \A k \in Greenlets : Due(k)' <=> Due(k)
    BY <2>1, <2>3, <2>4, HubSame DEF Blocked
  <2>6. ReadyOK'
    BY <2>1, <2>5 DEF ConnsInv, ReadyOK, InReady
  <2>7. sq' \subseteq SqeRecord /\ inflight' \subseteq SqeRecord
    BY <2>2 DEF ConnsInv, Types, Submitted
  <2> QED BY <2>1, <2>5, <2>6, <2>7 DEF ConnsInv, Types, connVars, envVars
<1> QED BY <1>1, <1>2 DEF LoopStep

-----------------------------------------------------------------------------
(* Operations on the pool and on files, field by field.                    *)

(* Nothing else of a connection changes.                                   *)
OthersSame(c) == \A b \in Conns : b # c => conn'[b] = conn[b]

(* What registering a descriptor does.                                     *)
LEMMA RegistersMeans ==
  ASSUME ConnsInv, NEW c \in freeConns, NEW d \in Desc, Registers(c, d)
  PROVE  /\ conn' \in [Conns -> ConnRecord] /\ OthersSame(c)
         /\ conn'[c].desc = d /\ conn'[c].state = "idle" /\ conn'[c].gen = conn[c].gen
         /\ conn'[c].pending = 0 /\ conn'[c].greenlet = None
         /\ c \in Conns
         /\ freeConns' = freeConns \ {c} /\ freeConns' \in SUBSET Conns
         /\ fdToConn' \in [Fds -> Conns \cup {None}]
         /\ fdToConn'[d.fd] = c
         /\ \A fd \in Fds : fd # d.fd => fdToConn'[fd] = fdToConn[fd]
<1>1. /\ conn \in [Conns -> ConnRecord] /\ c \in Conns /\ conn[c].greenlet = None
      /\ fdToConn \in [Fds -> Conns \cup {None}] /\ freeConns \in SUBSET Conns
      /\ conn[c] \in ConnRecord
  BY DEF ConnsInv, Types, ConnsOK
<1>2. conn' = [conn EXCEPT ![c] = [desc |-> d, state |-> "idle", gen |-> conn[c].gen,
                                   greenlet |-> None, pending |-> 0, result |-> 0]]
  BY <1>1 DEF Registers
<1>3. [desc |-> d, state |-> "idle", gen |-> conn[c].gen,
       greenlet |-> None, pending |-> 0, result |-> 0] \in ConnRecord
  BY <1>1 DEF ConnRecord, ConnStates
<1>4. conn' \in [Conns -> ConnRecord] /\ OthersSame(c)
  BY <1>1, <1>2, <1>3 DEF OthersSame
<1>5. conn'[c] = [desc |-> d, state |-> "idle", gen |-> conn[c].gen,
                  greenlet |-> None, pending |-> 0, result |-> 0]
  BY <1>1, <1>2
<1>6. d.fd \in Fds
  BY DEF Desc
<1>7. /\ fdToConn' \in [Fds -> Conns \cup {None}]
      /\ fdToConn'[d.fd] = c
      /\ \A fd \in Fds : fd # d.fd => fdToConn'[fd] = fdToConn[fd]
      /\ freeConns' = freeConns \ {c} /\ freeConns' \in SUBSET Conns
  BY <1>1, <1>6 DEF Registers
<1> QED BY <1>1, <1>4, <1>5, <1>7

(* A connection given back is nobody's and has another generation.         *)
LEMMA ReleasedMeans ==
  ASSUME ConnsInv, NEW c \in Conns, conn' = [conn EXCEPT ![c] = ReleasedConn(c)]
  PROVE  /\ conn' \in [Conns -> ConnRecord] /\ OthersSame(c)
         /\ conn'[c].greenlet = None
         /\ conn'[c].gen # conn[c].gen
<1>1. conn \in [Conns -> ConnRecord] /\ conn[c].gen \in Nat
  BY DEF ConnsInv, Types, ConnRecord
<1>2. ReleasedConn(c) \in ConnRecord /\ ReleasedConn(c).greenlet = None
      /\ ReleasedConn(c).gen = conn[c].gen + 1
  BY <1>1 DEF ReleasedConn, ConnRecord, ConnStates
<1> QED BY <1>1, <1>2 DEF OthersSame

(* What giving back a connection does that nobody waits on.                *)
LEMMA ReleaseMeans ==
  ASSUME ConnsInv, NEW c \in Conns \ freeConns, conn[c].greenlet = None, Release(c)
  PROVE  /\ conn' \in [Conns -> ConnRecord] /\ OthersSame(c)
         /\ conn'[c].greenlet = None
         /\ freeConns' = freeConns \cup {c} /\ freeConns' \in SUBSET Conns
         /\ fdToConn' \in [Fds -> Conns \cup {None}]
         /\ fdToConn'[conn[c].desc.fd] = None
         /\ \A fd \in Fds : fd # conn[c].desc.fd => fdToConn'[fd] = fdToConn[fd]
         /\ UNCHANGED <<status, activeWaits>>
<1>1. /\ conn' = [conn EXCEPT ![c] = ReleasedConn(c)]
      /\ freeConns' = freeConns \cup {c}
      /\ fdToConn' = [fdToConn EXCEPT ![conn[c].desc.fd] = None]
      /\ UNCHANGED <<status, activeWaits>>
  BY DEF Release, DropsWaiter
<1>2. fdToConn \in [Fds -> Conns \cup {None}] /\ freeConns \in SUBSET Conns
  BY DEF ConnsInv, Types
<1>3. conn[c].desc.fd \in Fds
  BY DEF ConnsInv, ConnsOK, ConnOK, Live, Desc
<1> QED BY <1>1, <1>2, <1>3, ReleasedMeans

(* A new file disturbs nobody's.                                           *)
LEMMA OpensMeans ==
  ASSUME ConnsInv, NEW fd \in Fds, Opens(fd)
  PROVE  /\ file' \in [Fds -> Nat] /\ files' \in Nat
         /\ [fd |-> fd, file |-> files + 1] \in Desc
         /\ \A d : d = [fd |-> fd, file |-> files + 1] => Live(d)'
         /\ \A d : Live(d) => Live(d)' /\ d.fd # fd
         /\ fdToConn[fd] = None
<1>1. file \in [Fds -> Nat] /\ files \in Nat /\ files' = files + 1 /\ file[fd] = 0
      /\ file' = [file EXCEPT ![fd] = files + 1]
  BY DEF ConnsInv, Types, Opens
<1>2. \A d : Live(d) => Live(d)' /\ d.fd # fd
  BY <1>1 DEF Live, Desc
<1>3. file'[fd] = files + 1 /\ files + 1 # 0 /\ files + 1 \in Nat
  BY <1>1
<1>4. /\ [fd |-> fd, file |-> files + 1] \in Desc
      /\ \A d : d = [fd |-> fd, file |-> files + 1] => Live(d)'
  BY <1>1, <1>3 DEF Live, Desc
<1>5. fdToConn[fd] = None
  <2> SUFFICES ASSUME fdToConn[fd] # None PROVE FALSE
    OBVIOUS
  <2>1. fdToConn[fd] \in Conns \ freeConns /\ conn[fdToConn[fd]].desc.fd = fd
    BY DEF ConnsInv, Types, ConnsOK
  <2>2. Live(conn[fdToConn[fd]].desc)
    BY <2>1 DEF ConnsInv, ConnsOK, ConnOK
  <2> QED BY <1>2, <2>1, <2>2
<1>6. file' \in [Fds -> Nat] /\ files' \in Nat
  BY <1>1
<1> QED BY <1>2, <1>4, <1>5, <1>6

(* A descriptor that is closed leaves the others as they are.              *)
LEMMA ClosesMeans ==
  ASSUME ConnsInv, NEW d \in Desc, Live(d), file' = [file EXCEPT ![d.fd] = 0]
  PROVE  /\ file' \in [Fds -> Nat]
         /\ \A k : Live(k) /\ k # d => Live(k)'
<1>1. file \in [Fds -> Nat] /\ d.fd \in Fds
  BY DEF ConnsInv, Types, Desc
<1>2. \A k : Live(k) /\ k # d => Live(k)'
  BY <1>1, SameFd DEF Live, Desc
<1> QED BY <1>1, <1>2

(* While a greenlet goes on without waiting, the queue and the operations  *)
(* stay as they are.                                                       *)
LEMMA GoesOn ==
  ASSUME ConnsInv, UNCHANGED <<loopVars, accept, call, ops>>
  PROVE  /\ ReadyOK' /\ OpsOK' /\ Sqes' = Sqes
         /\ \A g \in Greenlets : /\ Awaits(g)' <=> Awaits(g)
                                 /\ Blocked(g)' <=> Blocked(g)
                                 /\ Fetched(g)' <=> Fetched(g)
         /\ (\A c \in Conns : (conn'[c].greenlet # None) <=> (conn[c].greenlet # None)) => ConnWaitsExact'
<1> USE DEF loopVars
<1>1. Sqes' = Sqes
  BY DEF Sqes
<1>2. \A g \in Greenlets : /\ Awaits(g)' <=> Awaits(g)
                           /\ Blocked(g)' <=> Blocked(g)
                           /\ Due(g)' <=> Due(g)
                           /\ Fetched(g)' <=> Fetched(g)
  BY <1>1 DEF Awaits, Blocked, Due, Fetched
<1>3. ReadyOK'
  BY <1>2 DEF ConnsInv, ReadyOK, InReady
<1>4. OpsOK'
  BY <1>1, <1>2 DEF ConnsInv, OpsOK
<1>5. ASSUME \A c \in Conns : (conn'[c].greenlet # None) <=> (conn[c].greenlet # None)
      PROVE  ConnWaitsExact'
  <2>1. ConnWaiters' = ConnWaiters
    BY <1>5 DEF ConnWaiters
  <2>2. Connectors' = Connectors
    BY DEF Connectors, Connecting
  <2> QED BY <2>1, <2>2, CountMeans DEF ConnsInv, ConnWaitsExact, ConnWaiters, Connectors
<1> QED BY <1>1, <1>2, <1>3, <1>4, <1>5

-----------------------------------------------------------------------------
(* What a running greenlet does without waiting.                           *)

(* A new descriptor is its opener's alone.                                  *)
LEMMA OpenFileKeeps ==
  ASSUME ConnsInv, NEW g \in Greenlets, NEW fd \in Fds, OpenFile(g, fd)
  PROVE  ConnsInv'
<1>0. PICK d : d = [fd |-> fd, file |-> files + 1]
  OBVIOUS
<1>1. /\ Running(g) /\ Opens(fd)
      /\ own' = [own EXCEPT ![g] = @ \cup {d}]
      /\ UNCHANGED <<loopVars, conn, freeConns, fdToConn, accept, call, ops>>
  BY <1>0 DEF OpenFile, connVars
<1>2. /\ d \in Desc /\ Live(d)'
      /\ \A k : Live(k) => Live(k)' /\ k # d
      /\ file' \in [Fds -> Nat] /\ files' \in Nat
  BY <1>0, <1>1, OpensMeans
<1>3. /\ own' \in [Greenlets -> SUBSET Desc]
      /\ own'[g] = own[g] \cup {d}
      /\ \A h \in Greenlets : h # g => own'[h] = own[h]
  BY <1>1, <1>2 DEF ConnsInv, Types
<1>4. /\ ReadyOK' /\ OpsOK' /\ Sqes' = Sqes /\ ConnWaitsExact'
      /\ \A h \in Greenlets : /\ Awaits(h)' <=> Awaits(h)
                              /\ Blocked(h)' <=> Blocked(h)
                              /\ Fetched(h)' <=> Fetched(h)
  BY <1>1, GoesOn
<1>5. Types'
  BY <1>1, <1>2, <1>3 DEF ConnsInv, Types, loopVars
<1>6. CallsOK'
  BY <1>1, <1>2, <1>3, <1>4 DEF ConnsInv, CallsOK, TransferOK, ConnectOK
<1>7. AcceptOK'
  <2>1. accept.pending => accept.greenlet \in Greenlets
    BY DEF ConnsInv, Types, AcceptOK, AcceptRecord
  <2> QED BY <1>1, <1>2, <1>3, <1>4, <2>1 DEF ConnsInv, AcceptOK, loopVars
<1>8. SqesOK'
  BY <1>1, <1>2, <1>3, <1>4 DEF ConnsInv, SqesOK, TransferSqeOK, CloseSqeOK
<1>9. ConnsOK'
  BY <1>1, <1>2, <1>4 DEF ConnsInv, ConnsOK, ConnOK
<1>10. OwnOK'
  <2>1. \A h \in Greenlets : d \notin own[h]
    BY <1>2 DEF ConnsInv, OwnOK
  <2>2. \A h \in Greenlets : \A k \in own'[h] : Live(k)'
    BY <1>2, <1>3 DEF ConnsInv, OwnOK
  <2>3. \A h, k \in Greenlets : h # k => own'[h] \cap own'[k] = {}
    BY <1>3, <2>1 DEF ConnsInv, OwnOK
  <2>4. \A h \in Greenlets : status'[h] = "unborn" => own'[h] = {}
    BY <1>1, <1>3 DEF ConnsInv, OwnOK, loopVars, Running
  <2> QED BY <2>2, <2>3, <2>4 DEF OwnOK
<1> QED BY <1>4, <1>5, <1>6, <1>7, <1>8, <1>9, <1>10 DEF ConnsInv

(* green_register_fd takes a free connection for an unmapped fd.           *)
LEMMA RegisterFdKeeps ==
  ASSUME ConnsInv, ServerUse, NEW g \in Greenlets, NEW d, RegisterFd(g, d)
  PROVE  ConnsInv'
<1>1. /\ Running(g) /\ d \in own[g] /\ fdToConn[d.fd] = None
      /\ UNCHANGED <<loopVars, accept, call, own, file, files, ops>>
  BY DEF RegisterFd, CanUse, ServerUse, envVars
<1>2. PICK c \in freeConns : Registers(c, d)
  BY DEF RegisterFd
<1>3. Live(d) /\ d \in Desc
  BY <1>1 DEF ConnsInv, OwnOK, Live
<1>4. /\ conn' \in [Conns -> ConnRecord] /\ OthersSame(c)
      /\ conn'[c].desc = d /\ conn'[c].state = "idle" /\ conn'[c].gen = conn[c].gen
      /\ conn'[c].pending = 0 /\ conn'[c].greenlet = None
      /\ c \in Conns
      /\ freeConns' = freeConns \ {c} /\ freeConns' \in SUBSET Conns
      /\ fdToConn' \in [Fds -> Conns \cup {None}]
      /\ fdToConn'[d.fd] = c
      /\ \A fd \in Fds : fd # d.fd => fdToConn'[fd] = fdToConn[fd]
  BY <1>2, <1>3, RegistersMeans
<1>5. conn[c].greenlet = None
  BY DEF ConnsInv, ConnsOK
<1>6. /\ ReadyOK' /\ OpsOK' /\ Sqes' = Sqes /\ ConnWaitsExact'
      /\ \A h \in Greenlets : /\ Awaits(h)' <=> Awaits(h)
                              /\ Blocked(h)' <=> Blocked(h)
                              /\ Fetched(h)' <=> Fetched(h)
  BY <1>1, <1>4, <1>5, GoesOn DEF OthersSame
<1>7. \A k : Live(k)' <=> Live(k)
  BY <1>1 DEF Live
<1>8. Types'
  BY <1>1, <1>4 DEF ConnsInv, Types, loopVars
<1>9. c # None /\ \A k : Live(k) /\ fdToConn[k.fd] # None => k.fd # d.fd /\ fdToConn'[k.fd] = fdToConn[k.fd]
  BY <1>1, <1>3, <1>4, ConnsAssumption DEF Live, Desc
<1>10. CallsOK'
  <2>1. ASSUME NEW h \in Greenlets, call[h].kind \in Transfers PROVE TransferOK(h)'
    <3>1. TransferOK(h) /\ Live(call[h].desc) /\ fdToConn[call[h].desc.fd] # None
      BY <2>1, ConnsAssumption DEF ConnsInv, CallsOK, TransferOK, OwnOK
    <3>2. call[h].conn # c
      BY <3>1, MappedConn DEF TransferOK
    <3> QED BY <1>1, <1>4, <1>6, <1>9, <3>1, <3>2 DEF TransferOK, OthersSame
  <2>2. ASSUME NEW h \in Greenlets, call[h].kind = "connect" PROVE ConnectOK(h)'
    <3>1. ConnectOK(h) /\ Live(call[h].desc) /\ fdToConn[call[h].desc.fd] # None
      BY <2>2, ConnsAssumption DEF ConnsInv, CallsOK, ConnectOK
    <3>2. call[h].conn # c
      BY <3>1, MappedConn DEF ConnectOK
    <3> QED BY <1>1, <1>4, <1>6, <1>7, <1>9, <3>1, <3>2 DEF ConnectOK, OthersSame
  <2> QED BY <1>1, <1>6, <2>1, <2>2 DEF ConnsInv, CallsOK
<1>11. AcceptOK'
  <2>1. accept.pending => accept.greenlet \in Greenlets
    BY DEF ConnsInv, Types, AcceptOK, AcceptRecord
  <2>2. ASSUME NEW h \in Greenlets, Fetched(h), accept.result # NoDesc
        PROVE  fdToConn'[accept.result.fd] = None
    <3>1. Live(accept.result) /\ accept.result \notin own[g] /\ fdToConn[accept.result.fd] = None
      BY <2>2 DEF ConnsInv, AcceptOK
    <3>2. accept.result.fd # d.fd /\ accept.result.fd \in Fds
      BY <1>1, <1>3, <3>1, SameFd DEF Live, Desc
    <3> QED BY <1>4, <3>1, <3>2
  <2> QED BY <1>1, <1>6, <1>7, <2>1, <2>2 DEF ConnsInv, AcceptOK, loopVars
<1>12. SqesOK'
  <2>1. ASSUME NEW e \in Sqes, e.kind \in Transfers PROVE TransferSqeOK(e)'
    BY <1>1, <1>4, <2>1 DEF ConnsInv, SqesOK, TransferSqeOK, OthersSame
  <2>2. ASSUME NEW e \in Sqes, e.kind \in Closes PROVE CloseSqeOK(e)'
    <3>1. CloseSqeOK(e) /\ Live(e.desc) /\ e.desc \notin own[g]
      BY <2>2 DEF ConnsInv, SqesOK, CloseSqeOK
    <3>2. e.desc.fd # d.fd /\ e.desc.fd \in Fds
      BY <1>1, <1>3, <3>1, SameFd DEF Live, Desc
    <3> QED BY <1>1, <1>4, <1>6, <1>7, <3>1, <3>2 DEF CloseSqeOK, OthersSame
  <2> QED BY <1>1, <1>6, <2>1, <2>2 DEF ConnsInv, SqesOK
<1>13. ConnsOK'
  <2>1. ASSUME NEW b \in Conns \ freeConns PROVE ConnOK(b)'
    <3>1. ConnOK(b) /\ b # c /\ b # None /\ Live(conn[b].desc) /\ fdToConn[conn[b].desc.fd] = b
      BY ConnsAssumption DEF ConnsInv, ConnsOK, ConnOK
    <3>2. fdToConn'[conn[b].desc.fd] = b /\ conn'[b] = conn[b]
      BY <1>4, <1>9, <3>1 DEF OthersSame
    <3> QED BY <1>1, <1>6, <1>7, <3>1, <3>2 DEF ConnOK
  <2>2. ConnOK(c)'
    BY <1>3, <1>4, <1>7 DEF ConnOK
  <2>3. \A b \in freeConns' : conn'[b].greenlet = None
    BY <1>4 DEF ConnsInv, ConnsOK, Types, OthersSame
  <2>4. ASSUME NEW fd \in Fds, fdToConn'[fd] # None
        PROVE  fdToConn'[fd] \notin freeConns' /\ conn'[fdToConn'[fd]].desc.fd = fd
    <3>1. CASE fd = d.fd
      BY <1>4, <3>1
    <3>2. CASE fd # d.fd
      <4>1. fdToConn'[fd] = fdToConn[fd] /\ fdToConn[fd] \in Conns \ freeConns /\ fdToConn[fd] # c
        BY <1>4, <2>4, <3>2 DEF ConnsInv, ConnsOK, Types
      <4> QED BY <1>4, <2>4, <4>1 DEF ConnsInv, ConnsOK, OthersSame
    <3> QED BY <3>1, <3>2
  <2> QED BY <1>4, <2>1, <2>2, <2>3, <2>4 DEF ConnsOK
<1>14. OwnOK'
  BY <1>1, <1>7 DEF ConnsInv, OwnOK, loopVars
<1> QED BY <1>6, <1>8, <1>10, <1>11, <1>12, <1>13, <1>14 DEF ConnsInv

(* A failed connect only gives its connection another generation.          *)
LEMMA ConnectFailsKeeps ==
  ASSUME ConnsInv, NEW g \in Greenlets, ConnectFails(g)
  PROVE  ConnsInv'
<1>1. PICK c \in freeConns : conn' = [conn EXCEPT ![c] = ReleasedConn(c)]
  BY DEF ConnectFails
<1>2. UNCHANGED <<loopVars, freeConns, fdToConn, accept, call, own, file, files, ops>>
  BY DEF ConnectFails, envVars
<1>3. c \in Conns /\ conn[c].greenlet = None
  BY DEF ConnsInv, Types, ConnsOK
<1>4. conn' \in [Conns -> ConnRecord] /\ OthersSame(c) /\ conn'[c].greenlet = None
  BY <1>1, <1>3, ReleasedMeans
<1>5. /\ ReadyOK' /\ OpsOK' /\ Sqes' = Sqes /\ ConnWaitsExact'
      /\ \A h \in Greenlets : /\ Awaits(h)' <=> Awaits(h)
                              /\ Blocked(h)' <=> Blocked(h)
                              /\ Fetched(h)' <=> Fetched(h)
  BY <1>2, <1>3, <1>4, GoesOn DEF OthersSame
<1>6. \A k : Live(k)' <=> Live(k)
  BY <1>2 DEF Live
<1>7. Types'
  BY <1>2, <1>4 DEF ConnsInv, Types, loopVars
<1>8. CallsOK'
  <2>1. ASSUME NEW h \in Greenlets, call[h].kind \in Transfers PROVE TransferOK(h)'
    <3>1. TransferOK(h) /\ Live(call[h].desc) /\ fdToConn[call[h].desc.fd] # None
      BY <2>1, ConnsAssumption DEF ConnsInv, CallsOK, TransferOK, OwnOK
    <3>2. call[h].conn # c
      BY <3>1, MappedConn DEF TransferOK
    <3> QED BY <1>2, <1>4, <1>5, <3>1, <3>2 DEF TransferOK, OthersSame
  <2>2. ASSUME NEW h \in Greenlets, call[h].kind = "connect" PROVE ConnectOK(h)'
    <3>1. ConnectOK(h) /\ call[h].conn # c
      BY <2>2, ConnectIdle DEF ConnsInv, CallsOK
    <3> QED BY <1>2, <1>4, <1>6, <3>1 DEF ConnectOK, OthersSame
  <2> QED BY <1>2, <1>5, <2>1, <2>2 DEF ConnsInv, CallsOK
<1>9. AcceptOK'
  <2>1. accept.pending => accept.greenlet \in Greenlets
    BY DEF ConnsInv, Types, AcceptOK, AcceptRecord
  <2> QED BY <1>2, <1>5, <1>6, <2>1 DEF ConnsInv, AcceptOK, loopVars
<1>10. SqesOK'
  BY <1>2, <1>4, <1>5, <1>6 DEF ConnsInv, SqesOK, TransferSqeOK, CloseSqeOK, OthersSame
<1>11. ConnsOK'
  <2>1. ASSUME NEW b \in Conns \ freeConns PROVE ConnOK(b)'
    <3>1. ConnOK(b) /\ conn'[b] = conn[b]
      BY <1>4 DEF ConnsInv, ConnsOK, OthersSame
    <3> QED BY <1>2, <1>5, <1>6, <3>1 DEF ConnOK
  <2>2. \A b \in freeConns' : conn'[b].greenlet = None
    BY <1>2, <1>4 DEF ConnsInv, ConnsOK, Types, OthersSame
  <2> QED BY <1>2, <1>4, <2>1, <2>2 DEF ConnsInv, ConnsOK, Types, OthersSame
<1>12. OwnOK'
  BY <1>2, <1>6 DEF ConnsInv, OwnOK, loopVars
<1> QED BY <1>5, <1>7, <1>8, <1>9, <1>10, <1>11, <1>12 DEF ConnsInv

(* The acceptor hands a descriptor on.                                     *)
LEMMA SpawnKeeps ==
  ASSUME ConnsInv, NEW g \in Greenlets, NEW h \in Greenlets, NEW d, Spawn(g, h, d)
  PROVE  ConnsInv'
<1>1. /\ d \in own[g] /\ Running(g) /\ status[h] = "unborn"
      /\ status' = [status EXCEPT ![h] = "scheduled"] /\ ready' = Append(ready, h)
      /\ own' = [own EXCEPT ![g] = @ \ {d}, ![h] = {d}]
      /\ UNCHANGED <<activeWaits, phase, stop, sq, inflight>>
      /\ UNCHANGED <<conn, freeConns, fdToConn, accept, call, file, files, ops>>
  BY DEF Spawn, Schedule, connVars
<1>2. /\ ~Blocked(h) /\ ~InReady(h) /\ ~Blocked(g) /\ g # h /\ own[h] = {}
  BY <1>1 DEF Running, Blocked, ConnsInv, ReadyOK, Due, OwnOK
<1>3. status \in [Greenlets -> Statuses] /\ own \in [Greenlets -> SUBSET Desc] /\ d \in Desc
  BY <1>1 DEF ConnsInv, Types
<1>4. /\ status' \in [Greenlets -> Statuses] /\ status'[h] = "scheduled"
      /\ \A k \in Greenlets : k # h => status'[k] = status[k]
  BY <1>1, <1>3 DEF Statuses
<1>5. /\ own' \in [Greenlets -> SUBSET Desc] /\ own'[g] = own[g] \ {d} /\ own'[h] = {d}
      /\ \A k \in Greenlets : k # g /\ k # h => own'[k] = own[k]
  BY <1>1, <1>2, <1>3
<1>6. /\ ready' \in Seq(Greenlets)
      /\ \A k \in Greenlets : InReady(k)' <=> k = h \/ InReady(k)
      /\ \A i, j \in 1..Len(ready') : ready'[i] = ready'[j] => i = j
  BY <1>1, <1>2, Queued
<1>7. /\ Sqes' = Sqes
      /\ \A k \in Greenlets : Blocked(k)' <=> Blocked(k)
  BY <1>1, <1>2, <1>4 DEF Sqes, Blocked
<1>8. \A k \in Greenlets : (Awaits(k)' <=> Awaits(k)) /\ (Due(k)' <=> Due(k)) /\ (Fetched(k)' <=> Fetched(k))
  BY <1>1, <1>7 DEF Awaits, Due, Fetched
<1>9. ReadyOK'
  BY <1>1, <1>4, <1>6, <1>8 DEF ConnsInv, ReadyOK
<1>10. OpsOK'
  BY <1>1, <1>7 DEF ConnsInv, OpsOK
<1>11. \A k \in Greenlets : \A e \in Desc : e \notin own[k] => e # d \/ k # g
  BY <1>1
<1>12. \A e \in Desc : (\A k \in Greenlets : e \notin own[k]) => \A k \in Greenlets : e \notin own'[k]
  BY <1>1, <1>5
<1>13. \A k : Live(k)' <=> Live(k)
  BY <1>1 DEF Live
<1>14. CallsOK'
  <2>1. ASSUME NEW k \in Greenlets, call[k].kind \in Transfers PROVE TransferOK(k)'
    <3>1. TransferOK(k) /\ Blocked(k) /\ k # g /\ k # h
      BY <1>2, <2>1 DEF ConnsInv, CallsOK, Transfers
    <3> QED BY <1>1, <1>5, <1>8, <3>1 DEF TransferOK
  <2>2. ASSUME NEW k \in Greenlets, call[k].kind = "connect" PROVE ConnectOK(k)'
    BY <1>1, <1>12, <1>13, <2>2 DEF ConnsInv, CallsOK, ConnectOK, Live
  <2> QED BY <1>1, <1>7, <2>1, <2>2 DEF ConnsInv, CallsOK
<1>15. AcceptOK'
  <2>1. accept.pending => accept.greenlet \in Greenlets
    BY DEF ConnsInv, Types, AcceptOK, AcceptRecord
  <2> QED BY <1>1, <1>7, <1>8, <1>12, <1>13, <2>1 DEF ConnsInv, AcceptOK, Live
<1>16. SqesOK'
  <2>1. ASSUME NEW e \in Sqes, e.kind \in Closes PROVE CloseSqeOK(e)'
    BY <1>1, <1>8, <1>12, <1>13, <2>1 DEF ConnsInv, SqesOK, CloseSqeOK, Live
  <2> QED BY <1>1, <1>7, <2>1 DEF ConnsInv, SqesOK, TransferSqeOK
<1>17. ConnsOK'
  BY <1>1, <1>7, <1>8, <1>13 DEF ConnsInv, ConnsOK, ConnOK, Live
<1>18. OwnOK'
  <2>1. \A k \in Greenlets : \A e \in own'[k] : Live(e)'
    BY <1>1, <1>5, <1>13 DEF ConnsInv, OwnOK
  <2>2. \A k, l \in Greenlets : k # l => own'[k] \cap own'[l] = {}
    BY <1>1, <1>2, <1>5 DEF ConnsInv, OwnOK
  <2>3. \A k \in Greenlets : status'[k] = "unborn" => own'[k] = {}
    BY <1>1, <1>4, <1>5 DEF ConnsInv, OwnOK, Running
  <2> QED BY <2>1, <2>2, <2>3 DEF OwnOK
<1>19. ConnWaitsExact'
  <2>1. Connectors' = Connectors /\ ConnWaiters' = ConnWaiters
    BY <1>1 DEF Connectors, Connecting, ConnWaiters
  <2> QED BY <1>1, <2>1, CountMeans DEF ConnsInv, ConnWaitsExact, ConnWaiters, Connectors
<1>20. Types'
  BY <1>1, <1>4, <1>5, <1>6 DEF ConnsInv, Types
<1> QED BY <1>9, <1>10, <1>14, <1>15, <1>16, <1>17, <1>18, <1>19, <1>20 DEF ConnsInv

(* Giving up one's own descriptor, or none, disturbs nobody else's.        *)
Forgets(g, d) ==
  /\ own' \in [Greenlets -> SUBSET Desc]
  /\ own' = own \/ \A h \in Greenlets : own'[h] = own[h] \ {d}

(* Only the one who gave it up has less than before.                       *)
LEMMA ForgetsMeans ==
  ASSUME ConnsInv, NEW g \in Greenlets, NEW d \in own[g], Forgets(g, d)
  PROVE  /\ \A h \in Greenlets : own'[h] \subseteq own[h]
         /\ \A h \in Greenlets : h # g => own'[h] = own[h]
<1>1. CASE own' = own
  BY <1>1
<1>2. CASE \A h \in Greenlets : own'[h] = own[h] \ {d}
  <2>1. \A h \in Greenlets : h # g => d \notin own[h]
    BY DEF ConnsInv, OwnOK
  <2> QED BY <1>2, <2>1
<1> QED BY <1>1, <1>2 DEF Forgets

(* A connection given back while its owner runs.                           *)
LEMMA ReleaseKeeps ==
  ASSUME ConnsInv, NEW g \in Greenlets, Running(g), NEW d \in own[g],
         fdToConn[d.fd] # None, Release(fdToConn[d.fd]), Forgets(g, d),
         UNCHANGED <<ready, phase, stop, sq, inflight, accept, call, file, files, ops>>
  PROVE  ConnsInv'
<1> DEFINE c == fdToConn[d.fd]
<1>1. /\ c \in Conns \ freeConns /\ conn[c].desc = d
      /\ conn[c].state = "idle" /\ conn[c].greenlet = None
  BY RunningFree, OwnConnIdle
<1>2. /\ conn' \in [Conns -> ConnRecord] /\ OthersSame(c)
      /\ conn'[c].greenlet = None
      /\ freeConns' = freeConns \cup {c} /\ freeConns' \in SUBSET Conns
      /\ fdToConn' \in [Fds -> Conns \cup {None}]
      /\ fdToConn'[d.fd] = None
      /\ \A fd \in Fds : fd # d.fd => fdToConn'[fd] = fdToConn[fd]
      /\ UNCHANGED <<status, activeWaits>>
  BY <1>1, ReleaseMeans
<1>3. Live(d) /\ d \in Desc /\ d.fd \in Fds
  BY DEF ConnsInv, OwnOK, Live, Desc
<1>4. /\ ReadyOK' /\ OpsOK' /\ Sqes' = Sqes /\ ConnWaitsExact'
      /\ \A h \in Greenlets : /\ Awaits(h)' <=> Awaits(h)
                              /\ Blocked(h)' <=> Blocked(h)
                              /\ Fetched(h)' <=> Fetched(h)
  BY <1>1, <1>2, GoesOn DEF OthersSame, loopVars
<1>5. \A k : Live(k)' <=> Live(k)
  BY DEF Live
<1>6. /\ \A h \in Greenlets : own'[h] \subseteq own[h]
      /\ \A h \in Greenlets : h # g => own'[h] = own[h]
  BY ForgetsMeans
<1>7. Types'
  BY <1>2 DEF ConnsInv, Types, Forgets
<1>8. \A k : Live(k) /\ k # d => k.fd # d.fd /\ fdToConn'[k.fd] = fdToConn[k.fd]
  BY <1>2, <1>3, SameFd DEF Live, Desc
<1>9. CallsOK'
  <2>1. ASSUME NEW h \in Greenlets, call[h].kind \in Transfers PROVE TransferOK(h)'
    <3>1. TransferOK(h) /\ Blocked(h) /\ Live(call[h].desc)
      BY <2>1 DEF ConnsInv, CallsOK, TransferOK, OwnOK, Transfers
    <3>2. h # g /\ call[h].desc # d
      BY <3>1, RunningFree DEF ConnsInv, OwnOK, TransferOK
    <3>3. fdToConn'[call[h].desc.fd] = call[h].conn /\ call[h].conn # c
      <4>1. call[h].conn # None /\ conn[call[h].conn].desc = call[h].desc
        BY <3>1, MappedConn, ConnsAssumption DEF TransferOK
      <4> QED BY <1>1, <1>8, <3>1, <3>2, <4>1 DEF TransferOK
    <3> QED BY <1>2, <1>4, <1>6, <3>1, <3>2, <3>3 DEF TransferOK, OthersSame
  <2>2. ASSUME NEW h \in Greenlets, call[h].kind = "connect" PROVE ConnectOK(h)'
    <3>1. ConnectOK(h) /\ conn[call[h].conn].desc = call[h].desc
      BY <2>2, ConnectIdle DEF ConnsInv, CallsOK
    <3>2. call[h].desc # d
      BY <3>1 DEF ConnectOK
    <3>3. fdToConn'[call[h].desc.fd] = call[h].conn /\ call[h].conn # c
      BY <1>1, <1>8, <3>1, <3>2 DEF ConnectOK
    <3> QED BY <1>2, <1>5, <1>6, <3>1, <3>3 DEF ConnectOK, OthersSame
  <2> QED BY <1>4, <2>1, <2>2 DEF ConnsInv, CallsOK
<1>10. AcceptOK'
  <2>1. accept.pending => accept.greenlet \in Greenlets
    BY DEF ConnsInv, Types, AcceptOK, AcceptRecord
  <2>2. ASSUME NEW h \in Greenlets, Fetched(h), accept.result # NoDesc
        PROVE  fdToConn'[accept.result.fd] = None
    BY <1>2, <2>2 DEF ConnsInv, AcceptOK, Live, Desc
  <2> QED BY <1>4, <1>5, <1>6, <2>1, <2>2 DEF ConnsInv, AcceptOK
<1>11. SqesOK'
  <2>1. ASSUME NEW e \in Sqes, e.kind \in Transfers PROVE TransferSqeOK(e)'
    <3>1. TransferSqeOK(e) /\ e.conn # c
      BY <1>1, <2>1 DEF ConnsInv, SqesOK, TransferSqeOK
    <3> QED BY <1>2, <3>1 DEF TransferSqeOK, OthersSame
  <2>2. ASSUME NEW e \in Sqes, e.kind \in Closes PROVE CloseSqeOK(e)'
    <3>1. CloseSqeOK(e) /\ Live(e.desc) /\ e.desc # d
      BY <2>2 DEF ConnsInv, SqesOK, CloseSqeOK
    <3>2. fdToConn'[e.desc.fd] = fdToConn[e.desc.fd] /\ (e.kind = "close" => e.conn # c)
      BY <1>1, <1>8, <3>1 DEF CloseSqeOK
    <3> QED BY <1>2, <1>4, <1>5, <1>6, <3>1, <3>2 DEF CloseSqeOK, OthersSame
  <2> QED BY <1>4, <2>1, <2>2 DEF ConnsInv, SqesOK
<1>12. ConnsOK'
  <2>1. ASSUME NEW b \in Conns \ freeConns, b # c PROVE ConnOK(b)'
    <3>1. ConnOK(b) /\ conn'[b] = conn[b] /\ Live(conn[b].desc) /\ fdToConn[conn[b].desc.fd] = b
      BY <1>2, <2>1 DEF ConnsInv, ConnsOK, ConnOK, OthersSame
    <3>2. fdToConn'[conn[b].desc.fd] = b
      BY <1>8, <2>1, <3>1
    <3> QED BY <1>4, <1>5, <3>1, <3>2 DEF ConnOK
  <2>2. \A b \in freeConns' : conn'[b].greenlet = None
    BY <1>2 DEF ConnsInv, ConnsOK, Types, OthersSame
  <2>3. ASSUME NEW fd \in Fds, fdToConn'[fd] # None
        PROVE  fdToConn'[fd] \notin freeConns' /\ conn'[fdToConn'[fd]].desc.fd = fd
    <3>1. fd # d.fd /\ fdToConn'[fd] = fdToConn[fd] /\ fdToConn[fd] \in Conns \ freeConns
          /\ conn[fdToConn[fd]].desc.fd = fd
      BY <1>2, <2>3 DEF ConnsInv, ConnsOK, Types
    <3> QED BY <1>1, <1>2, <3>1 DEF OthersSame
  <2> QED BY <1>2, <2>1, <2>2, <2>3 DEF ConnsOK
<1>13. OwnOK'
  BY <1>2, <1>5, <1>6 DEF ConnsInv, OwnOK
<1> QED BY <1>4, <1>7, <1>9, <1>10, <1>11, <1>12, <1>13 DEF ConnsInv

(* green_unregister_fd gives back an idle connection of the caller.        *)
LEMMA UnregisterFdKeeps ==
  ASSUME ConnsInv, ServerUse, NEW g \in Greenlets, NEW d, UnregisterFd(g, d)
  PROVE  ConnsInv'
<1>1. /\ Running(g) /\ d \in own[g] /\ fdToConn[d.fd] # None /\ Release(fdToConn[d.fd])
      /\ UNCHANGED <<ready, phase, stop, sq, inflight, accept, call, own, file, files, ops>>
  BY DEF UnregisterFd, CanUse, ServerUse, envVars
<1>2. Forgets(g, d)
  BY <1>1 DEF Forgets, ConnsInv, Types
<1> QED BY <1>1, <1>2, ReleaseKeeps

-----------------------------------------------------------------------------
(* green_close.                                                            *)

(* While nobody's call changes, queueing an SQE nobody waits for leaves    *)
(* everyone waiting for what he waited for.                                *)
LEMMA QueuedUnawaited ==
  ASSUME ConnsInv, NEW e \in SqeRecord, Queues(e), e.op = ops + 1,
         UNCHANGED <<status, ready, phase, inflight, call>>
  PROVE  /\ ReadyOK' /\ OpsOK'
         /\ \A h \in Greenlets : /\ Awaits(h)' <=> Awaits(h)
                                 /\ Blocked(h)' <=> Blocked(h)
                                 /\ Fetched(h)' <=> Fetched(h)
<1>1. /\ Sqes' = Sqes \cup {e}
      /\ sq' \cap inflight' = {}
      /\ ops' = ops + 1 /\ ops \in Nat
      /\ \A f \in Sqes' : 0 < f.op /\ f.op <= ops'
      /\ \A f, k \in Sqes' : f.op = k.op => f = k
      /\ \A h \in Greenlets : call[h].op <= ops /\ call[h].op # e.op
  BY SqeQueued
<1>2. \A h \in Greenlets : /\ Awaits(h)' <=> Awaits(h)
                           /\ Blocked(h)' <=> Blocked(h)
                           /\ Due(h)' <=> Due(h)
                           /\ Fetched(h)' <=> Fetched(h)
  BY <1>1 DEF Awaits, Blocked, Due, Fetched
<1>3. ReadyOK'
  BY <1>2 DEF ConnsInv, ReadyOK, InReady
<1>4. OpsOK'
  <2>1. \A h \in Greenlets : call'[h].op <= ops'
    <3>1. \A h \in Greenlets : call[h].op \in Nat
      BY DEF ConnsInv, Types, CallRecord
    <3> QED BY <1>1, <3>1
  <2> QED BY <1>1, <1>2, <2>1 DEF ConnsInv, OpsOK
<1> QED BY <1>2, <1>3, <1>4

(* A close is queued for a descriptor its owner gives up.                  *)
LEMMA CloseQueuedKeeps ==
  ASSUME ConnsInv, NEW g \in Greenlets, Running(g), NEW d \in own[g],
         NEW e \in SqeRecord, Queues(e), e.op = ops + 1, e.kind \in Closes, e.desc = d,
         Forgets(g, d), \A h \in Greenlets : own'[h] = own[h] \ {d},
         UNCHANGED <<status, ready, activeWaits, phase, stop, inflight, freeConns, fdToConn,
                     accept, call, file, files>>,
         conn' \in [Conns -> ConnRecord],
         \/ /\ e.kind = "rawclose" /\ e.conn = None /\ fdToConn[d.fd] = None
            /\ conn' = conn
         \/ /\ e.kind = "close" /\ e.conn \in Conns \ freeConns /\ fdToConn[d.fd] = e.conn
            /\ conn[e.conn].state = "idle" /\ conn[e.conn].greenlet = None /\ conn[e.conn].desc = d
            /\ OthersSame(e.conn)
            /\ conn'[e.conn].desc = d /\ conn'[e.conn].state = "closing"
            /\ conn'[e.conn].gen = e.gen /\ conn'[e.conn].greenlet = None
            /\ conn'[e.conn].pending = 1
  PROVE  ConnsInv'
<1>1. /\ Sqes' = Sqes \cup {e} /\ e \in Sqes'
      /\ sq' \subseteq SqeRecord /\ inflight' \subseteq SqeRecord /\ ops' \in Nat
  BY SqeQueued
<1>2. /\ ReadyOK' /\ OpsOK'
      /\ \A h \in Greenlets : /\ Awaits(h)' <=> Awaits(h)
                              /\ Blocked(h)' <=> Blocked(h)
                              /\ Fetched(h)' <=> Fetched(h)
  BY QueuedUnawaited
<1>3. \A k : Live(k)' <=> Live(k)
  BY DEF Live
<1>4. /\ \A h \in Greenlets : own'[h] \subseteq own[h]
      /\ \A h \in Greenlets : h # g => own'[h] = own[h]
  BY ForgetsMeans
<1>5. \A h \in Greenlets : d \notin own'[h]
  OBVIOUS
<1>6. Live(d)
  BY DEF ConnsInv, OwnOK
<1>7. \A b \in Conns : conn[b].state # "idle" \/ conn[b].desc # d => conn'[b] = conn[b]
  BY DEF OthersSame
<1>8. \A b \in Conns : conn'[b].greenlet = conn[b].greenlet
  BY DEF OthersSame
<1>9. Types'
  BY <1>1 DEF ConnsInv, Types, Forgets
<1>10. CallsOK'
  <2>1. ASSUME NEW h \in Greenlets, call[h].kind \in Transfers PROVE TransferOK(h)'
    <3>1. TransferOK(h) /\ Blocked(h) /\ Live(call[h].desc)
      BY <2>1 DEF ConnsInv, CallsOK, TransferOK, OwnOK, Transfers
    <3>2. h # g /\ call[h].desc # d
      BY <3>1, RunningFree DEF ConnsInv, OwnOK, TransferOK
    <3>3. call[h].conn \in Conns /\ conn[call[h].conn].desc = call[h].desc
      BY <3>1, MappedConn, ConnsAssumption DEF TransferOK
    <3>4. conn'[call[h].conn] = conn[call[h].conn]
      BY <1>7, <3>2, <3>3
    <3> QED BY <1>2, <1>4, <3>1, <3>2, <3>4 DEF TransferOK
  <2>2. ASSUME NEW h \in Greenlets, call[h].kind = "connect" PROVE ConnectOK(h)'
    <3>1. ConnectOK(h) /\ conn[call[h].conn].desc = call[h].desc
      BY <2>2, ConnectIdle DEF ConnsInv, CallsOK
    <3>2. call[h].desc # d /\ call[h].conn \in Conns
      BY <3>1 DEF ConnectOK
    <3>3. conn'[call[h].conn] = conn[call[h].conn]
      BY <1>7, <3>1, <3>2
    <3> QED BY <1>3, <1>4, <3>1, <3>3 DEF ConnectOK
  <2> QED BY <1>2, <2>1, <2>2 DEF ConnsInv, CallsOK
<1>11. AcceptOK'
  <2>1. accept.pending => accept.greenlet \in Greenlets
    BY DEF ConnsInv, Types, AcceptOK, AcceptRecord
  <2>2. e.kind # "accept"
    BY DEF Closes
  <2> QED BY <1>1, <1>2, <1>3, <1>4, <2>1, <2>2 DEF ConnsInv, AcceptOK
<1>12. SqesOK'
  <2>1. e.kind \notin Transfers /\ e.kind \notin {"accept", "connect"}
    BY DEF Closes, Transfers
  <2>2. ASSUME NEW f \in Sqes, f.kind \in Transfers PROVE TransferSqeOK(f)'
    <3>1. TransferSqeOK(f)
      BY <2>2 DEF ConnsInv, SqesOK
    <3>2. conn'[f.conn] = conn[f.conn]
      BY <1>7, <3>1 DEF TransferSqeOK
    <3> QED BY <3>1, <3>2 DEF TransferSqeOK
  <2>3. ASSUME NEW f \in Sqes, f.kind \in Closes PROVE CloseSqeOK(f)' /\ f.desc # d
    <3>1. CloseSqeOK(f) /\ f.desc # d
      BY <2>3 DEF ConnsInv, SqesOK, CloseSqeOK
    <3>2. f.kind = "close" => conn'[f.conn] = conn[f.conn]
      BY <1>7, <3>1 DEF CloseSqeOK
    <3> QED BY <1>2, <1>3, <1>4, <3>1, <3>2 DEF CloseSqeOK
  <2>4. CloseSqeOK(e)'
    <3>1. \A h \in Greenlets : Fetched(h) /\ accept.result # NoDesc => accept.result # d
      BY DEF ConnsInv, AcceptOK
    <3>2. d # NoDesc
      BY <1>6, ConnsAssumption DEF Live, Desc, NoDesc
    <3>3. \A h \in Greenlets : Fetched(h)' => accept.result # d
      BY <1>2, <3>1, <3>2
    <3> QED BY <1>3, <1>5, <1>6, <3>3 DEF CloseSqeOK
  <2>5. \A f, k \in Sqes' : f.kind \in Closes /\ k.kind \in Closes /\ f.desc = k.desc => f = k
    BY <1>1, <2>3 DEF ConnsInv, SqesOK
  <2> QED BY <1>1, <2>1, <2>2, <2>3, <2>4, <2>5 DEF ConnsInv, SqesOK
<1>13. ConnsOK'
  <2>1. ASSUME NEW b \in Conns \ freeConns PROVE ConnOK(b)'
    <3>1. ConnOK(b)
      BY DEF ConnsInv, ConnsOK
    <3>2. CASE conn'[b] = conn[b]
      BY <1>1, <1>2, <1>3, <3>1, <3>2 DEF ConnOK
    <3>3. CASE conn'[b] # conn[b]
      <4>1. b = e.conn /\ e.kind = "close"
        BY <3>3 DEF OthersSame
      <4> QED BY <1>1, <1>3, <1>6, <4>1 DEF ConnOK
    <3> QED BY <3>2, <3>3
  <2>2. \A b \in freeConns' : conn'[b].greenlet = None
    BY <1>8 DEF ConnsInv, ConnsOK, Types
  <2>3. \A fd \in Fds : fdToConn'[fd] # None => fdToConn'[fd] \notin freeConns' /\ conn'[fdToConn'[fd]].desc.fd = fd
    BY DEF ConnsInv, ConnsOK, Types, OthersSame
  <2> QED BY <2>1, <2>2, <2>3 DEF ConnsOK
<1>14. OwnOK'
  BY <1>3, <1>4 DEF ConnsInv, OwnOK
<1>15. ConnWaitsExact'
  <2>1. Connectors' = Connectors
    BY <1>2, ConnectingMeans DEF Connectors, Connecting, Awaits, Sqes
  <2>2. ConnWaiters' = ConnWaiters
    BY <1>8 DEF ConnWaiters
  <2> QED BY <2>1, <2>2, CountMeans DEF ConnsInv, ConnWaitsExact, ConnWaiters, Connectors
<1> QED BY <1>2, <1>9, <1>10, <1>11, <1>12, <1>13, <1>14, <1>15 DEF ConnsInv

(* What submitClose does to an idle connection when there is room.         *)
LEMMA SubmitCloseMeans ==
  ASSUME ConnsInv, NEW c \in Conns \ freeConns, HasRoom(1),
         conn[c].pending = 0, conn[c].greenlet = None, SubmitClose(c, conn[c])
  PROVE  \E e \in SqeRecord :
           /\ Queues(e) /\ e.op = ops + 1 /\ e.kind = "close" /\ e.conn = c
           /\ e.desc = conn[c].desc
           /\ conn' \in [Conns -> ConnRecord] /\ OthersSame(c)
           /\ conn'[c].desc = e.desc /\ conn'[c].state = "closing"
           /\ conn'[c].gen = e.gen /\ conn'[c].greenlet = None /\ conn'[c].pending = 1
           /\ UNCHANGED <<freeConns, fdToConn, status, activeWaits>>
<1> DEFINE e == ForConn("close", c, conn[c].desc)
<1> DEFINE r == With(conn[c], "closing", conn[c].greenlet, conn[c].pending + 1, conn[c].result)
<1>1. /\ conn' = [conn EXCEPT ![c] = r] /\ Queues(e)
      /\ UNCHANGED <<freeConns, fdToConn, status, activeWaits>>
  BY DEF SubmitClose
<1>2. conn \in [Conns -> ConnRecord] /\ conn[c] \in ConnRecord /\ ops \in Nat
  BY DEF ConnsInv, Types
<1>3. /\ r \in ConnRecord /\ r.desc = conn[c].desc /\ r.state = "closing" /\ r.gen = conn[c].gen
      /\ r.greenlet = None /\ r.pending = 1
  BY <1>2 DEF With, ConnRecord, ConnStates
<1>4. conn' \in [Conns -> ConnRecord] /\ OthersSame(c) /\ conn'[c] = r
  BY <1>1, <1>2, <1>3 DEF OthersSame
<1>5. /\ e \in SqeRecord /\ e.op = ops + 1 /\ e.kind = "close" /\ e.conn = c
      /\ e.desc = conn[c].desc /\ e.gen = conn[c].gen
  BY <1>2 DEF ForConn, Sqe, SqeRecord, SqeKinds, Closes, ConnRecord
<1>6. /\ conn'[c].desc = e.desc /\ conn'[c].state = "closing"
      /\ conn'[c].gen = e.gen /\ conn'[c].greenlet = None /\ conn'[c].pending = 1
  BY <1>3, <1>4, <1>5
<1> HIDE DEF e, r
<1> QED BY <1>1, <1>4, <1>5, <1>6

(* green_close of an unregistered fd there is no room for: it is forgotten.*)
LEMMA ForgetKeeps ==
  ASSUME ConnsInv, NEW g \in Greenlets, Running(g), NEW d \in own[g],
         Forgets(g, d),
         UNCHANGED <<loopVars, connVars, file, files, ops>>
  PROVE  ConnsInv'
<1> USE DEF connVars
<1>1. /\ ReadyOK' /\ OpsOK' /\ Sqes' = Sqes /\ ConnWaitsExact'
      /\ \A h \in Greenlets : /\ Awaits(h)' <=> Awaits(h)
                              /\ Blocked(h)' <=> Blocked(h)
                              /\ Fetched(h)' <=> Fetched(h)
  BY GoesOn
<1>2. \A k : Live(k)' <=> Live(k)
  BY DEF Live
<1>3. /\ \A h \in Greenlets : own'[h] \subseteq own[h]
      /\ \A h \in Greenlets : h # g => own'[h] = own[h]
  BY ForgetsMeans
<1>4. Types'
  BY DEF ConnsInv, Types, Forgets, loopVars
<1>5. CallsOK'
  <2>1. ASSUME NEW h \in Greenlets, call[h].kind \in Transfers PROVE TransferOK(h)'
    <3>1. TransferOK(h) /\ h # g
      BY <2>1, RunningFree DEF ConnsInv, CallsOK, Transfers
    <3> QED BY <1>1, <1>3, <3>1 DEF TransferOK
  <2>2. ASSUME NEW h \in Greenlets, call[h].kind = "connect" PROVE ConnectOK(h)'
    BY <1>2, <1>3, <2>2 DEF ConnsInv, CallsOK, ConnectOK
  <2> QED BY <1>1, <2>1, <2>2 DEF ConnsInv, CallsOK
<1>6. AcceptOK'
  <2>1. accept.pending => accept.greenlet \in Greenlets
    BY DEF ConnsInv, Types, AcceptOK, AcceptRecord
  <2> QED BY <1>1, <1>2, <1>3, <2>1 DEF ConnsInv, AcceptOK, loopVars
<1>7. SqesOK'
  BY <1>1, <1>2, <1>3 DEF ConnsInv, SqesOK, TransferSqeOK, CloseSqeOK
<1>8. ConnsOK'
  BY <1>1, <1>2 DEF ConnsInv, ConnsOK, ConnOK
<1>9. OwnOK'
  BY <1>2, <1>3 DEF ConnsInv, OwnOK, loopVars
<1> QED BY <1>1, <1>4, <1>5, <1>6, <1>7, <1>8, <1>9 DEF ConnsInv

(* green_close, in each of its cases; the one that cancels does not arise. *)
LEMMA CloseKeeps ==
  ASSUME ConnsInv, ServerUse, NEW g \in Greenlets, NEW d, Close(g, d)
  PROVE  ConnsInv'
<1>1. /\ Running(g) /\ d \in own[g]
      /\ own' = [h \in Greenlets |-> own[h] \ {d}]
      /\ UNCHANGED <<ready, phase, stop, inflight, accept, call, file, files>>
  BY DEF Close, Calls, CanUse, ServerUse
<1>2. own \in [Greenlets -> SUBSET Desc] /\ d \in Desc /\ Live(d) /\ ops \in Nat
  BY <1>1 DEF ConnsInv, Types, OwnOK
<1>3. Forgets(g, d) /\ \A h \in Greenlets : own'[h] = own[h] \ {d}
  BY <1>1, <1>2 DEF Forgets
<1>4. CASE CloseUntracked(g, d) /\ HasRoom(1)
  <2> DEFINE e == Sqe("rawclose", None, 0, d)
  <2>1. Queues(e) /\ fdToConn[d.fd] = None /\ UNCHANGED <<conn, freeConns, fdToConn, status, activeWaits>>
    BY <1>4 DEF CloseUntracked
  <2>2. /\ e \in SqeRecord /\ e.op = ops + 1 /\ e.kind = "rawclose" /\ e.desc = d /\ e.conn = None
    BY <1>2 DEF Sqe, SqeRecord, SqeKinds, Closes
  <2>3. conn' \in [Conns -> ConnRecord] /\ conn' = conn /\ e.kind \in Closes
    BY <2>1, <2>2 DEF ConnsInv, Types, Closes
  <2> HIDE DEF e
  <2> QED BY <1>1, <1>3, <2>1, <2>2, <2>3, CloseQueuedKeeps
<1>5. CASE CloseUntracked(g, d) /\ ~HasRoom(1)
  <2>1. UNCHANGED <<loopVars, connVars, file, files, ops>>
    BY <1>1, <1>5 DEF CloseUntracked, loopVars, connVars
  <2> QED BY <1>1, <1>3, <2>1, ForgetKeeps
<1> DEFINE c == fdToConn[d.fd]
<1>6. ASSUME c # None
      PROVE  /\ c \in Conns \ freeConns /\ conn[c].desc = d
             /\ conn[c].state = "idle" /\ conn[c].pending = 0 /\ conn[c].greenlet = None
  BY <1>1, <1>6, RunningFree, OwnConnIdle
<1>7. CASE CloseIdle(g, d) /\ HasRoom(1)
  <2>1. c # None /\ SubmitClose(c, conn[c])
    BY <1>7 DEF CloseIdle
  <2>2. PICK e \in SqeRecord :
           /\ Queues(e) /\ e.op = ops + 1 /\ e.kind = "close" /\ e.conn = c
           /\ e.desc = conn[c].desc
           /\ conn' \in [Conns -> ConnRecord] /\ OthersSame(c)
           /\ conn'[c].desc = e.desc /\ conn'[c].state = "closing"
           /\ conn'[c].gen = e.gen /\ conn'[c].greenlet = None /\ conn'[c].pending = 1
           /\ UNCHANGED <<freeConns, fdToConn, status, activeWaits>>
    BY <1>6, <1>7, <2>1, SubmitCloseMeans
  <2>3. e.kind \in Closes /\ e.desc = d
    BY <1>6, <2>1, <2>2 DEF Closes
  <2> QED BY <1>1, <1>3, <1>6, <2>1, <2>2, <2>3, CloseQueuedKeeps
<1>8. CASE CloseIdle(g, d) /\ ~HasRoom(1)
  <2>1. c # None /\ Release(c) /\ UNCHANGED <<sq, ops>>
    BY <1>8 DEF CloseIdle, SubmitClose
  <2> QED BY <1>1, <1>3, <2>1, ReleaseKeeps
<1>9. ~CloseBusy(g, d)
  BY <1>6 DEF CloseBusy
<1> QED BY <1>4, <1>5, <1>7, <1>8, <1>9 DEF Close

-----------------------------------------------------------------------------
(* Calls that suspend.                                                     *)

(* A greenlet with nothing to wait for queues an SQE and waits for it.     *)
LEMMA Suspended ==
  ASSUME ConnsInv, NEW g \in Greenlets, ~Awaits(g) \/ ~Blocked(g),
         NEW e \in SqeRecord, Queues(e), e.op = ops + 1,
         NEW c \in Conns \cup {None}, NEW d \in Desc \cup {NoDesc},
         Suspends(g, e.kind, c, d), e.kind \in CallKinds, e.kind # "none",
         inflight' = inflight, phase' = phase, phase # "failed",
         ready' \in Seq(Greenlets),
         \A i, j \in 1..Len(ready') : ready'[i] = ready'[j] => i = j,
         \A h \in Greenlets : InReady(h)' <=> InReady(h) /\ h # g
  PROVE  /\ ReadyOK' /\ OpsOK'
         /\ Sqes' = Sqes \cup {e}
         /\ status' \in [Greenlets -> Statuses] /\ call' \in [Greenlets -> CallRecord]
         /\ sq' \subseteq SqeRecord /\ inflight' \subseteq SqeRecord /\ ops' \in Nat
         /\ activeWaits' \in Nat /\ activeWaits \in Nat /\ activeWaits' = activeWaits + 1
         /\ call'[g].kind = e.kind /\ call'[g].conn = c /\ call'[g].op = e.op /\ call'[g].desc = d
         /\ \A h \in Greenlets : h # g => call'[h] = call[h]
         /\ Blocked(g)' /\ Awaits(g)' /\ ~Fetched(g)'
         /\ \A h \in Greenlets : status'[h] = "unborn" => status[h] = "unborn"
         /\ \A h \in Greenlets : h # g => /\ Awaits(h)' <=> Awaits(h)
                                          /\ Blocked(h)' <=> Blocked(h)
                                          /\ Fetched(h)' <=> Fetched(h)
<1>1. /\ Sqes' = Sqes \cup {e}
      /\ sq' \subseteq SqeRecord /\ inflight' \subseteq SqeRecord
      /\ sq' \cap inflight' = {}
      /\ ops' \in Nat /\ ops' = ops + 1 /\ ops \in Nat
      /\ \A f \in Sqes : f.op <= ops /\ f.op # e.op
      /\ \A f \in Sqes' : 0 < f.op /\ f.op <= ops'
      /\ \A f, k \in Sqes' : f.op = k.op => f = k
      /\ \A h \in Greenlets : call[h].op <= ops /\ call[h].op # e.op
  BY SqeQueued
<1>2. status \in [Greenlets -> Statuses] /\ call \in [Greenlets -> CallRecord] /\ activeWaits \in Nat
  BY DEF ConnsInv, Types
<1> DEFINE r == [kind |-> e.kind, conn |-> c, op |-> ops + 1, desc |-> d]
<1>3. /\ status' = [status EXCEPT ![g] = "blocked"]
      /\ call' = [call EXCEPT ![g] = r]
      /\ activeWaits' = activeWaits + 1
  BY DEF Suspends
<1>4. r \in CallRecord /\ r.kind = e.kind /\ r.conn = c /\ r.op = e.op /\ r.desc = d
  BY <1>1 DEF CallRecord
<1>5. /\ status' \in [Greenlets -> Statuses] /\ status'[g] = "blocked"
      /\ \A h \in Greenlets : h # g => status'[h] = status[h]
      /\ call' \in [Greenlets -> CallRecord] /\ call'[g] = r
      /\ \A h \in Greenlets : h # g => call'[h] = call[h]
  BY <1>2, <1>3, <1>4 DEF Statuses
<1> HIDE DEF r
<1>6. Blocked(g)' /\ Awaits(g)' /\ ~Due(g)' /\ ~Fetched(g)'
  BY <1>1, <1>4, <1>5 DEF Blocked, Awaits, Due, Fetched
<1>7. \A h \in Greenlets : h # g => /\ Awaits(h)' <=> Awaits(h)
                                    /\ Blocked(h)' <=> Blocked(h)
                                    /\ Due(h)' <=> Due(h)
                                    /\ Fetched(h)' <=> Fetched(h)
  BY <1>1, <1>5 DEF Awaits, Blocked, Due, Fetched
<1>8. ReadyOK'
  BY <1>5, <1>6, <1>7 DEF ConnsInv, ReadyOK
<1>9. OpsOK'
  <2>1. \A h \in Greenlets : call[h].op \in Nat
    BY <1>2 DEF CallRecord
  <2>2. \A h \in Greenlets : call'[h].op <= ops'
    BY <1>1, <1>4, <1>5, <2>1
  <2>3. \A h \in Greenlets : Blocked(h)' => 0 < call'[h].op
    BY <1>1, <1>4, <1>5, <1>7 DEF ConnsInv, OpsOK
  <2>4. \A h, k \in Greenlets : Blocked(h)' /\ Blocked(k)' /\ call'[h].op = call'[k].op => h = k
    BY <1>1, <1>4, <1>5, <1>7 DEF ConnsInv, OpsOK
  <2>5. \A h \in Greenlets : \A f \in Sqes' : Blocked(h)' /\ f.op = call'[h].op => f.kind = call'[h].kind
    BY <1>1, <1>4, <1>5, <1>7 DEF ConnsInv, OpsOK
  <2> QED BY <1>1, <2>2, <2>3, <2>4, <2>5 DEF OpsOK
<1> QED BY <1>1, <1>2, <1>3, <1>4, <1>5, <1>6, <1>7, <1>8, <1>9

(* What is counted is finite.                                              *)
LEMMA FiniteCounts ==
  ASSUME ServerUse
  PROVE  /\ IsFiniteSet(ConnWaiters) /\ Cardinality(ConnWaiters) \in Nat
         /\ IsFiniteSet(Connectors) /\ Cardinality(Connectors) \in Nat
<1>1. ConnWaiters \subseteq Conns /\ Connectors \subseteq Greenlets
  BY DEF ConnWaiters, Connectors
<1>2. IsFiniteSet(ConnWaiters) /\ IsFiniteSet(Connectors)
  BY <1>1, FS_Subset DEF ServerUse
<1> QED BY <1>2, FS_CardinalityType

(* CountMeans, before and after a step that leaves the accept alone.       *)
LEMMA CountsOf ==
  ASSUME ConnsInv, accept' = accept
  PROVE  /\ activeWaits = Cardinality(ConnWaiters) + Cardinality(Connectors)
                          + (IF accept.pending THEN 1 ELSE 0)
         /\ ConnWaitsExact' <=>
              activeWaits' = Cardinality(ConnWaiters') + Cardinality(Connectors')
                             + (IF accept.pending THEN 1 ELSE 0)
BY DEF ConnsInv, ConnWaitsExact, ConnWaiters, Connectors

(* A transfer of one's own descriptor, through its idle connection.        *)
LEMMA TransferKeeps ==
  ASSUME ConnsInv, ServerUse, NEW g \in Greenlets, NEW d \in own[g], NEW c \in Conns,
         fdToConn[d.fd] = c, ~(Blocked(g) /\ Awaits(g)),
         call[g].kind \in {"none"} \cup Transfers,
         NEW kind \in Transfers, Transfer(g, kind, c, d),
         inflight' = inflight, phase' = phase, phase # "failed",
         ready' \in Seq(Greenlets),
         \A i, j \in 1..Len(ready') : ready'[i] = ready'[j] => i = j,
         \A h \in Greenlets : InReady(h)' <=> InReady(h) /\ h # g,
         UNCHANGED <<freeConns, fdToConn, accept, envVars>>
  PROVE  ConnsInv'
<1> DEFINE s == IF kind = "recv" THEN "reading" ELSE "writing"
<1> DEFINE r == With(conn[c], s, g, conn[c].pending + 1, conn[c].result)
<1>1. c \in Conns \ freeConns /\ conn[c].desc = d /\ conn[c].state = "idle"
      /\ conn[c].pending = 0 /\ conn[c].greenlet = None
  BY OwnConnIdle, ConnsAssumption
<1>2. Queues(ForConn(kind, c, d)) /\ conn' = [conn EXCEPT ![c] = r] /\ Suspends(g, kind, c, d)
  BY DEF Transfer, ConnsInv, Types
<1>3. /\ conn \in [Conns -> ConnRecord] /\ conn[c] \in ConnRecord /\ ops \in Nat
      /\ d \in Desc /\ Live(d) /\ own \in [Greenlets -> SUBSET Desc]
  BY DEF ConnsInv, Types, OwnOK
<1>4. /\ r \in ConnRecord /\ r.desc = d /\ r.state \in {"reading", "writing"} /\ r.gen = conn[c].gen
      /\ r.greenlet = g /\ r.pending = 1
  BY <1>1, <1>3 DEF With, ConnRecord, ConnStates
<1>5. conn' \in [Conns -> ConnRecord] /\ OthersSame(c) /\ conn'[c] = r
  BY <1>2, <1>3, <1>4 DEF OthersSame
<1>6. PICK e \in SqeRecord :
         /\ Queues(e) /\ e.op = ops + 1 /\ e.kind = kind /\ e.conn = c
         /\ e.desc = d /\ e.gen = conn[c].gen
  <2> DEFINE x == ForConn(kind, c, d)
  <2>1. /\ x \in SqeRecord /\ x.op = ops + 1 /\ x.kind = kind /\ x.conn = c
        /\ x.desc = d /\ x.gen = conn[c].gen
    BY <1>3 DEF ForConn, Sqe, SqeRecord, SqeKinds, ConnRecord
  <2> HIDE DEF x
  <2> QED BY <1>2, <2>1 DEF x
<1> HIDE DEF s, r
<1>7. e.kind \in CallKinds /\ e.kind # "none" /\ e.kind \notin {"accept", "connect"} /\ e.kind \notin Closes
  BY <1>6 DEF CallKinds, Transfers, Closes
<1>8. /\ ReadyOK' /\ OpsOK'
      /\ Sqes' = Sqes \cup {e}
      /\ status' \in [Greenlets -> Statuses] /\ call' \in [Greenlets -> CallRecord]
      /\ sq' \subseteq SqeRecord /\ inflight' \subseteq SqeRecord /\ ops' \in Nat
      /\ activeWaits' \in Nat /\ activeWaits \in Nat /\ activeWaits' = activeWaits + 1
      /\ call'[g].kind = e.kind /\ call'[g].conn = c /\ call'[g].op = e.op /\ call'[g].desc = d
      /\ \A h \in Greenlets : h # g => call'[h] = call[h]
      /\ Blocked(g)' /\ Awaits(g)' /\ ~Fetched(g)'
      /\ \A h \in Greenlets : status'[h] = "unborn" => status[h] = "unborn"
      /\ \A h \in Greenlets : h # g => /\ Awaits(h)' <=> Awaits(h)
                                       /\ Blocked(h)' <=> Blocked(h)
                                       /\ Fetched(h)' <=> Fetched(h)
  BY <1>2, <1>6, <1>7, <1>3, Suspended
<1>9. \A k : Live(k)' <=> Live(k)
  BY DEF Live, envVars
<1>10. Types'
  BY <1>5, <1>8 DEF ConnsInv, Types, envVars
<1>11. \A b \in Conns : conn[b].state # "idle" \/ conn[b].desc # d => b # c /\ conn'[b] = conn[b]
  BY <1>1, <1>5 DEF OthersSame
<1>12. ~Fetched(g) /\ ~Connecting(g)
  BY DEF Fetched, Connecting, Transfers
<1>13. CallsOK'
  <2>1. ASSUME NEW h \in Greenlets, call'[h].kind \in Transfers PROVE TransferOK(h)'
    <3>1. CASE h = g
      BY <1>4, <1>5, <1>8, <3>1 DEF TransferOK, envVars
    <3>2. CASE h # g
      <4>1. TransferOK(h) /\ Live(call[h].desc) /\ call[h].desc # d
        BY <1>8, <2>1, <3>2 DEF ConnsInv, CallsOK, TransferOK, OwnOK
      <4>2. call[h].conn \in Conns /\ conn[call[h].conn].desc = call[h].desc
        BY <4>1, MappedConn, ConnsAssumption DEF TransferOK
      <4>3. conn'[call[h].conn] = conn[call[h].conn]
        BY <1>11, <4>1, <4>2
      <4> QED BY <1>8, <3>2, <4>1, <4>3 DEF TransferOK, envVars
    <3> QED BY <3>1, <3>2
  <2>2. ASSUME NEW h \in Greenlets, call'[h].kind = "connect" PROVE ConnectOK(h)'
    <3>1. h # g /\ call'[h] = call[h] /\ call[h].kind = "connect"
      BY <1>7, <1>8, <2>2
    <3>2. ConnectOK(h) /\ conn[call[h].conn].desc = call[h].desc
      BY <3>1, ConnectIdle DEF ConnsInv, CallsOK
    <3>3. call[h].desc # d /\ call[h].conn \in Conns
      BY <3>2 DEF ConnectOK
    <3>4. conn'[call[h].conn] = conn[call[h].conn]
      BY <1>11, <3>2, <3>3
    <3>5. \A k \in Greenlets \ {h} : call'[k].kind = "connect" => call[k].kind = "connect" /\ call'[k] = call[k]
      BY <1>7, <1>8
    <3> QED BY <1>9, <3>1, <3>2, <3>4, <3>5 DEF ConnectOK, envVars
  <2>3. \A h \in Greenlets : Blocked(h)' <=> call'[h].kind # "none"
    BY <1>7, <1>8 DEF ConnsInv, CallsOK
  <2>4. \A h \in Greenlets : ~Blocked(h)' => call'[h] = NoCall
    BY <1>8 DEF ConnsInv, CallsOK
  <2> QED BY <2>1, <2>2, <2>3, <2>4 DEF CallsOK
<1>14. AcceptOK'
  <2>1. accept.pending => accept.greenlet \in Greenlets /\ accept.greenlet # g
    BY DEF ConnsInv, Types, AcceptOK, AcceptRecord, Transfers
  <2>2. \A h \in Greenlets : Fetched(h)' => Fetched(h)
    BY <1>8
  <2>3. \A h \in Greenlets : call'[h].kind = "accept" /\ Awaits(h)' => call[h].kind = "accept" /\ Awaits(h)
    BY <1>7, <1>8
  <2> QED BY <1>7, <1>8, <1>9, <2>1, <2>2, <2>3 DEF ConnsInv, AcceptOK, envVars
<1>15. \A f \in Sqes : f.op # call[g].op \/ f.kind # call[g].kind \/ ~Blocked(g)
  BY DEF Awaits
<1>16. SqesOK'
  <2>1. \A f \in Sqes' : f.kind = "connect" => \E h \in Greenlets : call'[h].kind = "connect" /\ call'[h].op = f.op
    <3> SUFFICES ASSUME NEW f \in Sqes, f.kind = "connect"
                 PROVE  \E h \in Greenlets : call'[h].kind = "connect" /\ call'[h].op = f.op
      BY <1>7, <1>8
    <3>1. PICK h \in Greenlets : call[h].kind = "connect" /\ call[h].op = f.op
      BY DEF ConnsInv, SqesOK
    <3>2. h # g
      BY <3>1 DEF Transfers
    <3> QED BY <1>8, <3>1, <3>2
  <2>2. ASSUME NEW f \in Sqes, f.kind \in Transfers PROVE TransferSqeOK(f)'
    <3>1. TransferSqeOK(f)
      BY <2>2 DEF ConnsInv, SqesOK
    <3>2. conn'[f.conn] = conn[f.conn] /\ f.conn \in Conns /\ conn[f.conn].greenlet \in Greenlets
      BY <1>11, <3>1 DEF TransferSqeOK
    <3>3. conn[f.conn].greenlet # g
      <4>1. ConnOK(f.conn)
        BY <3>1 DEF ConnsInv, ConnsOK, TransferSqeOK
      <4>2. call[conn[f.conn].greenlet].kind \in Transfers /\ Awaits(conn[f.conn].greenlet)
        BY <3>1, <4>1 DEF ConnOK, TransferSqeOK
      <4>3. Blocked(conn[f.conn].greenlet)
        BY <3>2, <4>2 DEF ConnsInv, CallsOK, Transfers
      <4> QED BY <4>2, <4>3
    <3> QED BY <1>8, <3>1, <3>2, <3>3 DEF TransferSqeOK
  <2>3. TransferSqeOK(e)'
    BY <1>1, <1>4, <1>5, <1>6, <1>8 DEF TransferSqeOK
  <2>4. ASSUME NEW f \in Sqes, f.kind \in Closes PROVE CloseSqeOK(f)'
    <3>1. CloseSqeOK(f)
      BY <2>4 DEF ConnsInv, SqesOK
    <3>2. f.kind = "close" => conn'[f.conn] = conn[f.conn]
      BY <1>11, <3>1 DEF CloseSqeOK
    <3> QED BY <1>8, <1>9, <3>1, <3>2 DEF CloseSqeOK, envVars
  <2>5. \A f, k \in Sqes' : f.kind \in Closes /\ k.kind \in Closes /\ f.desc = k.desc => f = k
    BY <1>7, <1>8 DEF ConnsInv, SqesOK
  <2>6. \A f \in Sqes' : f.kind \in {"accept", "connect"} => f.conn = None
    BY <1>7, <1>8 DEF ConnsInv, SqesOK
  <2> QED BY <1>7, <1>8, <2>1, <2>2, <2>3, <2>4, <2>5, <2>6 DEF SqesOK
<1>17. ConnsOK'
  <2>1. ASSUME NEW b \in Conns \ freeConns, b # c PROVE ConnOK(b)'
    <3>1. ConnOK(b) /\ conn'[b] = conn[b]
      BY <1>5, <2>1 DEF ConnsInv, ConnsOK, OthersSame
    <3>2. conn[b].state \in {"reading", "writing"} => conn[b].greenlet # g
      <4>1. call[g].kind \in Transfers => Blocked(g)
        BY DEF ConnsInv, CallsOK, Transfers
      <4> QED BY <3>1, <4>1 DEF ConnOK
    <3> QED BY <1>8, <1>9, <3>1, <3>2 DEF ConnOK
  <2>2. ConnOK(c)'
    <3>1. /\ call'[g].kind \in Transfers /\ call'[g].conn = c /\ Awaits(g)' /\ Live(d)'
      BY <1>3, <1>6, <1>8, <1>9
    <3> QED BY <1>4, <1>5, <3>1 DEF ConnOK
  <2>3. \A b \in freeConns' : conn'[b].greenlet = None
    <3>1. \A b \in freeConns : b \in Conns /\ b # c /\ conn[b].greenlet = None
      BY <1>1 DEF ConnsInv, ConnsOK, Types
    <3> QED BY <1>5, <3>1 DEF OthersSame
  <2>4. \A fd \in Fds : fdToConn'[fd] # None => fdToConn'[fd] \notin freeConns' /\ conn'[fdToConn'[fd]].desc.fd = fd
    <3>1. \A fd \in Fds : fdToConn[fd] # None =>
             fdToConn[fd] \in Conns /\ fdToConn[fd] \notin freeConns /\ conn[fdToConn[fd]].desc.fd = fd
      BY DEF ConnsInv, ConnsOK, Types
    <3>2. \A b \in Conns : conn'[b].desc = conn[b].desc
      BY <1>1, <1>4, <1>5 DEF OthersSame
    <3> QED BY <3>1, <3>2
  <2> QED BY <2>1, <2>2, <2>3, <2>4 DEF ConnsOK
<1>18. OwnOK'
  BY <1>8, <1>9 DEF ConnsInv, OwnOK, envVars
<1>19. ConnWaitsExact'
  <2>1. Connectors' = Connectors
    <3>1. \A h \in Greenlets : Connecting(h)' <=> Connecting(h)
      <4> SUFFICES ASSUME NEW h \in Greenlets PROVE Connecting(h)' <=> Connecting(h)
        OBVIOUS
      <4>1. CASE h = g
        BY <1>7, <1>8, <1>12, <4>1 DEF Connecting
      <4>2. CASE h # g
        BY <1>8, <4>2, ConnectingMeans DEF Connecting, Awaits, Sqes
      <4> QED BY <4>1, <4>2
    <3> QED BY <3>1 DEF Connectors
  <2>2. ConnWaiters' = ConnWaiters \cup {c} /\ c \notin ConnWaiters
    <3>1. g # None
      BY ConnsAssumption
    <3> QED BY <1>1, <1>4, <1>5, <3>1 DEF ConnWaiters, OthersSame
  <2>3. Cardinality(ConnWaiters') = Cardinality(ConnWaiters) + 1
    BY <2>2, FiniteCounts, OneMore
  <2> QED BY <1>8, <2>1, <2>3, FiniteCounts, CountsOf
<1> QED BY <1>8, <1>10, <1>13, <1>14, <1>16, <1>17, <1>18, <1>19 DEF ConnsInv

(* green_recv and green_send.                                              *)
LEMMA RecvOrSendKeeps ==
  ASSUME ConnsInv, ServerUse, NEW g \in Greenlets, NEW kind \in Transfers, NEW d,
         RecvOrSend(g, kind, d)
  PROVE  ConnsInv'
<1>1. /\ Running(g) /\ d \in own[g] /\ fdToConn[d.fd] # None
      /\ Transfer(g, kind, fdToConn[d.fd], d)
      /\ UNCHANGED <<ready, phase, stop, inflight, freeConns, fdToConn, accept, envVars>>
  BY DEF RecvOrSend, Calls, CanUse, ServerUse
<1>2. /\ ~InReady(g) /\ ~Blocked(g) /\ call[g].kind = "none" /\ phase = "drain"
  BY <1>1, RunningFree
<1>3. PICK c \in Conns : fdToConn[d.fd] = c
  BY <1>1 DEF ConnsInv, Types, OwnOK, Live, Desc
<1>4. /\ ready' \in Seq(Greenlets)
      /\ \A i, j \in 1..Len(ready') : ready'[i] = ready'[j] => i = j
      /\ \A h \in Greenlets : InReady(h)' <=> InReady(h) /\ h # g
  BY <1>1, <1>2 DEF ConnsInv, Types, ReadyOK, InReady
<1>5. Transfer(g, kind, c, d)
  BY <1>1, <1>3
<1> QED BY <1>1, <1>2, <1>3, <1>4, <1>5, TransferKeeps

(* green_accept.                                                           *)
LEMMA AcceptKeeps ==
  ASSUME ConnsInv, ServerUse, NEW g \in Greenlets, Accept(g)
  PROVE  ConnsInv'
<1>1. /\ Running(g) /\ ~accept.pending
      /\ accept' = [greenlet |-> g, pending |-> TRUE, result |-> accept.result]
      /\ UNCHANGED <<ready, phase, stop, inflight, conn, freeConns, fdToConn, own, file, files>>
  BY DEF Accept, Calls, ServerUse, envVars
<1>2. /\ ~InReady(g) /\ ~Blocked(g) /\ call[g].kind = "none" /\ phase = "drain"
  BY <1>1, RunningFree
<1>3. PICK e \in SqeRecord :
         /\ Queues(e) /\ e.op = ops + 1 /\ e.kind = "accept" /\ e.conn = None
         /\ Suspends(g, e.kind, None, NoDesc)
  <2> DEFINE x == Sqe("accept", None, 0, NoDesc)
  <2>1. /\ x \in SqeRecord /\ x.op = ops + 1 /\ x.kind = "accept" /\ x.conn = None
    BY DEF Sqe, SqeRecord, SqeKinds, ConnsInv, Types
  <2> HIDE DEF x
  <2>2. Queues(x) /\ Suspends(g, "accept", None, NoDesc)
    BY DEF Accept, x
  <2> QED BY <2>1, <2>2
<1>4. /\ ready' \in Seq(Greenlets)
      /\ \A i, j \in 1..Len(ready') : ready'[i] = ready'[j] => i = j
      /\ \A h \in Greenlets : InReady(h)' <=> InReady(h) /\ h # g
  BY <1>1, <1>2 DEF ConnsInv, Types, ReadyOK, InReady
<1>5. e.kind \in CallKinds /\ e.kind # "none"
  BY <1>3 DEF CallKinds
<1>6. /\ ReadyOK' /\ OpsOK'
      /\ Sqes' = Sqes \cup {e}
      /\ status' \in [Greenlets -> Statuses] /\ call' \in [Greenlets -> CallRecord]
      /\ sq' \subseteq SqeRecord /\ inflight' \subseteq SqeRecord /\ ops' \in Nat
      /\ activeWaits' \in Nat /\ activeWaits \in Nat /\ activeWaits' = activeWaits + 1
      /\ call'[g].kind = e.kind /\ call'[g].conn = None /\ call'[g].op = e.op /\ call'[g].desc = NoDesc
      /\ \A h \in Greenlets : h # g => call'[h] = call[h]
      /\ Blocked(g)' /\ Awaits(g)' /\ ~Fetched(g)'
      /\ \A h \in Greenlets : status'[h] = "unborn" => status[h] = "unborn"
      /\ \A h \in Greenlets : h # g => /\ Awaits(h)' <=> Awaits(h)
                                       /\ Blocked(h)' <=> Blocked(h)
                                       /\ Fetched(h)' <=> Fetched(h)
  BY <1>1, <1>2, <1>3, <1>4, <1>5, Suspended
<1>7. \A k : Live(k)' <=> Live(k)
  BY <1>1 DEF Live
<1>8. /\ accept' \in AcceptRecord /\ accept'.greenlet = g /\ accept'.pending
      /\ accept'.result = accept.result
  BY <1>1 DEF ConnsInv, Types, AcceptRecord
<1>9. Types'
  BY <1>1, <1>4, <1>6, <1>8 DEF ConnsInv, Types
<1>10. CallsOK'
  <2>1. ASSUME NEW h \in Greenlets, call'[h].kind \in Transfers PROVE TransferOK(h)'
    <3>1. h # g /\ TransferOK(h)
      BY <1>3, <1>6, <2>1 DEF ConnsInv, CallsOK, Transfers
    <3> QED BY <1>1, <1>6, <3>1 DEF TransferOK
  <2>2. ASSUME NEW h \in Greenlets, call'[h].kind = "connect" PROVE ConnectOK(h)'
    <3>1. h # g /\ call'[h] = call[h] /\ ConnectOK(h)
      BY <1>3, <1>6, <2>2 DEF ConnsInv, CallsOK
    <3>2. \A k \in Greenlets \ {h} : call'[k].kind = "connect" => call[k].kind = "connect" /\ call'[k] = call[k]
      BY <1>3, <1>6
    <3> QED BY <1>1, <1>7, <3>1, <3>2 DEF ConnectOK
  <2>3. \A h \in Greenlets : Blocked(h)' <=> call'[h].kind # "none"
    BY <1>3, <1>6 DEF ConnsInv, CallsOK
  <2>4. \A h \in Greenlets : ~Blocked(h)' => call'[h] = NoCall
    BY <1>6 DEF ConnsInv, CallsOK
  <2> QED BY <2>1, <2>2, <2>3, <2>4 DEF CallsOK
<1>11. AcceptOK'
  <2>1. g # None
    BY ConnsAssumption
  <2>2. \A f \in Sqes : f.kind # "accept"
    BY <1>1 DEF ConnsInv, AcceptOK
  <2>3. \A h \in Greenlets : Fetched(h)' => Fetched(h)
    BY <1>6
  <2>4. \A f \in inflight' : f \in Sqes
    BY <1>1 DEF Sqes
  <2>5. \A h \in Greenlets : call'[h].kind = "accept" /\ Awaits(h)' => h = g
    <3>1. \A h \in Greenlets : ~(call[h].kind = "accept" /\ Awaits(h))
      <4> SUFFICES ASSUME NEW h \in Greenlets, call[h].kind = "accept", Awaits(h) PROVE FALSE
        OBVIOUS
      <4>1. Blocked(h)
        BY DEF ConnsInv, CallsOK
      <4>2. PICK f \in Sqes : f.op = call[h].op
        BY DEF Awaits
      <4> QED BY <2>2, <4>1, <4>2 DEF ConnsInv, OpsOK
    <3> QED BY <1>6, <3>1
  <2>6. \A f \in Sqes' : f.kind = "accept" => f.op = call'[g].op
    BY <1>6, <2>2
  <2>7. \A h, k \in Greenlets : Fetched(h)' /\ Fetched(k)' => h = k
    BY <2>3 DEF ConnsInv, AcceptOK
  <2>8. \A h \in Greenlets : Fetched(h)' =>
          /\ \A f \in inflight' : f.kind # "accept"
          /\ (accept.result # NoDesc =>
               /\ Live(accept.result)
               /\ fdToConn[accept.result.fd] = None
               /\ \A k \in Greenlets : accept.result \notin own[k])'
    <3>1. ASSUME NEW h \in Greenlets, Fetched(h)', accept'.result # NoDesc
          PROVE  /\ Live(accept.result)'
                 /\ fdToConn'[accept'.result.fd] = None
                 /\ \A k \in Greenlets : accept'.result \notin own'[k]
      <4>1. Live(accept.result) /\ fdToConn[accept.result.fd] = None
            /\ \A k \in Greenlets : accept.result \notin own[k]
        BY <1>8, <2>3, <3>1 DEF ConnsInv, AcceptOK
      <4> QED BY <1>1, <1>8, <4>1 DEF Live
    <3> QED BY <2>2, <2>4, <3>1
  <2> QED BY <1>3, <1>6, <1>8, <2>1, <2>5, <2>6, <2>7, <2>8 DEF AcceptOK
<1>12. SqesOK'
  <2>1. e.kind \notin Transfers /\ e.kind \notin Closes /\ e.kind # "connect"
    BY <1>3 DEF Transfers, Closes
  <2>2. \A f \in Sqes' : f.kind = "connect" => \E h \in Greenlets : call'[h].kind = "connect" /\ call'[h].op = f.op
    <3> SUFFICES ASSUME NEW f \in Sqes, f.kind = "connect"
                 PROVE  \E h \in Greenlets : call'[h].kind = "connect" /\ call'[h].op = f.op
      BY <1>6, <2>1
    <3>1. PICK h \in Greenlets : call[h].kind = "connect" /\ call[h].op = f.op
      BY DEF ConnsInv, SqesOK
    <3> QED BY <1>2, <1>6, <3>1
  <2>3. ASSUME NEW f \in Sqes, f.kind \in Transfers PROVE TransferSqeOK(f)'
    <3>1. TransferSqeOK(f) /\ ConnOK(f.conn)
      BY <2>3 DEF ConnsInv, SqesOK, TransferSqeOK, ConnsOK
    <3>2. conn[f.conn].greenlet # g
      BY <1>2, <3>1 DEF ConnOK, TransferSqeOK, Transfers
    <3> QED BY <1>1, <1>6, <3>1, <3>2 DEF TransferSqeOK
  <2>4. ASSUME NEW f \in Sqes, f.kind \in Closes PROVE CloseSqeOK(f)'
    <3>1. CloseSqeOK(f)
      BY <2>4 DEF ConnsInv, SqesOK
    <3> QED BY <1>1, <1>6, <1>7, <1>8, <3>1 DEF CloseSqeOK
  <2>5. \A f, k \in Sqes' : f.kind \in Closes /\ k.kind \in Closes /\ f.desc = k.desc => f = k
    BY <1>6, <2>1 DEF ConnsInv, SqesOK
  <2>6. \A f \in Sqes' : f.kind \in {"accept", "connect"} => f.conn = None
    BY <1>3, <1>6 DEF ConnsInv, SqesOK
  <2> QED BY <1>6, <2>1, <2>2, <2>3, <2>4, <2>5, <2>6 DEF SqesOK
<1>13. ConnsOK'
  <2>1. ASSUME NEW b \in Conns \ freeConns PROVE ConnOK(b)'
    <3>1. ConnOK(b)
      BY DEF ConnsInv, ConnsOK
    <3>2. conn[b].state \in {"reading", "writing"} => conn[b].greenlet # g
      BY <1>2, <3>1 DEF ConnOK, Transfers
    <3> QED BY <1>1, <1>6, <1>7, <3>1, <3>2 DEF ConnOK
  <2> QED BY <1>1, <2>1 DEF ConnsInv, ConnsOK
<1>14. OwnOK'
  BY <1>1, <1>6, <1>7 DEF ConnsInv, OwnOK
<1>15. ConnWaitsExact'
  <2>1. Connectors' = Connectors
    <3>1. \A h \in Greenlets : Connecting(h)' <=> Connecting(h)
      <4> SUFFICES ASSUME NEW h \in Greenlets PROVE Connecting(h)' <=> Connecting(h)
        OBVIOUS
      <4>1. CASE h = g
        BY <1>2, <1>3, <1>6, <4>1 DEF Connecting
      <4>2. CASE h # g
        BY <1>6, <4>2, ConnectingMeans DEF Connecting, Awaits, Sqes
      <4> QED BY <4>1, <4>2
    <3> QED BY <3>1 DEF Connectors
  <2>2. ConnWaiters' = ConnWaiters
    BY <1>1 DEF ConnWaiters
  <2>3. activeWaits = Cardinality(ConnWaiters) + Cardinality(Connectors)
    BY <1>1, CountMeans, FiniteCounts DEF ConnsInv
  <2>4. activeWaits' = Cardinality(ConnWaiters') + Cardinality(Connectors') + 1
    BY <1>6, <2>1, <2>2, <2>3
  <2> QED BY <1>8, <2>4 DEF ConnWaitsExact, ConnWaiters, Connectors
<1> QED BY <1>6, <1>9, <1>10, <1>11, <1>12, <1>13, <1>14, <1>15 DEF ConnsInv

(* green_connect.                                                          *)
LEMMA ConnectKeeps ==
  ASSUME ConnsInv, ServerUse, NEW g \in Greenlets, NEW fd \in Fds, Connect(g, fd)
  PROVE  ConnsInv'
<1>1. PICK d : d = [fd |-> fd, file |-> files + 1]
  OBVIOUS
<1>2. /\ Running(g) /\ Opens(fd)
      /\ UNCHANGED <<ready, phase, stop, inflight, accept, own>>
  BY DEF Connect, Calls
<1>3. PICK c \in freeConns :
        Registers(c, d) /\ Queues(Sqe("connect", None, 0, d)) /\ Suspends(g, "connect", c, d)
  BY <1>1 DEF Connect
<1>4. /\ file' \in [Fds -> Nat] /\ files' \in Nat
      /\ d \in Desc /\ Live(d)'
      /\ \A k : Live(k) => Live(k)' /\ k.fd # fd
      /\ fdToConn[fd] = None
  BY <1>1, <1>2, OpensMeans
<1>5. d.fd = fd
  BY <1>1
<1>6. /\ conn' \in [Conns -> ConnRecord] /\ OthersSame(c)
      /\ conn'[c].desc = d /\ conn'[c].state = "idle"
      /\ conn'[c].pending = 0 /\ conn'[c].greenlet = None
      /\ c \in Conns
      /\ freeConns' = freeConns \ {c} /\ freeConns' \in SUBSET Conns
      /\ fdToConn' \in [Fds -> Conns \cup {None}]
      /\ fdToConn'[fd] = c
      /\ \A n \in Fds : n # fd => fdToConn'[n] = fdToConn[n]
  BY <1>3, <1>4, <1>5, RegistersMeans
<1>7. PICK e \in SqeRecord :
         /\ Queues(e) /\ e.op = ops + 1 /\ e.kind = "connect" /\ e.conn = None
  <2> DEFINE x == Sqe("connect", None, 0, d)
  <2>1. /\ x \in SqeRecord /\ x.op = ops + 1 /\ x.kind = "connect" /\ x.conn = None
    BY <1>4 DEF Sqe, SqeRecord, SqeKinds, ConnsInv, Types
  <2> HIDE DEF x
  <2>2. Queues(x)
    BY <1>3 DEF x
  <2> QED BY <2>1, <2>2
<1>8. /\ ~InReady(g) /\ ~Blocked(g) /\ call[g].kind = "none" /\ phase = "drain"
  BY <1>2, RunningFree
<1>9. /\ ready' \in Seq(Greenlets)
      /\ \A i, j \in 1..Len(ready') : ready'[i] = ready'[j] => i = j
      /\ \A h \in Greenlets : InReady(h)' <=> InReady(h) /\ h # g
  BY <1>2, <1>8 DEF ConnsInv, Types, ReadyOK, InReady
<1>10. e.kind \in CallKinds /\ e.kind # "none" /\ c \in Conns \cup {None} /\ Suspends(g, e.kind, c, d)
  BY <1>3, <1>6, <1>7 DEF CallKinds
<1>11.
      /\ ReadyOK' /\ OpsOK'
      /\ Sqes' = Sqes \cup {e}
      /\ status' \in [Greenlets -> Statuses] /\ call' \in [Greenlets -> CallRecord]
      /\ sq' \subseteq SqeRecord /\ inflight' \subseteq SqeRecord /\ ops' \in Nat
      /\ activeWaits' \in Nat /\ activeWaits \in Nat /\ activeWaits' = activeWaits + 1
      /\ call'[g].kind = e.kind /\ call'[g].conn = c /\ call'[g].op = e.op /\ call'[g].desc = d
      /\ \A h \in Greenlets : h # g => call'[h] = call[h]
      /\ Blocked(g)' /\ Awaits(g)' /\ ~Fetched(g)'
      /\ \A h \in Greenlets : status'[h] = "unborn" => status[h] = "unborn"
      /\ \A h \in Greenlets : h # g => /\ Awaits(h)' <=> Awaits(h)
                                       /\ Blocked(h)' <=> Blocked(h)
                                       /\ Fetched(h)' <=> Fetched(h)
  BY <1>2, <1>4, <1>7, <1>8, <1>9, <1>10, Suspended
<1>12. Types'
  BY <1>2, <1>4, <1>6, <1>9, <1>11 DEF ConnsInv, Types
<1>13. \A k : Live(k) => k # d /\ k.fd \in Fds /\ fdToConn'[k.fd] = fdToConn[k.fd]
  BY <1>4, <1>5, <1>6 DEF Live, Desc
<1>14. \A h \in Greenlets : d \notin own[h]
  BY <1>13 DEF ConnsInv, OwnOK
<1>15. conn[c].greenlet = None
  BY <1>3 DEF ConnsInv, ConnsOK
<1>16. CallsOK'
  <2>1. ASSUME NEW h \in Greenlets, call'[h].kind \in Transfers PROVE TransferOK(h)'
    <3>1. h # g /\ call'[h] = call[h] /\ TransferOK(h) /\ Live(call[h].desc)
      BY <1>7, <1>11, <2>1 DEF ConnsInv, CallsOK, TransferOK, OwnOK, Transfers
    <3>2. call[h].conn # c /\ call[h].conn \in Conns
      BY <1>3, <3>1, MappedConn, ConnsAssumption DEF TransferOK
    <3>3. fdToConn'[call[h].desc.fd] = call[h].conn
      BY <1>13, <3>1 DEF TransferOK
    <3> QED BY <1>2, <1>6, <1>11, <3>1, <3>2, <3>3 DEF TransferOK, OthersSame
  <2>2. ASSUME NEW h \in Greenlets, h # g, call'[h].kind = "connect"
        PROVE  ConnectOK(h)' /\ call'[h].desc # d
    <3>1. call'[h] = call[h] /\ call[h].kind = "connect" /\ ConnectOK(h)
      BY <1>11, <2>2 DEF ConnsInv, CallsOK
    <3>2. /\ call[h].conn # c /\ call[h].conn \in Conns
          /\ Live(call[h].desc) /\ call[h].desc # d
          /\ fdToConn'[call[h].desc.fd] = call[h].conn
      BY <1>3, <1>13, <3>1, ConnectIdle DEF ConnectOK
    <3>3. \A k \in Greenlets \ {h} : call'[k].kind = "connect" => call'[k].desc # call[h].desc
      BY <1>11, <3>1, <3>2 DEF ConnectOK
    <3>4. Live(call[h].desc)'
      <4>1. PICK k : k = call[h].desc
        OBVIOUS
      <4>2. Live(k)'
        BY <1>4, <3>2, <4>1
      <4> QED BY <3>1, <4>1, <4>2 DEF Live
    <3> QED BY <1>2, <1>6, <3>1, <3>2, <3>3, <3>4 DEF ConnectOK, OthersSame
  <2>3. ConnectOK(g)'
    <3>1. call'[g].desc = d /\ call'[g].conn = c
      BY <1>11
    <3>2. Live(call[g].desc)'
      BY <1>4, <3>1 DEF Live
    <3>3. \A k \in Greenlets \ {g} : call'[k].kind = "connect" => call'[k].desc # d
      BY <2>2
    <3> QED BY <1>2, <1>5, <1>6, <1>14, <3>1, <3>2, <3>3 DEF ConnectOK
  <2>4. \A h \in Greenlets : Blocked(h)' <=> call'[h].kind # "none"
    BY <1>7, <1>11 DEF ConnsInv, CallsOK
  <2>5. \A h \in Greenlets : ~Blocked(h)' => call'[h] = NoCall
    BY <1>11 DEF ConnsInv, CallsOK
  <2> QED BY <2>1, <2>2, <2>3, <2>4, <2>5 DEF CallsOK
<1>17. AcceptOK'
  <2>1. accept.pending => accept.greenlet \in Greenlets /\ accept.greenlet # g
    BY <1>8 DEF ConnsInv, Types, AcceptOK, AcceptRecord
  <2>2. \A h \in Greenlets : Fetched(h)' => Fetched(h)
    BY <1>11
  <2>3. \A h \in Greenlets : call'[h].kind = "accept" /\ Awaits(h)' => call[h].kind = "accept" /\ Awaits(h)
    BY <1>7, <1>11
  <2>4. \A h \in Greenlets : Fetched(h)' =>
          /\ \A f \in inflight' : f.kind # "accept"
          /\ (accept.result # NoDesc =>
               /\ Live(accept.result)
               /\ fdToConn[accept.result.fd] = None
               /\ \A k \in Greenlets : accept.result \notin own[k])'
    <3>1. ASSUME NEW h \in Greenlets, Fetched(h)', accept'.result # NoDesc
          PROVE  /\ Live(accept.result)'
                 /\ fdToConn'[accept'.result.fd] = None
                 /\ \A k \in Greenlets : accept'.result \notin own'[k]
      <4>1. PICK r : r = accept.result
        OBVIOUS
      <4>2. Live(r) /\ fdToConn[r.fd] = None
            /\ \A k \in Greenlets : r \notin own[k]
        BY <1>2, <2>2, <3>1, <4>1 DEF ConnsInv, AcceptOK
      <4>3. Live(r)' /\ fdToConn'[r.fd] = None
        BY <1>4, <1>13, <4>2
      <4> QED BY <1>2, <4>1, <4>2, <4>3 DEF Live
    <3> QED BY <1>2, <2>2, <3>1 DEF ConnsInv, AcceptOK
  <2>5. accept.pending =>
         call'[accept.greenlet] = call[accept.greenlet] /\ (Awaits(accept.greenlet)' <=> Awaits(accept.greenlet))
    <3> SUFFICES ASSUME accept.pending
                 PROVE  call'[accept.greenlet] = call[accept.greenlet]
                        /\ (Awaits(accept.greenlet)' <=> Awaits(accept.greenlet))
      OBVIOUS
    <3>1. PICK h \in Greenlets : h = accept.greenlet /\ h # g
      BY <2>1
    <3>2. call'[h] = call[h] /\ (Awaits(h)' <=> Awaits(h))
      BY <1>11, <3>1
    <3> QED BY <1>2, <3>1, <3>2 DEF Awaits
  <2>6. \A h, k \in Greenlets : Fetched(h)' /\ Fetched(k)' => h = k
    BY <2>2 DEF ConnsInv, AcceptOK
  <2>7. \A f \in Sqes' : f.kind = "accept" => f \in Sqes
    BY <1>7, <1>11
  <2> QED BY <1>2, <2>1, <2>3, <2>4, <2>5, <2>6, <2>7 DEF ConnsInv, AcceptOK
<1>18. SqesOK'
  <2>1. e.kind \notin Transfers /\ e.kind \notin Closes /\ e.kind # "accept"
    BY <1>7 DEF Transfers, Closes
  <2>2. \A f \in Sqes' : f.kind = "connect" => \E h \in Greenlets : call'[h].kind = "connect" /\ call'[h].op = f.op
    <3> SUFFICES ASSUME NEW f \in Sqes, f.kind = "connect"
                 PROVE  \E h \in Greenlets : call'[h].kind = "connect" /\ call'[h].op = f.op
      BY <1>7, <1>11, <2>1
    <3>1. PICK h \in Greenlets : call[h].kind = "connect" /\ call[h].op = f.op
      BY DEF ConnsInv, SqesOK
    <3> QED BY <1>8, <1>11, <3>1
  <2>3. ASSUME NEW f \in Sqes, f.kind \in Transfers PROVE TransferSqeOK(f)'
    <3>1. TransferSqeOK(f) /\ ConnOK(f.conn)
      BY <2>3 DEF ConnsInv, SqesOK, TransferSqeOK, ConnsOK
    <3>2. conn[f.conn].greenlet # g
      BY <1>8, <3>1 DEF ConnOK, TransferSqeOK, Transfers
    <3>3. conn'[f.conn] = conn[f.conn] /\ f.conn \in Conns \ freeConns'
      BY <1>3, <1>6, <3>1 DEF TransferSqeOK, OthersSame
    <3> QED BY <1>11, <3>1, <3>2, <3>3 DEF TransferSqeOK
  <2>4. ASSUME NEW f \in Sqes, f.kind \in Closes PROVE CloseSqeOK(f)'
    <3>1. CloseSqeOK(f) /\ Live(f.desc)
      BY <2>4 DEF ConnsInv, SqesOK, CloseSqeOK
    <3>2. f.kind = "close" => conn'[f.conn] = conn[f.conn] /\ f.conn \in Conns \ freeConns'
      BY <1>3, <1>6, <3>1 DEF CloseSqeOK, OthersSame
    <3>3. Live(f.desc)'
      <4>1. PICK k : k = f.desc
        OBVIOUS
      <4> QED BY <1>4, <3>1, <4>1
    <3>4. fdToConn'[f.desc.fd] = fdToConn[f.desc.fd]
      BY <1>13, <3>1
    <3> QED BY <1>2, <1>11, <3>1, <3>2, <3>3, <3>4 DEF CloseSqeOK
  <2>5. \A f, k \in Sqes' : f.kind \in Closes /\ k.kind \in Closes /\ f.desc = k.desc => f = k
    BY <1>11, <2>1 DEF ConnsInv, SqesOK
  <2>6. \A f \in Sqes' : f.kind \in {"accept", "connect"} => f.conn = None
    BY <1>7, <1>11 DEF ConnsInv, SqesOK
  <2> QED BY <1>11, <2>1, <2>2, <2>3, <2>4, <2>5, <2>6 DEF SqesOK
<1>19. ConnsOK'
  <2>1. ASSUME NEW b \in Conns \ freeConns PROVE ConnOK(b)'
    <3>1. ConnOK(b) /\ conn'[b] = conn[b] /\ Live(conn[b].desc)
      BY <1>3, <1>6 DEF ConnsInv, ConnsOK, ConnOK, OthersSame
    <3>2. conn[b].state \in {"reading", "writing"} => conn[b].greenlet # g
      BY <1>8, <3>1 DEF ConnOK, Transfers
    <3>3. Live(conn[b].desc)' /\ fdToConn'[conn[b].desc.fd] = b
      <4>1. PICK k : k = conn[b].desc
        OBVIOUS
      <4>2. Live(k)' /\ fdToConn'[k.fd] = fdToConn[k.fd]
        BY <1>4, <1>13, <3>1, <4>1
      <4> QED BY <3>1, <4>1, <4>2 DEF ConnOK, Live
    <3> QED BY <1>11, <3>1, <3>2, <3>3 DEF ConnOK
  <2>2. ConnOK(c)'
    BY <1>4, <1>5, <1>6 DEF ConnOK, Live
  <2>3. \A b \in freeConns' : conn'[b].greenlet = None
    <3>1. \A b \in freeConns' : b \in Conns /\ b # c /\ conn[b].greenlet = None
      BY <1>6 DEF ConnsInv, ConnsOK, Types
    <3> QED BY <1>6, <3>1 DEF OthersSame
  <2>4. ASSUME NEW n \in Fds, fdToConn'[n] # None
        PROVE  fdToConn'[n] \notin freeConns' /\ conn'[fdToConn'[n]].desc.fd = n
    <3>1. CASE n = fd
      BY <1>5, <1>6, <3>1
    <3>2. CASE n # fd
      <4>1. fdToConn'[n] = fdToConn[n] /\ fdToConn[n] \in Conns \ freeConns /\ fdToConn[n] # c
            /\ conn[fdToConn[n]].desc.fd = n
        BY <1>3, <1>6, <2>4, <3>2 DEF ConnsInv, ConnsOK, Types
      <4> QED BY <1>6, <4>1 DEF OthersSame
    <3> QED BY <3>1, <3>2
  <2> QED BY <1>6, <2>1, <2>2, <2>3, <2>4 DEF ConnsOK
<1>20. OwnOK'
  <2>1. \A h \in Greenlets : \A k \in own'[h] : Live(k)'
    BY <1>2, <1>4 DEF ConnsInv, OwnOK
  <2> QED BY <1>2, <1>11, <2>1 DEF ConnsInv, OwnOK
<1>21. ConnWaitsExact'
  <2>1. Connectors' = Connectors \cup {g} /\ g \notin Connectors
    <3>1. \A h \in Greenlets : Connecting(h)' <=> h = g \/ Connecting(h)
      <4> SUFFICES ASSUME NEW h \in Greenlets PROVE Connecting(h)' <=> h = g \/ Connecting(h)
        OBVIOUS
      <4>1. CASE h = g
        BY <1>7, <1>11, <4>1 DEF Connecting, Awaits, Sqes
      <4>2. CASE h # g
        BY <1>11, <4>2, ConnectingMeans DEF Connecting, Awaits, Sqes
      <4> QED BY <4>1, <4>2
    <3>2. ~Connecting(g)
      BY <1>8 DEF Connecting
    <3> QED BY <3>1, <3>2 DEF Connectors
  <2>2. ConnWaiters' = ConnWaiters
    BY <1>6, <1>15 DEF ConnWaiters, OthersSame
  <2>3. Cardinality(Connectors') = Cardinality(Connectors) + 1
    BY <2>1, FiniteCounts, OneMore
  <2> QED BY <1>2, <1>11, <2>2, <2>3, FiniteCounts, CountsOf
<1> QED BY <1>11, <1>12, <1>16, <1>17, <1>18, <1>19, <1>20, <1>21 DEF ConnsInv

-----------------------------------------------------------------------------
(* Completions.                                                            *)

(* Whose operation an SQE is.                                              *)
LEMMA OneAwaits ==
  ASSUME ConnsInv, NEW e \in Sqes, NEW g \in Greenlets, call[g].op = e.op
  PROVE  /\ Blocked(g) /\ Awaits(g) /\ call[g].kind = e.kind
         /\ \A h \in Greenlets : call[h].op = e.op => h = g
<1>1. \A h \in Greenlets : call[h].op = e.op => Blocked(h)
  <2>1. \A h \in Greenlets : ~Blocked(h) => call[h].op = 0
    BY DEF ConnsInv, CallsOK, NoCall
  <2>2. e.op # 0
    BY DEF ConnsInv, OpsOK
  <2> QED BY <2>1, <2>2
<1> QED BY <1>1 DEF ConnsInv, OpsOK, Awaits

(* The completion of the operation g waits for: g is queued.               *)
LEMMA ReapedFor ==
  ASSUME ConnsInv, NEW e \in inflight, Reaps(e), UNCHANGED <<sq, ops, status>>,
         NEW g \in Greenlets, call[g].op = e.op, ready' = Append(ready, g)
  PROVE  /\ ReadyOK' /\ OpsOK'
         /\ Sqes' = Sqes \ {e} /\ e \in Sqes
         /\ \A f \in Sqes' : f.op # e.op
         /\ ready' \in Seq(Greenlets) /\ phase' \in Phases
         /\ sq' \subseteq SqeRecord /\ inflight' \subseteq SqeRecord
         /\ UNCHANGED <<call, own>>
         /\ Blocked(g) /\ Awaits(g) /\ call[g].kind = e.kind
         /\ \A h \in Greenlets : /\ Awaits(h)' <=> Awaits(h) /\ h # g
                                 /\ Blocked(h)' <=> Blocked(h)
                                 /\ Fetched(h)' <=> Fetched(h) \/ (h = g /\ e.kind = "accept")
<1>1. /\ Sqes' = Sqes \ {e} /\ e \in Sqes
      /\ sq' \subseteq SqeRecord /\ inflight' \subseteq SqeRecord
      /\ sq' \cap inflight' = {}
      /\ \A f \in Sqes' : f # e /\ f.op # e.op
      /\ \A f \in Sqes' : 0 < f.op /\ f.op <= ops'
      /\ \A f, k \in Sqes' : f.op = k.op => f = k
      /\ \A h \in Greenlets : Awaits(h)' <=> Awaits(h) /\ call[h].op # e.op
      /\ phase # "failed" /\ phase' = "reap"
  BY SqeReaped
<1>2. /\ Blocked(g) /\ Awaits(g) /\ call[g].kind = e.kind
      /\ \A h \in Greenlets : call[h].op = e.op => h = g
  BY <1>1, OneAwaits
<1>3. UNCHANGED <<call, own>>
  BY DEF Reaps
<1>4. \A h \in Greenlets : /\ Awaits(h)' <=> Awaits(h) /\ h # g
                           /\ Blocked(h)' <=> Blocked(h)
                           /\ Due(h)' <=> Due(h) \/ h = g
                           /\ Fetched(h)' <=> Fetched(h) \/ (h = g /\ e.kind = "accept")
  BY <1>1, <1>2, <1>3 DEF Blocked, Due, Fetched
<1>5. ~InReady(g)
  BY <1>2 DEF ConnsInv, ReadyOK, Due, Blocked
<1>6. /\ ready' \in Seq(Greenlets)
      /\ \A h \in Greenlets : InReady(h)' <=> h = g \/ InReady(h)
      /\ \A i, j \in 1..Len(ready') : ready'[i] = ready'[j] => i = j
  BY <1>5, Queued
<1>7. ReadyOK'
  BY <1>1, <1>4, <1>6 DEF ConnsInv, ReadyOK
<1>8. OpsOK'
  BY <1>1, <1>3, <1>4 DEF ConnsInv, OpsOK
<1> QED BY <1>1, <1>2, <1>3, <1>4, <1>6, <1>7, <1>8 DEF Phases

(* green_accept's completion.                                              *)
LEMMA ReapAcceptKeeps ==
  ASSUME ConnsInv, ServerUse, NEW e \in inflight, ReapAccept(e)
  PROVE  ConnsInv'
<1>1. /\ Reaps(e) /\ e.kind = "accept" /\ e \in Sqes
      /\ activeWaits' = activeWaits - 1
      /\ ready' = IF accept.greenlet # None THEN Append(ready, accept.greenlet) ELSE ready
      /\ UNCHANGED <<status, sq, conn, freeConns, fdToConn, ops>>
  BY DEF ReapAccept, Sqes
<1>2. PICK g \in Greenlets : g = accept.greenlet
  BY <1>1 DEF ConnsInv, Types, AcceptOK, AcceptRecord
<1>3. call[g].op = e.op /\ accept.pending /\ ready' = Append(ready, g)
  BY <1>1, <1>2, ConnsAssumption DEF ConnsInv, AcceptOK
<1>4. /\ ReadyOK' /\ OpsOK'
      /\ Sqes' = Sqes \ {e} /\ e \in Sqes
      /\ \A f \in Sqes' : f.op # e.op
      /\ ready' \in Seq(Greenlets) /\ phase' \in Phases
      /\ sq' \subseteq SqeRecord /\ inflight' \subseteq SqeRecord
      /\ UNCHANGED <<call, own>>
      /\ Blocked(g) /\ Awaits(g) /\ call[g].kind = e.kind
      /\ \A h \in Greenlets : /\ Awaits(h)' <=> Awaits(h) /\ h # g
                              /\ Blocked(h)' <=> Blocked(h)
                              /\ Fetched(h)' <=> Fetched(h) \/ (h = g /\ e.kind = "accept")
  BY <1>1, <1>3, ReapedFor
<1>5. \A h \in Greenlets : ~Fetched(h)
  BY <1>1 DEF ConnsInv, AcceptOK
<1>6. PICK d \in Desc \cup {NoDesc} :
        /\ accept' = [greenlet |-> None, pending |-> FALSE, result |-> d]
        /\ d = NoDesc \/ Live(d)'
        /\ d = NoDesc \/ ~Live(d)
        /\ d # NoDesc => d.fd \in Fds /\ fdToConn[d.fd] = None
        /\ \A k : Live(k) => Live(k)'
        /\ file' \in [Fds -> Nat] /\ files' \in Nat
  <2>1. CASE \E fd \in Fds : Opens(fd) /\ accept' = [greenlet |-> None, pending |-> FALSE,
                                                     result |-> [fd |-> fd, file |-> files + 1]]
    <3>1. PICK fd \in Fds : Opens(fd) /\ accept' = [greenlet |-> None, pending |-> FALSE,
                                                    result |-> [fd |-> fd, file |-> files + 1]]
      BY <2>1
    <3>2. PICK d : d = [fd |-> fd, file |-> files + 1]
      OBVIOUS
    <3>3. /\ file' \in [Fds -> Nat] /\ files' \in Nat
          /\ d \in Desc /\ Live(d)'
          /\ \A k : Live(k) => Live(k)' /\ k.fd # fd
          /\ fdToConn[fd] = None
      BY <3>1, <3>2, OpensMeans
    <3>4. d.fd = fd
      BY <3>2
    <3>5. ~Live(d)
      BY <3>3, <3>4
    <3> QED BY <3>1, <3>2, <3>3, <3>4, <3>5
  <2>2. CASE accept' = [greenlet |-> None, pending |-> FALSE, result |-> NoDesc] /\ UNCHANGED <<file, files>>
    BY <2>2 DEF Live, ConnsInv, Types
  <2> QED BY <2>1, <2>2 DEF ReapAccept
<1>7. /\ accept' \in AcceptRecord /\ accept'.greenlet = None /\ ~accept'.pending /\ accept'.result = d
  BY <1>6 DEF AcceptRecord
<1>8. CallsOK'
  <2>1. ASSUME NEW h \in Greenlets, call[h].kind \in Transfers PROVE TransferOK(h)'
    <3>1. TransferOK(h) /\ h # g
      BY <1>1, <1>4, <2>1 DEF ConnsInv, CallsOK, Transfers
    <3> QED BY <1>1, <1>4, <3>1 DEF TransferOK
  <2>2. ASSUME NEW h \in Greenlets, call[h].kind = "connect" PROVE ConnectOK(h)'
    <3>1. ConnectOK(h)
      BY <2>2 DEF ConnsInv, CallsOK
    <3>2. Live(call[h].desc)'
      <4>1. PICK k : k = call[h].desc
        OBVIOUS
      <4>2. Live(k)'
        BY <1>6, <3>1, <4>1 DEF ConnectOK
      <4> QED BY <1>4, <4>1, <4>2 DEF Live
    <3> QED BY <1>1, <1>4, <3>1, <3>2 DEF ConnectOK
  <2> QED BY <1>4, <2>1, <2>2 DEF ConnsInv, CallsOK
<1>9. AcceptOK'
  <2>1. \A f \in Sqes' : f.kind # "accept"
    BY <1>2, <1>3, <1>4 DEF ConnsInv, AcceptOK
  <2>2. \A h \in Greenlets : call[h].kind = "accept" /\ Awaits(h) => h = g
    BY <1>2 DEF ConnsInv, AcceptOK
  <2>3. \A h \in Greenlets : Fetched(h)' => h = g
    BY <1>4, <1>5
  <2>4. (accept.result # NoDesc =>
               /\ Live(accept.result)
               /\ fdToConn[accept.result.fd] = None
               /\ \A k \in Greenlets : accept.result \notin own[k])'
    <3> SUFFICES ASSUME d # NoDesc
                 PROVE  /\ Live(accept.result)'
                        /\ fdToConn'[d.fd] = None
                        /\ \A k \in Greenlets : d \notin own'[k]
      BY <1>7
    <3>1. Live(accept.result)'
      BY <1>6, <1>7 DEF Live
    <3> QED BY <1>1, <1>4, <1>6, <3>1 DEF ConnsInv, OwnOK
  <2>5. \A f \in inflight' : f.kind # "accept"
    BY <2>1 DEF Sqes
  <2>6. \A h \in Greenlets : ~(call'[h].kind = "accept" /\ Awaits(h)')
    BY <1>4, <2>2
  <2>7. \A h, k \in Greenlets : Fetched(h)' /\ Fetched(k)' => h = k
    BY <2>3
  <2> QED BY <1>7, <2>1, <2>4, <2>5, <2>6, <2>7 DEF AcceptOK
<1>10. SqesOK'
  <2>1. ASSUME NEW f \in Sqes, f.kind \in Transfers PROVE TransferSqeOK(f)'
    BY <1>1, <1>4, <2>1 DEF ConnsInv, SqesOK, TransferSqeOK
  <2>2. ASSUME NEW f \in Sqes, f.kind \in Closes PROVE CloseSqeOK(f)'
    <3>1. CloseSqeOK(f) /\ Live(f.desc)
      BY <2>2 DEF ConnsInv, SqesOK, CloseSqeOK
    <3>2. Live(f.desc)'
      <4>1. PICK k : k = f.desc
        OBVIOUS
      <4> QED BY <1>6, <3>1, <4>1
    <3>3. accept'.result # f.desc
      <4>1. f.desc # NoDesc
        BY <3>1, ConnsAssumption DEF Live, Desc, NoDesc
      <4> QED BY <1>6, <1>7, <3>1, <4>1
    <3> QED BY <1>1, <1>4, <3>1, <3>2, <3>3 DEF CloseSqeOK
  <2> QED BY <1>4, <2>1, <2>2 DEF ConnsInv, SqesOK
<1>11. ConnsOK'
  <2>1. ASSUME NEW b \in Conns \ freeConns PROVE ConnOK(b)'
    <3>1. ConnOK(b) /\ Live(conn[b].desc)
      BY DEF ConnsInv, ConnsOK, ConnOK
    <3>2. conn[b].state \in {"reading", "writing"} => conn[b].greenlet # g
      BY <1>1, <1>4, <3>1 DEF ConnOK, Transfers
    <3>3. Live(conn[b].desc)'
      <4>1. PICK k : k = conn[b].desc
        OBVIOUS
      <4>2. Live(k)'
        BY <1>6, <3>1, <4>1
      <4> QED BY <1>1, <4>1, <4>2 DEF Live
    <3>4. \A f \in Sqes : f.kind = "close" => f \in Sqes'
      BY <1>1, <1>4
    <3> QED BY <1>1, <1>4, <3>1, <3>2, <3>3, <3>4 DEF ConnOK
  <2> QED BY <1>1, <2>1 DEF ConnsInv, ConnsOK
<1>12. OwnOK'
  <2>1. \A h \in Greenlets : \A k \in own'[h] : Live(k)'
    BY <1>4, <1>6 DEF ConnsInv, OwnOK
  <2> QED BY <1>1, <1>4, <2>1 DEF ConnsInv, OwnOK
<1>13. activeWaits' = Cardinality(ConnWaiters') + Cardinality(Connectors')
  <2>1. Connectors' = Connectors
    <3>1. \A h \in Greenlets : Connecting(h)' <=> Connecting(h)
      BY <1>1, <1>4, ConnectingMeans DEF Connecting, Awaits, Sqes
    <3> QED BY <3>1 DEF Connectors
  <2>2. ConnWaiters' = ConnWaiters
    BY <1>1 DEF ConnWaiters
  <2>3. activeWaits = Cardinality(ConnWaiters) + Cardinality(Connectors) + 1
    BY <1>3, CountMeans DEF ConnsInv
  <2> QED BY <1>1, <2>1, <2>2, <2>3, FiniteCounts
<1>14. ConnWaitsExact' /\ activeWaits' \in Nat
  <2>1. ConnWaiters' \subseteq Conns /\ Connectors' \subseteq Greenlets
    BY DEF ConnWaiters, Connectors
  <2>2. Cardinality(ConnWaiters') \in Nat /\ Cardinality(Connectors') \in Nat
    BY <2>1, FS_Subset, FS_CardinalityType DEF ServerUse
  <2> QED BY <1>7, <1>13, <2>2 DEF ConnWaitsExact, ConnWaiters, Connectors
<1>15. Types'
  BY <1>1, <1>4, <1>6, <1>7, <1>14 DEF ConnsInv, Types
<1> QED BY <1>4, <1>8, <1>9, <1>10, <1>11, <1>12, <1>14, <1>15 DEF ConnsInv

(* green_connect's completion.                                             *)
LEMMA ReapConnectKeeps ==
  ASSUME ConnsInv, ServerUse, NEW e \in inflight, ReapConnect(e)
  PROVE  ConnsInv'
<1>1. /\ Reaps(e) /\ e \in Sqes
      /\ activeWaits' = activeWaits - 1
      /\ UNCHANGED <<status, sq, conn, freeConns, fdToConn, accept, file, files, ops>>
  BY DEF ReapConnect, Sqes
<1>2. PICK g \in Greenlets : call[g].kind = "connect" /\ call[g].op = e.op /\ ready' = Append(ready, g)
  BY DEF ReapConnect
<1>3. /\ ReadyOK' /\ OpsOK'
      /\ Sqes' = Sqes \ {e} /\ e \in Sqes
      /\ \A f \in Sqes' : f.op # e.op
      /\ ready' \in Seq(Greenlets) /\ phase' \in Phases
      /\ sq' \subseteq SqeRecord /\ inflight' \subseteq SqeRecord
      /\ UNCHANGED <<call, own>>
      /\ Blocked(g) /\ Awaits(g) /\ call[g].kind = e.kind
      /\ \A h \in Greenlets : /\ Awaits(h)' <=> Awaits(h) /\ h # g
                              /\ Blocked(h)' <=> Blocked(h)
                              /\ Fetched(h)' <=> Fetched(h) \/ (h = g /\ e.kind = "accept")
  BY <1>1, <1>2, ReapedFor
<1>4. e.kind = "connect" /\ \A h \in Greenlets : Fetched(h)' <=> Fetched(h)
  BY <1>2, <1>3
<1>5. \A k : Live(k)' <=> Live(k)
  BY <1>1 DEF Live
<1>6. CallsOK'
  <2>1. ASSUME NEW h \in Greenlets, call[h].kind \in Transfers PROVE TransferOK(h)'
    <3>1. TransferOK(h) /\ h # g
      BY <1>2, <2>1 DEF ConnsInv, CallsOK, Transfers
    <3> QED BY <1>1, <1>3, <3>1 DEF TransferOK
  <2>2. ASSUME NEW h \in Greenlets, call[h].kind = "connect" PROVE ConnectOK(h)'
    BY <1>1, <1>3, <1>5, <2>2 DEF ConnsInv, CallsOK, ConnectOK
  <2> QED BY <1>3, <2>1, <2>2 DEF ConnsInv, CallsOK
<1>7. AcceptOK'
  <2>1. accept.pending => accept.greenlet \in Greenlets /\ accept.greenlet # g
    BY <1>2 DEF ConnsInv, Types, AcceptOK, AcceptRecord
  <2>2. inflight' \subseteq inflight
    BY <1>1 DEF Reaps
  <2>3. accept.pending => Awaits(accept.greenlet)'
    <3> SUFFICES ASSUME accept.pending PROVE Awaits(accept.greenlet)'
      OBVIOUS
    <3>1. PICK h \in Greenlets : h = accept.greenlet /\ h # g
      BY <2>1
    <3>2. Awaits(h)'
      BY <1>3, <3>1 DEF ConnsInv, AcceptOK
    <3> QED BY <1>1, <3>1, <3>2 DEF Awaits
  <2> QED BY <1>1, <1>3, <1>4, <1>5, <2>1, <2>2, <2>3 DEF ConnsInv, AcceptOK
<1>8. SqesOK'
  BY <1>1, <1>3, <1>4, <1>5 DEF ConnsInv, SqesOK, TransferSqeOK, CloseSqeOK
<1>9. ConnsOK'
  <2>1. ASSUME NEW b \in Conns \ freeConns PROVE ConnOK(b)'
    <3>1. ConnOK(b)
      BY DEF ConnsInv, ConnsOK
    <3>2. conn[b].state \in {"reading", "writing"} => conn[b].greenlet # g
      BY <1>2, <3>1 DEF ConnOK, Transfers
    <3>3. \A f \in Sqes : f.kind = "close" => f \in Sqes'
      BY <1>3, <1>4
    <3> QED BY <1>1, <1>3, <1>5, <3>1, <3>2, <3>3 DEF ConnOK
  <2> QED BY <1>1, <2>1 DEF ConnsInv, ConnsOK
<1>10. OwnOK'
  BY <1>1, <1>3, <1>5 DEF ConnsInv, OwnOK
<1>11. /\ Cardinality(Connectors') = Cardinality(Connectors) - 1
       /\ Cardinality(Connectors) >= 1
  <2>1. Connectors' = Connectors \ {g} /\ g \in Connectors
    <3>1. \A h \in Greenlets : Connecting(h)' <=> Connecting(h) /\ h # g
      BY <1>1, <1>3, ConnectingMeans DEF Connecting, Awaits, Sqes
    <3>2. Connecting(g)
      BY <1>2, <1>3, ConnectingMeans
    <3> QED BY <3>1, <3>2 DEF Connectors
  <2> QED BY <2>1, FiniteCounts, OneLess
<1>12. ConnWaitsExact' /\ activeWaits' \in Nat
  <2>1. ConnWaiters' = ConnWaiters
    BY <1>1 DEF ConnWaiters
  <2>2. activeWaits' = Cardinality(ConnWaiters') + Cardinality(Connectors') + (IF accept.pending THEN 1 ELSE 0)
    BY <1>1, <1>11, <2>1, FiniteCounts, CountsOf
  <2>3. activeWaits' \in Nat
    BY <1>11, <2>1, <2>2, FiniteCounts
  <2> QED BY <1>1, <2>2, <2>3, CountsOf
<1>13. Types'
  BY <1>1, <1>3, <1>12 DEF ConnsInv, Types
<1> QED BY <1>3, <1>6, <1>7, <1>8, <1>9, <1>10, <1>12, <1>13 DEF ConnsInv

(* The completion of a close, which nobody waits for.                      *)
LEMMA ReapedClose ==
  ASSUME ConnsInv, NEW e \in inflight, Reaps(e), UNCHANGED <<sq, ops, status, ready>>,
         e.kind \in Closes, file' = [file EXCEPT ![e.desc.fd] = 0]
  PROVE  /\ ReadyOK' /\ OpsOK'
         /\ Sqes' = Sqes \ {e} /\ e \in Sqes
         /\ phase' \in Phases
         /\ sq' \subseteq SqeRecord /\ inflight' \subseteq SqeRecord
         /\ UNCHANGED <<call, own>>
         /\ \A h \in Greenlets : /\ Awaits(h)' <=> Awaits(h)
                                 /\ Blocked(h)' <=> Blocked(h)
                                 /\ Fetched(h)' <=> Fetched(h)
         /\ Live(e.desc) /\ e.desc \in Desc
         /\ file' \in [Fds -> Nat]
         /\ \A k : Live(k) /\ k # e.desc => Live(k)' /\ k.fd # e.desc.fd /\ k.fd \in Fds
         /\ \A h \in Greenlets : e.desc \notin own[h]
         /\ \A f \in Sqes' : f.kind \in Closes => f.desc # e.desc
<1>1. /\ Sqes' = Sqes \ {e} /\ e \in Sqes
      /\ sq' \subseteq SqeRecord /\ inflight' \subseteq SqeRecord
      /\ sq' \cap inflight' = {}
      /\ \A f \in Sqes' : f # e /\ f.op # e.op
      /\ \A f \in Sqes' : 0 < f.op /\ f.op <= ops'
      /\ \A f, k \in Sqes' : f.op = k.op => f = k
      /\ \A h \in Greenlets : Awaits(h)' <=> Awaits(h) /\ call[h].op # e.op
      /\ phase # "failed" /\ phase' = "reap"
  BY SqeReaped
<1>2. UNCHANGED <<call, own>>
  BY DEF Reaps
<1>3. \A h \in Greenlets : call[h].op # e.op
  <2>1. \A h \in Greenlets : call[h].kind \notin Closes
    BY DEF ConnsInv, Types, CallRecord, CallKinds, Transfers, Closes
  <2> QED BY <1>1, <2>1, OneAwaits
<1>4. \A h \in Greenlets : /\ Awaits(h)' <=> Awaits(h)
                           /\ Blocked(h)' <=> Blocked(h)
                           /\ Due(h)' <=> Due(h)
                           /\ Fetched(h)' <=> Fetched(h)
  BY <1>1, <1>2, <1>3 DEF Blocked, Due, Fetched
<1>5. ReadyOK'
  BY <1>1, <1>4 DEF ConnsInv, ReadyOK, InReady
<1>6. OpsOK'
  BY <1>1, <1>2, <1>4 DEF ConnsInv, OpsOK
<1>7. CloseSqeOK(e) /\ Live(e.desc) /\ e.desc \in Desc
  BY <1>1 DEF ConnsInv, SqesOK, CloseSqeOK, Live
<1>8. /\ file' \in [Fds -> Nat]
      /\ \A k : Live(k) /\ k # e.desc => Live(k)'
  BY <1>7, ClosesMeans
<1>9. \A k : Live(k) /\ k # e.desc => k.fd # e.desc.fd /\ k.fd \in Fds
  BY <1>7, SameFd DEF Live, Desc
<1>10. \A f \in Sqes' : f.kind \in Closes => f.desc # e.desc
  BY <1>1 DEF ConnsInv, SqesOK
<1> QED BY <1>1, <1>2, <1>4, <1>5, <1>6, <1>7, <1>8, <1>9, <1>10 DEF Phases, CloseSqeOK

(* The raw close of an unregistered fd.                                    *)
LEMMA ReapIgnoredKeeps ==
  ASSUME ConnsInv, NEW e \in inflight, ReapIgnored(e)
  PROVE  ConnsInv'
<1>1. /\ Reaps(e) /\ e \in Sqes /\ e \in SqeRecord
      /\ e.kind # "accept" /\ ~Lookup(e) /\ Executes(e)
      /\ e.kind = "connect" => \A g \in Greenlets : call[g].op # e.op
      /\ UNCHANGED <<status, ready, activeWaits, sq, conn, freeConns, fdToConn, accept, ops>>
  BY DEF ReapIgnored, Sqes, ConnsInv, Types
<1>2. e.kind = "rawclose"
  <2>1. e.kind # "connect"
    BY <1>1 DEF ConnsInv, SqesOK
  <2>2. e.kind \notin Transfers
    BY <1>1, ConnsAssumption DEF ConnsInv, SqesOK, TransferSqeOK, Lookup
  <2>3. e.kind # "close"
    BY <1>1, ConnsAssumption DEF ConnsInv, SqesOK, CloseSqeOK, Closes, Lookup
  <2> QED BY <1>1, <2>1, <2>2, <2>3 DEF SqeRecord, SqeKinds, Closes
<1> DEFINE d == e.desc
<1>3. /\ ReadyOK' /\ OpsOK'
      /\ Sqes' = Sqes \ {e} /\ e \in Sqes
      /\ phase' \in Phases
      /\ sq' \subseteq SqeRecord /\ inflight' \subseteq SqeRecord
      /\ UNCHANGED <<call, own>>
      /\ \A h \in Greenlets : /\ Awaits(h)' <=> Awaits(h)
                              /\ Blocked(h)' <=> Blocked(h)
                              /\ Fetched(h)' <=> Fetched(h)
      /\ Live(e.desc) /\ e.desc \in Desc
      /\ file' \in [Fds -> Nat]
      /\ \A k : Live(k) /\ k # e.desc => Live(k)' /\ k.fd # e.desc.fd /\ k.fd \in Fds
      /\ \A h \in Greenlets : e.desc \notin own[h]
      /\ \A f \in Sqes' : f.kind \in Closes => f.desc # e.desc
  <2>1. e.kind \in Closes /\ file' = [file EXCEPT ![e.desc.fd] = 0]
    BY <1>1, <1>2 DEF Closes, Executes
  <2> QED BY <1>1, <2>1, ReapedClose
<1>4. fdToConn[d.fd] = None /\ \A h \in Greenlets : Fetched(h) => accept.result # d
  BY <1>1, <1>2 DEF ConnsInv, SqesOK, CloseSqeOK, Closes
<1>5. \A k : Live(k) /\ fdToConn[k.fd] # None => Live(k)'
  BY <1>3, <1>4
<1>6. files' = files
  BY <1>1 DEF Executes
<1>7. Types'
  BY <1>1, <1>3, <1>6 DEF ConnsInv, Types
<1>8. CallsOK'
  <2>1. ASSUME NEW h \in Greenlets, call[h].kind \in Transfers PROVE TransferOK(h)'
    BY <1>1, <1>3, <2>1 DEF ConnsInv, CallsOK, TransferOK
  <2>2. ASSUME NEW h \in Greenlets, call[h].kind = "connect" PROVE ConnectOK(h)'
    <3>1. ConnectOK(h) /\ Live(call[h].desc) /\ fdToConn[call[h].desc.fd] # None
      BY <2>2, ConnsAssumption DEF ConnsInv, CallsOK, ConnectOK
    <3>2. Live(call[h].desc)'
      <4>1. PICK k : k = call[h].desc
        OBVIOUS
      <4>2. Live(k)'
        BY <1>5, <3>1, <4>1
      <4> QED BY <1>3, <4>1, <4>2 DEF Live
    <3> QED BY <1>1, <1>3, <3>1, <3>2 DEF ConnectOK
  <2> QED BY <1>3, <2>1, <2>2 DEF ConnsInv, CallsOK
<1>9. AcceptOK'
  <2>1. accept.pending => accept.greenlet \in Greenlets
    BY DEF ConnsInv, Types, AcceptOK, AcceptRecord
  <2>2. inflight' \subseteq inflight
    BY <1>1 DEF Reaps
  <2>3. \A h \in Greenlets : Fetched(h) /\ accept.result # NoDesc => Live(accept.result)'
    <3> SUFFICES ASSUME NEW h \in Greenlets, Fetched(h), accept.result # NoDesc PROVE Live(accept.result)'
      OBVIOUS
    <3>1. PICK k : k = accept.result
      OBVIOUS
    <3>2. Live(k)'
      BY <1>3, <1>4, <3>1 DEF ConnsInv, AcceptOK
    <3> QED BY <1>1, <3>1, <3>2 DEF Live
  <2>4. \A f \in Sqes : f.kind = "accept" => f \in Sqes'
    BY <1>2, <1>3
  <2> QED BY <1>1, <1>3, <2>1, <2>2, <2>3, <2>4 DEF ConnsInv, AcceptOK
<1>10. SqesOK'
  <2>1. ASSUME NEW f \in Sqes', f.kind \in Closes PROVE CloseSqeOK(f)'
    <3>1. CloseSqeOK(f) /\ Live(f.desc) /\ f.desc # d
      BY <1>3, <2>1 DEF ConnsInv, SqesOK, CloseSqeOK
    <3>2. Live(f.desc)'
      <4>1. PICK k : k = f.desc
        OBVIOUS
      <4> QED BY <1>3, <3>1, <4>1
    <3> QED BY <1>1, <1>3, <3>1, <3>2 DEF CloseSqeOK
  <2>2. ASSUME NEW f \in Sqes', f.kind \in Transfers PROVE TransferSqeOK(f)'
    BY <1>1, <1>3, <2>2 DEF ConnsInv, SqesOK, TransferSqeOK
  <2> QED BY <1>3, <2>1, <2>2 DEF ConnsInv, SqesOK
<1>11. ConnsOK'
  <2>1. ASSUME NEW b \in Conns \ freeConns PROVE ConnOK(b)'
    <3>1. ConnOK(b) /\ Live(conn[b].desc) /\ fdToConn[conn[b].desc.fd] # None
      BY ConnsAssumption DEF ConnsInv, ConnsOK, ConnOK
    <3>2. Live(conn[b].desc)'
      <4>1. PICK k : k = conn[b].desc
        OBVIOUS
      <4>2. Live(k)'
        BY <1>5, <3>1, <4>1
      <4> QED BY <1>1, <4>1, <4>2 DEF Live
    <3>3. \A f \in Sqes : f.kind = "close" => f \in Sqes'
      BY <1>2, <1>3
    <3> QED BY <1>1, <1>3, <3>1, <3>2, <3>3 DEF ConnOK
  <2> QED BY <1>1, <2>1 DEF ConnsInv, ConnsOK
<1>12. OwnOK'
  <2>1. \A h \in Greenlets : \A k \in own'[h] : Live(k)'
    BY <1>3 DEF ConnsInv, OwnOK
  <2> QED BY <1>1, <1>3, <2>1 DEF ConnsInv, OwnOK
<1>13. ConnWaitsExact'
  <2>1. Connectors' = Connectors
    <3>1. \A h \in Greenlets : Connecting(h)' <=> Connecting(h)
      BY <1>1, <1>3, ConnectingMeans DEF Connecting, Awaits, Sqes
    <3> QED BY <3>1 DEF Connectors
  <2>2. ConnWaiters' = ConnWaiters
    BY <1>1 DEF ConnWaiters
  <2> QED BY <1>1, <2>1, <2>2, CountsOf
<1> QED BY <1>3, <1>7, <1>8, <1>9, <1>10, <1>11, <1>12, <1>13 DEF ConnsInv

(* A completion that finds its connection, when the hub is used so.        *)
LEMMA ReapsConnMeans ==
  ASSUME ConnsInv, NEW e \in inflight, ReapsConn(e)
  PROVE  /\ Reaps(e) /\ e \in Sqes /\ Executes(e) /\ accept' = accept
         /\ e.conn \in Conns \ freeConns /\ ConnOK(e.conn)
         /\ \/ e.kind \in Transfers /\ TransferSqeOK(e)
            \/ e.kind = "close" /\ CloseSqeOK(e)
<1>1. Reaps(e) /\ e \in Sqes /\ e \in SqeRecord /\ Lookup(e) /\ Executes(e) /\ accept' = accept
  BY DEF ReapsConn, Sqes, ConnsInv, Types
<1>2. e.conn # None
  BY <1>1 DEF Lookup
<1>3. e.kind \notin {"accept", "connect", "rawclose"}
  BY <1>1, <1>2 DEF ConnsInv, SqesOK, CloseSqeOK, Closes
<1>4. e.kind \in Transfers \/ e.kind = "close"
  BY <1>1, <1>3 DEF SqeRecord, SqeKinds, Closes
<1>5. \/ e.kind \in Transfers /\ TransferSqeOK(e)
      \/ e.kind = "close" /\ CloseSqeOK(e)
  BY <1>1, <1>4 DEF ConnsInv, SqesOK, Closes
<1>6. e.conn \in Conns \ freeConns
  BY <1>5 DEF TransferSqeOK, CloseSqeOK
<1> QED BY <1>1, <1>5, <1>6 DEF ConnsInv, ConnsOK

(* The close of a registered fd: its connection is given back.             *)
LEMMA ReapClosingKeeps ==
  ASSUME ConnsInv, NEW e \in inflight, ReapClosing(e)
  PROVE  ConnsInv'
<1>1. /\ Reaps(e) /\ e \in Sqes /\ Executes(e) /\ accept' = accept
      /\ e.conn \in Conns \ freeConns /\ ConnOK(e.conn)
      /\ conn[e.conn].state = "closing"
      /\ Release(e.conn)
      /\ UNCHANGED <<ready, sq, ops>>
  BY ReapsConnMeans DEF ReapClosing
<1>2. e.kind = "close" /\ CloseSqeOK(e)
  BY <1>1, ReapsConnMeans DEF ReapClosing, TransferSqeOK
<1> DEFINE d == e.desc
<1> DEFINE c == e.conn
<1>3. conn[c].desc = d /\ conn[c].greenlet = None /\ fdToConn[d.fd] = c
  BY <1>1, <1>2 DEF CloseSqeOK, ConnOK
<1>4. /\ conn' \in [Conns -> ConnRecord] /\ OthersSame(c)
      /\ conn'[c].greenlet = None
      /\ freeConns' = freeConns \cup {c} /\ freeConns' \in SUBSET Conns
      /\ fdToConn' \in [Fds -> Conns \cup {None}]
      /\ fdToConn'[d.fd] = None
      /\ \A fd \in Fds : fd # d.fd => fdToConn'[fd] = fdToConn[fd]
      /\ UNCHANGED <<status, activeWaits>>
  BY <1>1, <1>3, ReleaseMeans
<1>5. /\ ReadyOK' /\ OpsOK'
      /\ Sqes' = Sqes \ {e} /\ e \in Sqes
      /\ phase' \in Phases
      /\ sq' \subseteq SqeRecord /\ inflight' \subseteq SqeRecord
      /\ UNCHANGED <<call, own>>
      /\ \A h \in Greenlets : /\ Awaits(h)' <=> Awaits(h)
                              /\ Blocked(h)' <=> Blocked(h)
                              /\ Fetched(h)' <=> Fetched(h)
      /\ Live(e.desc) /\ e.desc \in Desc
      /\ file' \in [Fds -> Nat]
      /\ \A k : Live(k) /\ k # e.desc => Live(k)' /\ k.fd # e.desc.fd /\ k.fd \in Fds
      /\ \A h \in Greenlets : e.desc \notin own[h]
      /\ \A f \in Sqes' : f.kind \in Closes => f.desc # e.desc
  <2>1. e.kind \in Closes /\ file' = [file EXCEPT ![e.desc.fd] = 0]
    BY <1>1, <1>2 DEF Closes, Executes
  <2> QED BY <1>1, <1>4, <2>1, ReapedClose
<1>6. files' = files
  BY <1>1 DEF Executes
<1>7. Types'
  BY <1>1, <1>4, <1>5, <1>6 DEF ConnsInv, Types
<1>8. \A k : Live(k) /\ k # d => Live(k)' /\ fdToConn'[k.fd] = fdToConn[k.fd]
  BY <1>4, <1>5
<1>9. c # None
  BY <1>1, ConnsAssumption
<1>10. CallsOK'
  <2>1. ASSUME NEW h \in Greenlets, call[h].kind \in Transfers PROVE TransferOK(h)'
    <3>1. TransferOK(h) /\ Live(call[h].desc) /\ call[h].desc # d
      BY <1>5, <2>1 DEF ConnsInv, CallsOK, TransferOK, OwnOK
    <3>2. call[h].conn # c
      BY <1>3, <1>9, <3>1, MappedConn DEF TransferOK
    <3>3. fdToConn'[call[h].desc.fd] = call[h].conn
      BY <1>8, <3>1 DEF TransferOK
    <3> QED BY <1>4, <1>5, <3>1, <3>2, <3>3 DEF TransferOK, OthersSame
  <2>2. ASSUME NEW h \in Greenlets, call[h].kind = "connect" PROVE ConnectOK(h)'
    <3>1. ConnectOK(h) /\ Live(call[h].desc) /\ call[h].conn # c /\ call[h].desc # d
      BY <1>1, <1>3, <2>2, ConnectIdle DEF ConnsInv, CallsOK, ConnectOK
    <3>2. Live(call[h].desc)' /\ fdToConn'[call[h].desc.fd] = call[h].conn
      <4>1. PICK k : k = call[h].desc
        OBVIOUS
      <4>2. Live(k)' /\ fdToConn'[k.fd] = fdToConn[k.fd]
        BY <1>8, <3>1, <4>1
      <4> QED BY <1>5, <3>1, <4>1, <4>2 DEF Live, ConnectOK
    <3> QED BY <1>4, <1>5, <3>1, <3>2 DEF ConnectOK, OthersSame
  <2> QED BY <1>5, <2>1, <2>2 DEF ConnsInv, CallsOK
<1>11. AcceptOK'
  <2>1. accept.pending => accept.greenlet \in Greenlets
    BY DEF ConnsInv, Types, AcceptOK, AcceptRecord
  <2>2. inflight' \subseteq inflight
    BY <1>1 DEF Reaps
  <2>3. ASSUME NEW h \in Greenlets, Fetched(h), accept.result # NoDesc
        PROVE  Live(accept.result)' /\ fdToConn'[accept.result.fd] = None
    <3>1. PICK k : k = accept.result
      OBVIOUS
    <3>2. Live(k) /\ fdToConn[k.fd] = None
      BY <2>3, <3>1 DEF ConnsInv, AcceptOK
    <3>3. k # d
      BY <1>3, <1>9, <3>2
    <3>4. Live(k)' /\ fdToConn'[k.fd] = None
      BY <1>8, <3>2, <3>3
    <3> QED BY <1>1, <3>1, <3>4 DEF Live
  <2>4. \A f \in Sqes : f.kind = "accept" => f \in Sqes'
    BY <1>2, <1>5
  <2> QED BY <1>1, <1>5, <2>1, <2>2, <2>3, <2>4 DEF ConnsInv, AcceptOK
<1>12. SqesOK'
  <2>1. ASSUME NEW f \in Sqes', f.kind \in Closes PROVE CloseSqeOK(f)'
    <3>1. CloseSqeOK(f) /\ Live(f.desc) /\ f.desc # d
      BY <1>5, <2>1 DEF ConnsInv, SqesOK, CloseSqeOK
    <3>2. Live(f.desc)' /\ fdToConn'[f.desc.fd] = fdToConn[f.desc.fd]
      <4>1. PICK k : k = f.desc
        OBVIOUS
      <4> QED BY <1>8, <3>1, <4>1
    <3>3. f.kind = "close" => f.conn # c
      BY <1>3, <3>1 DEF CloseSqeOK
    <3> QED BY <1>1, <1>4, <1>5, <3>1, <3>2, <3>3 DEF CloseSqeOK, OthersSame
  <2>2. ASSUME NEW f \in Sqes', f.kind \in Transfers PROVE TransferSqeOK(f)'
    <3>1. TransferSqeOK(f) /\ f.conn # c
      BY <1>1, <1>5, <2>2 DEF ConnsInv, SqesOK, TransferSqeOK
    <3> QED BY <1>4, <1>5, <3>1 DEF TransferSqeOK, OthersSame
  <2> QED BY <1>5, <2>1, <2>2 DEF ConnsInv, SqesOK
<1>13. ConnsOK'
  <2>1. ASSUME NEW b \in Conns \ freeConns, b # c PROVE ConnOK(b)'
    <3>1. ConnOK(b) /\ conn'[b] = conn[b] /\ Live(conn[b].desc) /\ conn[b].desc # d
      BY <1>3, <1>4, <2>1 DEF ConnsInv, ConnsOK, ConnOK, OthersSame
    <3>2. Live(conn[b].desc)' /\ fdToConn'[conn[b].desc.fd] = b
      <4>1. PICK k : k = conn[b].desc
        OBVIOUS
      <4>2. Live(k)' /\ fdToConn'[k.fd] = fdToConn[k.fd]
        BY <1>8, <3>1, <4>1
      <4> QED BY <3>1, <4>1, <4>2 DEF Live, ConnOK
    <3>3. \A f \in Sqes : f.kind = "close" /\ f.conn = b => f \in Sqes'
      BY <1>5, <2>1
    <3> QED BY <1>5, <3>1, <3>2, <3>3 DEF ConnOK
  <2>2. \A b \in freeConns' : conn'[b].greenlet = None
    BY <1>4 DEF ConnsInv, ConnsOK, Types, OthersSame
  <2>3. ASSUME NEW fd \in Fds, fdToConn'[fd] # None
        PROVE  fdToConn'[fd] \notin freeConns' /\ conn'[fdToConn'[fd]].desc.fd = fd
    <3>1. fd # d.fd /\ fdToConn'[fd] = fdToConn[fd] /\ fdToConn[fd] \in Conns \ freeConns
          /\ conn[fdToConn[fd]].desc.fd = fd
      BY <1>4, <2>3 DEF ConnsInv, ConnsOK, Types
    <3> QED BY <1>3, <1>4, <3>1 DEF OthersSame
  <2> QED BY <1>4, <2>1, <2>2, <2>3 DEF ConnsOK
<1>14. OwnOK'
  <2>1. \A h \in Greenlets : \A k \in own'[h] : Live(k)'
    BY <1>5 DEF ConnsInv, OwnOK
  <2> QED BY <1>4, <1>5, <2>1 DEF ConnsInv, OwnOK
<1>15. ConnWaitsExact'
  <2>1. Connectors' = Connectors
    <3>1. \A h \in Greenlets : Connecting(h)' <=> Connecting(h)
      BY <1>1, <1>5, ConnectingMeans DEF Connecting, Awaits, Sqes
    <3> QED BY <3>1 DEF Connectors
  <2>2. ConnWaiters' = ConnWaiters
    BY <1>3, <1>4 DEF ConnWaiters, OthersSame
  <2> QED BY <1>1, <1>4, <2>1, <2>2, CountsOf
<1> QED BY <1>5, <1>7, <1>10, <1>11, <1>12, <1>13, <1>14, <1>15 DEF ConnsInv

(* A transfer's completion.                                                *)
LEMMA TransferReapedKeeps ==
  ASSUME ConnsInv, ServerUse, NEW e \in inflight, ReapTransfer(e)
  PROVE  ConnsInv'
<1>1. /\ Reaps(e) /\ e \in Sqes /\ Executes(e) /\ accept' = accept
      /\ e.conn \in Conns \ freeConns /\ ConnOK(e.conn)
      /\ conn[e.conn].state \notin {"cancelling", "closing"}
  BY ReapsConnMeans DEF ReapTransfer
<1>2. e.kind \in Transfers /\ TransferSqeOK(e)
  BY <1>1, ReapsConnMeans DEF ReapTransfer, CloseSqeOK
<1>3. PICK c \in Conns : c = e.conn /\ c \notin freeConns
  BY <1>1
<1>4. PICK g \in Greenlets : g = conn[c].greenlet
  BY <1>2, <1>3 DEF TransferSqeOK
<1>5. /\ call[g].op = e.op /\ call[g].kind \in Transfers /\ call[g].conn = c /\ Awaits(g)
      /\ conn[c].pending = 1 /\ g # None
  BY <1>1, <1>2, <1>3, <1>4, ConnsAssumption DEF TransferSqeOK, ConnOK
<1>6. /\ conn' = [conn EXCEPT ![c] = With(conn[c], "idle", None, Completed(e).pending, e.op)]
      /\ ready' = Append(ready, g) /\ activeWaits' = activeWaits - 1
      /\ UNCHANGED <<status, sq, freeConns, fdToConn, ops>>
  BY <1>3, <1>4, <1>5 DEF ReapTransfer, ConnsInv, Types
<1>7. UNCHANGED <<file, files>>
  BY <1>1, <1>2 DEF Executes, Transfers
<1>8. /\ conn \in [Conns -> ConnRecord] /\ conn[c] \in ConnRecord /\ e.op \in Nat
  BY <1>1 DEF ConnsInv, Types, Sqes, SqeRecord
<1>9. Completed(e).pending = 0
  BY <1>3, <1>5 DEF Completed, With
<1> DEFINE r == With(conn[c], "idle", None, 0, e.op)
<1>10. /\ r \in ConnRecord /\ r.desc = conn[c].desc /\ r.state = "idle" /\ r.gen = conn[c].gen
       /\ r.greenlet = None /\ r.pending = 0 /\ r.result = e.op
  BY <1>8 DEF With, ConnRecord, ConnStates
<1>11. conn' \in [Conns -> ConnRecord] /\ OthersSame(c) /\ conn'[c] = r
  BY <1>6, <1>8, <1>9, <1>10 DEF OthersSame
<1> HIDE DEF r
<1>12.
      /\ ReadyOK' /\ OpsOK'
      /\ Sqes' = Sqes \ {e} /\ e \in Sqes
      /\ \A f \in Sqes' : f.op # e.op
      /\ ready' \in Seq(Greenlets) /\ phase' \in Phases
      /\ sq' \subseteq SqeRecord /\ inflight' \subseteq SqeRecord
      /\ UNCHANGED <<call, own>>
      /\ Blocked(g) /\ Awaits(g) /\ call[g].kind = e.kind
      /\ \A h \in Greenlets : /\ Awaits(h)' <=> Awaits(h) /\ h # g
                              /\ Blocked(h)' <=> Blocked(h)
                              /\ Fetched(h)' <=> Fetched(h) \/ (h = g /\ e.kind = "accept")
  BY <1>1, <1>5, <1>6, ReapedFor
<1>13. \A h \in Greenlets : Fetched(h)' <=> Fetched(h)
  BY <1>2, <1>12 DEF Transfers
<1>14. \A k : Live(k)' <=> Live(k)
  BY <1>7 DEF Live
<1>15. \A b \in Conns : conn[b].greenlet # g => b # c /\ conn'[b] = conn[b]
  BY <1>4, <1>11 DEF OthersSame
<1>16. CallsOK'
  <2>1. ASSUME NEW h \in Greenlets, call[h].kind \in Transfers PROVE TransferOK(h)'
    <3>1. TransferOK(h)
      BY <2>1 DEF ConnsInv, CallsOK
    <3>2. CASE h = g
      BY <1>5, <1>6, <1>10, <1>11, <1>12, <3>1, <3>2 DEF TransferOK
    <3>3. CASE h # g
      <4>1. conn[call[h].conn].greenlet # g
        BY <3>1, <3>3, ConnsAssumption DEF TransferOK
      <4>2. conn'[call[h].conn] = conn[call[h].conn]
        BY <1>15, <3>1, <4>1 DEF TransferOK
      <4> QED BY <1>6, <1>12, <3>1, <3>3, <4>2 DEF TransferOK
    <3> QED BY <3>2, <3>3
  <2>2. ASSUME NEW h \in Greenlets, call[h].kind = "connect" PROVE ConnectOK(h)'
    <3>1. ConnectOK(h) /\ conn[call[h].conn].greenlet = None /\ call[h].conn \in Conns
      BY <2>2, ConnectIdle DEF ConnsInv, CallsOK
    <3>2. conn'[call[h].conn] = conn[call[h].conn]
      BY <1>5, <1>15, <3>1
    <3> QED BY <1>6, <1>12, <1>14, <3>1, <3>2 DEF ConnectOK
  <2> QED BY <1>12, <2>1, <2>2 DEF ConnsInv, CallsOK
<1>17. AcceptOK'
  <2>1. accept.pending => accept.greenlet \in Greenlets /\ accept.greenlet # g
    BY <1>5 DEF ConnsInv, Types, AcceptOK, AcceptRecord, Transfers
  <2>2. inflight' \subseteq inflight
    BY <1>1 DEF Reaps
  <2>3. accept.pending => Awaits(accept.greenlet)'
    <3> SUFFICES ASSUME accept.pending PROVE Awaits(accept.greenlet)'
      OBVIOUS
    <3>1. PICK h \in Greenlets : h = accept.greenlet /\ h # g
      BY <2>1
    <3>2. Awaits(h)'
      BY <1>12, <3>1 DEF ConnsInv, AcceptOK
    <3> QED BY <1>1, <3>1, <3>2 DEF Awaits
  <2> QED BY <1>1, <1>6, <1>12, <1>13, <1>14, <2>1, <2>2, <2>3 DEF ConnsInv, AcceptOK
<1>18. SqesOK'
  <2>1. ASSUME NEW f \in Sqes', f.kind \in Transfers PROVE TransferSqeOK(f)'
    <3>1. TransferSqeOK(f) /\ f.op # e.op
      BY <1>12, <2>1 DEF ConnsInv, SqesOK
    <3>2. conn'[f.conn] = conn[f.conn]
      BY <1>5, <1>15, <3>1 DEF TransferSqeOK
    <3> QED BY <1>6, <1>12, <3>1, <3>2 DEF TransferSqeOK
  <2>2. ASSUME NEW f \in Sqes', f.kind \in Closes PROVE CloseSqeOK(f)'
    <3>1. CloseSqeOK(f)
      BY <1>12, <2>2 DEF ConnsInv, SqesOK
    <3>2. f.kind = "close" => conn'[f.conn] = conn[f.conn]
      <4> SUFFICES ASSUME f.kind = "close" PROVE conn'[f.conn] = conn[f.conn]
        OBVIOUS
      <4>1. f.conn \in Conns /\ conn[f.conn].state = "closing" /\ ConnOK(f.conn)
        BY <3>1 DEF CloseSqeOK, ConnsInv, ConnsOK
      <4>2. conn[f.conn].greenlet = None
        BY <4>1 DEF ConnOK
      <4> QED BY <1>5, <1>15, <4>1, <4>2
    <3> QED BY <1>1, <1>6, <1>12, <1>13, <1>14, <3>1, <3>2 DEF CloseSqeOK
  <2> QED BY <1>12, <2>1, <2>2 DEF ConnsInv, SqesOK
<1>19. ConnsOK'
  <2>1. ASSUME NEW b \in Conns \ freeConns, b # c PROVE ConnOK(b)'
    <3>1. ConnOK(b) /\ conn'[b] = conn[b]
      BY <1>11, <2>1 DEF ConnsInv, ConnsOK, OthersSame
    <3>2. conn[b].state \in {"reading", "writing"} => conn[b].greenlet # g
      BY <1>5, <2>1, <3>1 DEF ConnOK
    <3>3. \A f \in Sqes : f.kind = "close" => f \in Sqes'
      BY <1>2, <1>12 DEF Transfers
    <3> QED BY <1>6, <1>12, <1>14, <3>1, <3>2, <3>3 DEF ConnOK
  <2>2. ConnOK(c)'
    <3>1. ConnOK(c)
      BY <1>1, <1>3
    <3> QED BY <1>6, <1>10, <1>11, <1>14, <3>1 DEF ConnOK
  <2>3. \A b \in freeConns' : conn'[b].greenlet = None
    <3>1. \A b \in freeConns : b \in Conns /\ b # c /\ conn[b].greenlet = None
      BY <1>3 DEF ConnsInv, ConnsOK, Types
    <3> QED BY <1>6, <1>11, <3>1 DEF OthersSame
  <2>4. \A fd \in Fds : fdToConn'[fd] # None => fdToConn'[fd] \notin freeConns' /\ conn'[fdToConn'[fd]].desc.fd = fd
    <3>1. \A fd \in Fds : fdToConn[fd] # None =>
             fdToConn[fd] \in Conns /\ fdToConn[fd] \notin freeConns /\ conn[fdToConn[fd]].desc.fd = fd
      BY DEF ConnsInv, ConnsOK, Types
    <3>2. \A b \in Conns : conn'[b].desc = conn[b].desc
      BY <1>10, <1>11 DEF OthersSame
    <3> QED BY <1>6, <3>1, <3>2
  <2> QED BY <1>6, <2>1, <2>2, <2>3, <2>4 DEF ConnsOK
<1>20. OwnOK'
  BY <1>6, <1>12, <1>14 DEF ConnsInv, OwnOK
<1>21. /\ Cardinality(ConnWaiters') = Cardinality(ConnWaiters) - 1
       /\ Cardinality(ConnWaiters) >= 1
  <2>1. ConnWaiters' = ConnWaiters \ {c} /\ c \in ConnWaiters
    BY <1>4, <1>5, <1>10, <1>11 DEF ConnWaiters, OthersSame
  <2> QED BY <2>1, FiniteCounts, OneLess
<1>22. ConnWaitsExact' /\ activeWaits' \in Nat
  <2>1. Connectors' = Connectors
    <3>1. \A h \in Greenlets : Connecting(h)' <=> Connecting(h)
      BY <1>5, <1>12, ConnectingMeans DEF Connecting, Awaits, Sqes, Transfers
    <3> QED BY <3>1 DEF Connectors
  <2>2. activeWaits' = Cardinality(ConnWaiters') + Cardinality(Connectors') + (IF accept.pending THEN 1 ELSE 0)
    BY <1>1, <1>6, <1>21, <2>1, FiniteCounts, CountsOf
  <2>3. activeWaits' \in Nat
    BY <1>21, <2>1, <2>2, FiniteCounts
  <2> QED BY <1>1, <2>2, <2>3, CountsOf
<1>23. Types'
  BY <1>1, <1>6, <1>7, <1>11, <1>12, <1>22 DEF ConnsInv, Types
<1> QED BY <1>12, <1>16, <1>17, <1>18, <1>19, <1>20, <1>22, <1>23 DEF ConnsInv

-----------------------------------------------------------------------------
(* Calls that return.                                                      *)

(* The greenlet at the head of the queue, whose operation has completed.   *)
LEMMA ResumesMeans ==
  ASSUME ConnsInv, NEW g \in Greenlets, Resumes(g)
  PROVE  /\ Due(g) /\ Blocked(g) /\ ~Awaits(g) /\ phase # "failed"
         /\ ready' \in Seq(Greenlets)
         /\ \A i, j \in 1..Len(ready') : ready'[i] = ready'[j] => i = j
         /\ \A h \in Greenlets : InReady(h)' <=> InReady(h) /\ h # g
         /\ UNCHANGED <<phase, stop, inflight, accept>>
<1>1. Drains(g) /\ status[g] = "blocked" /\ ready' = Tail(ready)
      /\ UNCHANGED <<phase, stop, inflight, accept>>
  BY DEF Resumes
<1>2. /\ ready' \in Seq(Greenlets)
      /\ InReady(g)
      /\ \A h \in Greenlets : InReady(h)' <=> InReady(h) /\ h # g
      /\ \A i, j \in 1..Len(ready') : ready'[i] = ready'[j] => i = j
      /\ phase # "failed"
  BY <1>1, Drained
<1>3. Due(g)
  BY <1>1, <1>2 DEF ConnsInv, ReadyOK
<1> QED BY <1>1, <1>2, <1>3 DEF Due

(* Its call returns, and it goes on.                                       *)
LEMMA Resumed ==
  ASSUME ConnsInv, NEW g \in Greenlets, Resumes(g), Returns(g)
  PROVE  /\ ReadyOK' /\ OpsOK' /\ Sqes' = Sqes
         /\ Due(g) /\ Blocked(g) /\ ~Awaits(g)
         /\ status' \in [Greenlets -> Statuses] /\ call' \in [Greenlets -> CallRecord]
         /\ ready' \in Seq(Greenlets)
         /\ UNCHANGED <<activeWaits, sq, ops, phase, stop, inflight, accept>>
         /\ call'[g] = NoCall /\ call'[g].kind = "none" /\ ~Blocked(g)' /\ ~Fetched(g)'
         /\ \A h \in Greenlets : h # g => call'[h] = call[h]
         /\ \A h \in Greenlets : status'[h] = "unborn" => status[h] = "unborn" /\ h # g
         /\ \A h \in Greenlets : h # g => /\ Awaits(h)' <=> Awaits(h)
                                          /\ Blocked(h)' <=> Blocked(h)
                                          /\ Fetched(h)' <=> Fetched(h)
         /\ Connectors' = Connectors
<1>1. /\ Due(g) /\ Blocked(g) /\ ~Awaits(g) /\ phase # "failed"
      /\ ready' \in Seq(Greenlets)
      /\ \A i, j \in 1..Len(ready') : ready'[i] = ready'[j] => i = j
      /\ \A h \in Greenlets : InReady(h)' <=> InReady(h) /\ h # g
      /\ UNCHANGED <<phase, stop, inflight, accept>>
  BY ResumesMeans
<1>2. /\ status' = [status EXCEPT ![g] = "running"]
      /\ call' = [call EXCEPT ![g] = NoCall]
      /\ UNCHANGED <<activeWaits, sq, ops>>
  BY DEF Returns
<1>3. status \in [Greenlets -> Statuses] /\ call \in [Greenlets -> CallRecord]
  BY DEF ConnsInv, Types
<1>4. NoCall \in CallRecord /\ NoCall.kind = "none" /\ NoCall.op = 0
  BY DEF NoCall, CallRecord, CallKinds
<1>5. /\ status' \in [Greenlets -> Statuses] /\ status'[g] = "running"
      /\ \A h \in Greenlets : h # g => status'[h] = status[h]
      /\ call' \in [Greenlets -> CallRecord] /\ call'[g] = NoCall
      /\ \A h \in Greenlets : h # g => call'[h] = call[h]
  BY <1>2, <1>3, <1>4 DEF Statuses
<1>6. Sqes' = Sqes
  BY <1>1, <1>2 DEF Sqes
<1>7. ~Blocked(g)' /\ ~Due(g)' /\ ~Fetched(g)'
  BY <1>5 DEF Blocked, Due, Fetched
<1>8. \A h \in Greenlets : h # g => /\ Awaits(h)' <=> Awaits(h)
                                    /\ Blocked(h)' <=> Blocked(h)
                                    /\ Due(h)' <=> Due(h)
                                    /\ Fetched(h)' <=> Fetched(h)
  BY <1>5, <1>6 DEF Awaits, Blocked, Due, Fetched
<1>9. ReadyOK'
  BY <1>1, <1>5, <1>7, <1>8 DEF ConnsInv, ReadyOK
<1>10. OpsOK'
  <2>1. ops \in Nat /\ 0 <= ops
    BY DEF ConnsInv, Types
  <2>2. \A h \in Greenlets : call'[h].op <= ops'
    BY <1>2, <1>4, <1>5, <2>1 DEF ConnsInv, OpsOK
  <2>3. \A h \in Greenlets : Blocked(h)' => h # g /\ Blocked(h) /\ call'[h] = call[h]
    BY <1>5, <1>7, <1>8
  <2> QED BY <1>1, <1>2, <1>6, <2>2, <2>3 DEF ConnsInv, OpsOK
<1>11. Connectors' = Connectors
  <2>1. \A h \in Greenlets : Connecting(h)' <=> Connecting(h)
    <3> SUFFICES ASSUME NEW h \in Greenlets PROVE Connecting(h)' <=> Connecting(h)
      OBVIOUS
    <3>1. CASE h = g
      BY <1>1, <1>4, <1>5, <3>1, ConnectingMeans DEF Connecting
    <3>2. CASE h # g
      BY <1>5, <1>8, <3>2, ConnectingMeans DEF Connecting, Awaits, Sqes
    <3> QED BY <3>1, <3>2
  <2> QED BY <2>1 DEF Connectors
<1> QED BY <1>1, <1>2, <1>4, <1>5, <1>6, <1>7, <1>8, <1>9, <1>10, <1>11

(* Whose waits and transfers stay as they are when g's call returns: the   *)
(* accept under way, the SQEs and the waiting connections are others'.     *)
LEMMA OthersWait ==
  ASSUME ConnsInv, NEW g \in Greenlets, Due(g)
  PROVE  /\ accept.pending => accept.greenlet \in Greenlets \ {g}
         /\ \A e \in Sqes : e.kind = "connect" =>
              \E h \in Greenlets \ {g} : call[h].kind = "connect" /\ call[h].op = e.op
         /\ \A e \in Sqes : e.kind \in Transfers => conn[e.conn].greenlet \in Greenlets \ {g}
         /\ \A c \in Conns \ freeConns : conn[c].state \in {"reading", "writing"} =>
              conn[c].greenlet \in Greenlets \ {g}
<1>1. ~Awaits(g)
  BY DEF Due
<1>2. accept.pending => accept.greenlet \in Greenlets \ {g}
  BY <1>1 DEF ConnsInv, Types, AcceptOK, AcceptRecord
<1>3. \A e \in Sqes : e.op # call[g].op
  BY <1>1 DEF Awaits
<1>4. \A c \in Conns \ freeConns : conn[c].state \in {"reading", "writing"} =>
        conn[c].greenlet \in Greenlets \ {g}
  BY <1>1 DEF ConnsInv, ConnsOK, ConnOK
<1>5. \A e \in Sqes : e.kind \in Transfers => conn[e.conn].greenlet \in Greenlets \ {g}
  BY <1>3 DEF ConnsInv, SqesOK, TransferSqeOK
<1>6. \A e \in Sqes : e.kind = "connect" =>
        \E h \in Greenlets \ {g} : call[h].kind = "connect" /\ call[h].op = e.op
  BY <1>3 DEF ConnsInv, SqesOK
<1> QED BY <1>2, <1>4, <1>5, <1>6

(* The call returns and no connection or file changes: a transfer, a failed*)
(* accept, or a connect, whose descriptor becomes g's own.                 *)
LEMMA ReturnKeeps ==
  ASSUME ConnsInv, NEW g \in Greenlets, Resumes(g), Returns(g),
         UNCHANGED <<conn, freeConns, fdToConn, file, files>>,
         own' \in [Greenlets -> SUBSET Desc],
         \A h \in Greenlets : h # g => own'[h] = own[h],
         \/ own'[g] = own[g]
         \/ call[g].kind = "connect" /\ own'[g] = own[g] \cup {call[g].desc}
  PROVE  ConnsInv'
<1>1. /\ ReadyOK' /\ OpsOK' /\ Sqes' = Sqes
      /\ Due(g) /\ Blocked(g) /\ ~Awaits(g)
      /\ status' \in [Greenlets -> Statuses] /\ call' \in [Greenlets -> CallRecord]
      /\ ready' \in Seq(Greenlets)
      /\ UNCHANGED <<activeWaits, sq, ops, phase, stop, inflight, accept>>
      /\ call'[g] = NoCall /\ call'[g].kind = "none" /\ ~Blocked(g)' /\ ~Fetched(g)'
      /\ \A h \in Greenlets : h # g => call'[h] = call[h]
      /\ \A h \in Greenlets : status'[h] = "unborn" => status[h] = "unborn" /\ h # g
      /\ \A h \in Greenlets : h # g => /\ Awaits(h)' <=> Awaits(h)
                                       /\ Blocked(h)' <=> Blocked(h)
                                       /\ Fetched(h)' <=> Fetched(h)
      /\ Connectors' = Connectors
  BY Resumed
<1>2. \A k : Live(k)' <=> Live(k)
  BY DEF Live
<1> DEFINE Mine(k) == call[g].kind = "connect" /\ k = call[g].desc
<1>3. \A k : \A h \in Greenlets : k \in own'[h] => k \in own[h] \/ (h = g /\ Mine(k))
  OBVIOUS
<1>4. ASSUME NEW k, Mine(k)
      PROVE  /\ Live(k) /\ fdToConn[k.fd] \in Conns /\ conn[fdToConn[k.fd]].state = "idle"
             /\ \A h \in Greenlets : k \notin own[h]
             /\ \A h \in Greenlets \ {g} : call[h].kind = "connect" => call[h].desc # k
  BY <1>4 DEF ConnsInv, CallsOK, ConnectOK
<1> HIDE DEF Mine
<1>5. /\ accept.pending => accept.greenlet \in Greenlets \ {g}
      /\ \A e \in Sqes : e.kind = "connect" =>
           \E h \in Greenlets \ {g} : call[h].kind = "connect" /\ call[h].op = e.op
      /\ \A e \in Sqes : e.kind \in Transfers => conn[e.conn].greenlet \in Greenlets \ {g}
      /\ \A c \in Conns \ freeConns : conn[c].state \in {"reading", "writing"} =>
           conn[c].greenlet \in Greenlets \ {g}
  BY <1>1, OthersWait
<1>6. Types'
  BY <1>1 DEF ConnsInv, Types
<1>7. CallsOK'
  <2>1. ASSUME NEW h \in Greenlets, call'[h].kind \in Transfers PROVE TransferOK(h)'
    <3>1. h # g /\ call'[h] = call[h] /\ TransferOK(h)
      BY <1>1, <2>1 DEF ConnsInv, CallsOK, Transfers
    <3> QED BY <1>1, <3>1 DEF TransferOK
  <2>2. ASSUME NEW h \in Greenlets, call'[h].kind = "connect" PROVE ConnectOK(h)'
    <3>1. h # g /\ call'[h] = call[h] /\ ConnectOK(h)
      BY <1>1, <2>2 DEF ConnsInv, CallsOK
    <3>2. ~Mine(call[h].desc)
      BY <1>1, <1>4, <2>2, <3>1
    <3>3. \A k \in Greenlets : call[h].desc \notin own'[k]
      BY <1>3, <3>1, <3>2 DEF ConnectOK
    <3>4. \A k \in Greenlets \ {h} : call'[k].kind = "connect" => call'[k].desc # call[h].desc
      <4>1. \A k \in Greenlets \ {h} : call'[k].kind = "connect" => call'[k] = call[k]
        BY <1>1
      <4> QED BY <3>1, <4>1 DEF ConnectOK
    <3> QED BY <1>2, <3>1, <3>3, <3>4 DEF ConnectOK
  <2>3. \A h \in Greenlets : Blocked(h)' <=> call'[h].kind # "none"
    BY <1>1 DEF ConnsInv, CallsOK
  <2>4. \A h \in Greenlets : ~Blocked(h)' => call'[h] = NoCall
    BY <1>1 DEF ConnsInv, CallsOK
  <2> QED BY <2>1, <2>2, <2>3, <2>4 DEF CallsOK
<1>8. AcceptOK'
  <2>1. accept.pending => /\ call'[accept.greenlet] = call[accept.greenlet]
                          /\ Awaits(accept.greenlet)'
    <3> SUFFICES ASSUME accept.pending
                 PROVE  call'[accept.greenlet] = call[accept.greenlet] /\ Awaits(accept.greenlet)'
      OBVIOUS
    <3>1. PICK h \in Greenlets : h = accept.greenlet /\ h # g
      BY <1>5
    <3>2. Awaits(h)' /\ call'[h] = call[h]
      BY <1>1, <3>1 DEF ConnsInv, AcceptOK
    <3> QED BY <1>1, <3>1, <3>2 DEF Awaits
  <2>2. \A h \in Greenlets : Fetched(h)' => Fetched(h)
    BY <1>1
  <2>3. \A h \in Greenlets : call'[h].kind = "accept" /\ Awaits(h)' => call[h].kind = "accept" /\ Awaits(h)
    BY <1>1
  <2>4. \A h \in Greenlets : Fetched(h) /\ accept.result # NoDesc =>
          \A k \in Greenlets : accept.result \notin own'[k]
    <3> SUFFICES ASSUME NEW h \in Greenlets, Fetched(h), accept.result # NoDesc
                 PROVE  \A k \in Greenlets : accept.result \notin own'[k]
      OBVIOUS
    <3>1. fdToConn[accept.result.fd] = None /\ \A k \in Greenlets : accept.result \notin own[k]
      BY DEF ConnsInv, AcceptOK
    <3>2. ~Mine(accept.result)
      BY <1>4, <3>1, ConnsAssumption
    <3> QED BY <1>3, <3>1, <3>2
  <2> QED BY <1>1, <1>2, <1>5, <2>1, <2>2, <2>3, <2>4 DEF ConnsInv, AcceptOK
<1>9. SqesOK'
  <2>1. ASSUME NEW e \in Sqes, e.kind \in Transfers PROVE TransferSqeOK(e)'
    <3>1. TransferSqeOK(e) /\ conn[e.conn].greenlet \in Greenlets \ {g}
      BY <1>5, <2>1 DEF ConnsInv, SqesOK
    <3> QED BY <1>1, <3>1 DEF TransferSqeOK
  <2>2. ASSUME NEW e \in Sqes, e.kind \in Closes PROVE CloseSqeOK(e)'
    <3>1. CloseSqeOK(e)
      BY <2>2 DEF ConnsInv, SqesOK
    <3>2. ~Mine(e.desc)
      <4> SUFFICES ASSUME Mine(e.desc) PROVE FALSE
        OBVIOUS
      <4>1. fdToConn[e.desc.fd] \in Conns /\ conn[fdToConn[e.desc.fd]].state = "idle"
        BY <1>4
      <4>2. e.kind = "close"
        BY <2>2, <3>1, <4>1, ConnsAssumption DEF CloseSqeOK, Closes
      <4>3. ConnOK(e.conn) /\ conn[e.conn].desc = e.desc /\ conn[e.conn].state = "closing"
        BY <3>1, <4>2 DEF CloseSqeOK, ConnsInv, ConnsOK
      <4> QED BY <4>1, <4>3 DEF ConnOK
    <3>3. \A k \in Greenlets : e.desc \notin own'[k]
      BY <1>3, <3>1, <3>2 DEF CloseSqeOK
    <3>4. \A h \in Greenlets : Fetched(h)' => Fetched(h)
      BY <1>1
    <3> QED BY <1>1, <1>2, <3>1, <3>3, <3>4 DEF CloseSqeOK
  <2>3. \A e \in Sqes' : e.kind = "connect" => \E h \in Greenlets : call'[h].kind = "connect" /\ call'[h].op = e.op
    BY <1>1, <1>5
  <2> QED BY <1>1, <2>1, <2>2, <2>3 DEF ConnsInv, SqesOK
<1>10. ConnsOK'
  <2>1. ASSUME NEW b \in Conns \ freeConns PROVE ConnOK(b)'
    <3>1. ConnOK(b)
      BY DEF ConnsInv, ConnsOK
    <3> QED BY <1>1, <1>2, <1>5, <3>1 DEF ConnOK
  <2> QED BY <2>1 DEF ConnsInv, ConnsOK
<1>11. OwnOK'
  <2>1. \A h \in Greenlets : \A k \in own'[h] : Live(k)'
    BY <1>2, <1>3, <1>4 DEF ConnsInv, OwnOK
  <2>2. \A h, k \in Greenlets : h # k => own'[h] \cap own'[k] = {}
    BY <1>3, <1>4 DEF ConnsInv, OwnOK
  <2>3. \A h \in Greenlets : status'[h] = "unborn" => own'[h] = {}
    BY <1>1 DEF ConnsInv, OwnOK
  <2> QED BY <2>1, <2>2, <2>3 DEF OwnOK
<1>12. ConnWaitsExact'
  <2>1. ConnWaiters' = ConnWaiters
    BY DEF ConnWaiters
  <2> QED BY <1>1, <2>1, CountsOf
<1> QED BY <1>1, <1>6, <1>7, <1>8, <1>9, <1>10, <1>11, <1>12 DEF ConnsInv

(* There is a connection for every fd that is not registered.              *)
LEMMA PoolSuffices ==
  ASSUME ConnsInv, ServerUse, NEW fd \in Fds, fdToConn[fd] = None
  PROVE  freeConns # {}
<1> SUFFICES ASSUME freeConns = {} PROVE FALSE
  OBVIOUS
<1> DEFINE f == [c \in Conns |-> conn[c].desc.fd]
<1>1. \A c \in Conns : conn[c].desc.fd \in Fds /\ fdToConn[conn[c].desc.fd] = c /\ c # None
  BY ConnsAssumption DEF ConnsInv, ConnsOK, ConnOK, Live, Desc
<1>2. f \in [Conns -> Fds \ {fd}]
  BY <1>1
<1>3. /\ IsFiniteSet(Conns) /\ IsFiniteSet(Fds \ {fd})
      /\ Cardinality(Fds \ {fd}) = Cardinality(Fds) - 1
      /\ Cardinality(Fds) <= Cardinality(Conns)
      /\ Cardinality(Conns) \in Nat /\ Cardinality(Fds) \in Nat
  BY OneLess, FS_CardinalityType DEF ServerUse
<1>4. Cardinality(Fds \ {fd}) < Cardinality(Conns)
  BY <1>3
<1>5. \E x, y \in Conns : x # y /\ f[x] = f[y]
  <2> HIDE DEF f
  <2> QED BY <1>2, <1>3, <1>4, FS_PigeonHole
<1> QED BY <1>1, <1>5

(* green_accept returns a connection it has registered.                    *)
LEMMA AcceptedKeeps ==
  ASSUME ConnsInv, NEW g \in Greenlets, Resumes(g), Returns(g), call[g].kind = "accept",
         NEW d, d = accept.result, d # NoDesc,
         NEW c \in freeConns, Registers(c, d),
         own' = [own EXCEPT ![g] = @ \cup {d}],
         UNCHANGED <<file, files>>
  PROVE  ConnsInv'
<1>1. /\ ReadyOK' /\ OpsOK' /\ Sqes' = Sqes
      /\ Due(g) /\ Blocked(g) /\ ~Awaits(g)
      /\ status' \in [Greenlets -> Statuses] /\ call' \in [Greenlets -> CallRecord]
      /\ ready' \in Seq(Greenlets)
      /\ UNCHANGED <<activeWaits, sq, ops, phase, stop, inflight, accept>>
      /\ call'[g] = NoCall /\ call'[g].kind = "none" /\ ~Blocked(g)' /\ ~Fetched(g)'
      /\ \A h \in Greenlets : h # g => call'[h] = call[h]
      /\ \A h \in Greenlets : status'[h] = "unborn" => status[h] = "unborn" /\ h # g
      /\ \A h \in Greenlets : h # g => /\ Awaits(h)' <=> Awaits(h)
                                       /\ Blocked(h)' <=> Blocked(h)
                                       /\ Fetched(h)' <=> Fetched(h)
      /\ Connectors' = Connectors
  BY Resumed
<1>2. Fetched(g)
  BY <1>1 DEF Fetched
<1>3. Live(d) /\ d \in Desc /\ d.fd \in Fds /\ fdToConn[d.fd] = None /\ \A h \in Greenlets : d \notin own[h]
  BY <1>2 DEF ConnsInv, AcceptOK, Live, Desc
<1>4. /\ conn' \in [Conns -> ConnRecord] /\ OthersSame(c)
      /\ conn'[c].desc = d /\ conn'[c].state = "idle"
      /\ conn'[c].pending = 0 /\ conn'[c].greenlet = None
      /\ c \in Conns
      /\ freeConns' = freeConns \ {c} /\ freeConns' \in SUBSET Conns
      /\ fdToConn' \in [Fds -> Conns \cup {None}]
      /\ fdToConn'[d.fd] = c
      /\ \A fd \in Fds : fd # d.fd => fdToConn'[fd] = fdToConn[fd]
  BY <1>3, RegistersMeans
<1>5. \A k : Live(k)' <=> Live(k)
  BY DEF Live
<1>6. /\ own' \in [Greenlets -> SUBSET Desc]
      /\ own'[g] = own[g] \cup {d}
      /\ \A h \in Greenlets : h # g => own'[h] = own[h]
  BY <1>3 DEF ConnsInv, Types
<1>7. /\ accept.pending => accept.greenlet \in Greenlets \ {g}
      /\ \A e \in Sqes : e.kind = "connect" =>
           \E h \in Greenlets \ {g} : call[h].kind = "connect" /\ call[h].op = e.op
      /\ \A e \in Sqes : e.kind \in Transfers => conn[e.conn].greenlet \in Greenlets \ {g}
      /\ \A b \in Conns \ freeConns : conn[b].state \in {"reading", "writing"} =>
           conn[b].greenlet \in Greenlets \ {g}
  BY <1>1, OthersWait
<1>8. \A k : Live(k) /\ fdToConn[k.fd] # None => k # d /\ fdToConn'[k.fd] = fdToConn[k.fd]
  BY <1>3, <1>4, SameFd DEF Live, Desc
<1>9. Types'
  BY <1>1, <1>4, <1>6 DEF ConnsInv, Types
<1>10. CallsOK'
  <2>1. ASSUME NEW h \in Greenlets, call'[h].kind \in Transfers PROVE TransferOK(h)'
    <3>1. h # g /\ call'[h] = call[h] /\ TransferOK(h) /\ Live(call[h].desc) /\ call[h].conn # None
      BY <1>1, <2>1, ConnsAssumption DEF ConnsInv, CallsOK, TransferOK, OwnOK, Transfers
    <3>2. call[h].conn \in Conns \ freeConns
      BY <3>1, MappedConn DEF TransferOK
    <3>3. fdToConn'[call[h].desc.fd] = call[h].conn
      BY <1>8, <3>1 DEF TransferOK
    <3> QED BY <1>1, <1>4, <1>6, <3>1, <3>2, <3>3 DEF TransferOK, OthersSame
  <2>2. ASSUME NEW h \in Greenlets, call'[h].kind = "connect" PROVE ConnectOK(h)'
    <3>1. h # g /\ call'[h] = call[h] /\ call[h].kind = "connect" /\ ConnectOK(h) /\ Live(call[h].desc)
      BY <1>1, <2>2 DEF ConnsInv, CallsOK, ConnectOK
    <3>2. call[h].conn \in Conns \ freeConns /\ fdToConn[call[h].desc.fd] = call[h].conn
      BY <3>1, ConnectIdle
    <3>3. call[h].desc # d /\ fdToConn'[call[h].desc.fd] = call[h].conn
      BY <1>8, <3>1, <3>2, ConnsAssumption
    <3>4. \A k \in Greenlets : call[h].desc \notin own'[k]
      BY <1>6, <3>1, <3>3 DEF ConnectOK
    <3>5. \A k \in Greenlets \ {h} : call'[k].kind = "connect" => call'[k].desc # call[h].desc
      <4>1. \A k \in Greenlets \ {h} : call'[k].kind = "connect" => call'[k] = call[k]
        BY <1>1
      <4> QED BY <3>1, <4>1 DEF ConnectOK
    <3> QED BY <1>4, <1>5, <3>1, <3>2, <3>3, <3>4, <3>5 DEF ConnectOK, OthersSame
  <2>3. \A h \in Greenlets : Blocked(h)' <=> call'[h].kind # "none"
    BY <1>1 DEF ConnsInv, CallsOK
  <2>4. \A h \in Greenlets : ~Blocked(h)' => call'[h] = NoCall
    BY <1>1 DEF ConnsInv, CallsOK
  <2> QED BY <2>1, <2>2, <2>3, <2>4 DEF CallsOK
<1>11. AcceptOK'
  <2>1. accept.pending => /\ call'[accept.greenlet] = call[accept.greenlet]
                          /\ Awaits(accept.greenlet)'
    <3> SUFFICES ASSUME accept.pending
                 PROVE  call'[accept.greenlet] = call[accept.greenlet] /\ Awaits(accept.greenlet)'
      OBVIOUS
    <3>1. PICK h \in Greenlets : h = accept.greenlet /\ h # g
      BY <1>7
    <3>2. Awaits(h)' /\ call'[h] = call[h]
      BY <1>1, <3>1 DEF ConnsInv, AcceptOK
    <3> QED BY <1>1, <3>1, <3>2 DEF Awaits
  <2>2. \A h \in Greenlets : ~Fetched(h)'
    <3>1. \A h \in Greenlets : Fetched(h) => h = g
      BY <1>2 DEF ConnsInv, AcceptOK
    <3> QED BY <1>1, <3>1
  <2>3. \A h \in Greenlets : call'[h].kind = "accept" /\ Awaits(h)' => call[h].kind = "accept" /\ Awaits(h)
    BY <1>1
  <2> QED BY <1>1, <1>7, <2>1, <2>2, <2>3 DEF ConnsInv, AcceptOK
<1>12. SqesOK'
  <2>1. ASSUME NEW e \in Sqes, e.kind \in Transfers PROVE TransferSqeOK(e)'
    <3>1. TransferSqeOK(e) /\ conn[e.conn].greenlet \in Greenlets \ {g}
      BY <1>7, <2>1 DEF ConnsInv, SqesOK
    <3>2. conn'[e.conn] = conn[e.conn] /\ e.conn \in Conns \ freeConns'
      BY <1>4, <3>1 DEF TransferSqeOK, OthersSame
    <3> QED BY <1>1, <3>1, <3>2 DEF TransferSqeOK
  <2>2. ASSUME NEW e \in Sqes, e.kind \in Closes PROVE CloseSqeOK(e)'
    <3>1. CloseSqeOK(e) /\ Live(e.desc)
      BY <2>2 DEF ConnsInv, SqesOK, CloseSqeOK
    <3>2. e.desc # d
      <4> SUFFICES ASSUME e.desc = d PROVE FALSE
        OBVIOUS
      <4>1. e.kind = "close"
        BY <1>2, <2>2, <3>1 DEF CloseSqeOK, Closes
      <4>2. ConnOK(e.conn) /\ conn[e.conn].desc = d /\ e.conn \in Conns
        BY <3>1, <4>1 DEF CloseSqeOK, ConnsInv, ConnsOK
      <4> QED BY <1>3, <4>2, ConnsAssumption DEF ConnOK
    <3>3. \A k \in Greenlets : e.desc \notin own'[k]
      BY <1>6, <3>1, <3>2 DEF CloseSqeOK
    <3>4. \A h \in Greenlets : Fetched(h)' => Fetched(h)
      BY <1>1
    <3>5. fdToConn'[e.desc.fd] = fdToConn[e.desc.fd]
      BY <1>3, <1>4, <3>1, <3>2, SameFd DEF Live, Desc
    <3>6. e.kind = "close" => conn'[e.conn] = conn[e.conn] /\ e.conn \in Conns \ freeConns'
      BY <1>4, <3>1 DEF CloseSqeOK, OthersSame
    <3> QED BY <1>1, <1>5, <3>1, <3>3, <3>4, <3>5, <3>6 DEF CloseSqeOK
  <2>3. \A e \in Sqes' : e.kind = "connect" => \E h \in Greenlets : call'[h].kind = "connect" /\ call'[h].op = e.op
    BY <1>1, <1>7
  <2> QED BY <1>1, <2>1, <2>2, <2>3 DEF ConnsInv, SqesOK
<1>13. ConnsOK'
  <2>1. ASSUME NEW b \in Conns \ freeConns PROVE ConnOK(b)'
    <3>1. ConnOK(b) /\ conn'[b] = conn[b] /\ Live(conn[b].desc) /\ fdToConn[conn[b].desc.fd] = b /\ b # None
      BY <1>4, ConnsAssumption DEF ConnsInv, ConnsOK, ConnOK, OthersSame
    <3>2. fdToConn'[conn[b].desc.fd] = b
      BY <1>8, <3>1
    <3> QED BY <1>1, <1>5, <1>7, <3>1, <3>2 DEF ConnOK
  <2>2. ConnOK(c)'
    BY <1>3, <1>4, <1>5 DEF ConnOK
  <2>3. \A b \in freeConns' : conn'[b].greenlet = None
    <3>1. \A b \in freeConns' : b \in Conns /\ b # c /\ conn[b].greenlet = None
      BY <1>4 DEF ConnsInv, ConnsOK, Types
    <3> QED BY <1>4, <3>1 DEF OthersSame
  <2>4. ASSUME NEW fd \in Fds, fdToConn'[fd] # None
        PROVE  fdToConn'[fd] \notin freeConns' /\ conn'[fdToConn'[fd]].desc.fd = fd
    <3>1. CASE fd = d.fd
      BY <1>4, <3>1
    <3>2. CASE fd # d.fd
      <4>1. fdToConn'[fd] = fdToConn[fd] /\ fdToConn[fd] \in Conns \ freeConns /\ fdToConn[fd] # c
            /\ conn[fdToConn[fd]].desc.fd = fd
        BY <1>4, <2>4, <3>2 DEF ConnsInv, ConnsOK, Types
      <4> QED BY <1>4, <4>1 DEF OthersSame
    <3> QED BY <3>1, <3>2
  <2> QED BY <1>4, <2>1, <2>2, <2>3, <2>4 DEF ConnsOK
<1>14. OwnOK'
  <2>1. \A h \in Greenlets : \A k \in own'[h] : Live(k)'
    BY <1>3, <1>5, <1>6 DEF ConnsInv, OwnOK
  <2>2. \A h, k \in Greenlets : h # k => own'[h] \cap own'[k] = {}
    BY <1>3, <1>6 DEF ConnsInv, OwnOK
  <2>3. \A h \in Greenlets : status'[h] = "unborn" => own'[h] = {}
    BY <1>1, <1>6 DEF ConnsInv, OwnOK
  <2> QED BY <2>1, <2>2, <2>3 DEF OwnOK
<1>15. ConnWaitsExact'
  <2>1. ConnWaiters' = ConnWaiters
    <3>1. conn[c].greenlet = None
      BY DEF ConnsInv, ConnsOK
    <3> QED BY <1>4, <3>1 DEF ConnWaiters, OthersSame
  <2> QED BY <1>1, <2>1, CountsOf
<1> QED BY <1>1, <1>9, <1>10, <1>11, <1>12, <1>13, <1>14, <1>15 DEF ConnsInv

(* green_accept returns, in any way: the pool is never exhausted.          *)
LEMMA ResumeAcceptKeeps ==
  ASSUME ConnsInv, ServerUse, NEW g \in Greenlets, ResumeAccept(g)
  PROVE  ConnsInv'
<1>1. Resumes(g) /\ Returns(g) /\ call[g].kind = "accept" /\ files' = files
  BY DEF ResumeAccept
<1>2. PICK d : d = accept.result
  OBVIOUS
<1>3. own \in [Greenlets -> SUBSET Desc]
  BY DEF ConnsInv, Types
<1>4. CASE d = NoDesc
  <2>1. UNCHANGED <<conn, freeConns, fdToConn, file>> /\ own' = [own EXCEPT ![g] = own[g]]
    BY <1>2, <1>3, <1>4 DEF ResumeAccept
  <2>2. own' = own
    BY <1>3, <2>1
  <2> QED BY <1>1, <1>3, <2>1, <2>2, ReturnKeeps
<1>5. CASE d # NoDesc
  <2>1. Fetched(g)
    BY <1>1, ResumesMeans DEF Fetched
  <2>2. d.fd \in Fds /\ fdToConn[d.fd] = None
    BY <1>2, <1>5, <2>1 DEF ConnsInv, AcceptOK, Live, Desc
  <2>3. freeConns # {}
    BY <2>2, PoolSuffices
  <2>4. (\E c \in freeConns : Registers(c, d)) /\ file' = file /\ own' = [own EXCEPT ![g] = @ \cup {d}]
    BY <1>2, <1>3, <1>5, <2>3 DEF ResumeAccept
  <2>5. PICK c \in freeConns : Registers(c, d)
    BY <2>4
  <2> QED BY <1>1, <1>2, <1>5, <2>4, <2>5, AcceptedKeeps
<1> QED BY <1>4, <1>5

(* A transfer returns.                                                     *)
LEMMA TransferReturnsKeeps ==
  ASSUME ConnsInv, NEW g \in Greenlets, TransferReturns(g)
  PROVE  ConnsInv'
BY ReturnKeeps DEF TransferReturns, envVars, ConnsInv, Types

(* A partial send goes on with the rest.                                   *)
LEMMA SendsRestKeeps ==
  ASSUME ConnsInv, ServerUse, NEW g \in Greenlets, SendsRest(g)
  PROVE  ConnsInv'
<1>1. /\ Resumes(g) /\ call[g].kind = "send"
      /\ Transfer(g, "send", call[g].conn, call[g].desc)
      /\ UNCHANGED <<freeConns, fdToConn, envVars>>
  BY DEF SendsRest
<1>2. TransferOK(g)
  BY <1>1 DEF ConnsInv, CallsOK, Transfers
<1>3. PICK d \in own[g] : d = call[g].desc
  BY <1>2 DEF TransferOK
<1>4. PICK c \in Conns : c = call[g].conn
  BY <1>2 DEF TransferOK
<1>5. fdToConn[d.fd] = c
  BY <1>2, <1>3, <1>4 DEF TransferOK
<1>6. /\ ~Awaits(g) /\ phase # "failed"
      /\ ready' \in Seq(Greenlets)
      /\ \A i, j \in 1..Len(ready') : ready'[i] = ready'[j] => i = j
      /\ \A h \in Greenlets : InReady(h)' <=> InReady(h) /\ h # g
      /\ UNCHANGED <<phase, stop, inflight, accept>>
  BY <1>1, ResumesMeans
<1>7. call[g].kind \in {"none"} \cup Transfers /\ "send" \in Transfers
  BY <1>1 DEF Transfers
<1>8. Transfer(g, "send", c, d)
  BY <1>1, <1>3, <1>4
<1> QED BY <1>1, <1>5, <1>6, <1>7, <1>8, TransferKeeps

(* A failed connect gives back its connection and closes its socket.       *)
LEMMA DisconnectsKeeps ==
  ASSUME ConnsInv, NEW g \in Greenlets, Resumes(g), Returns(g), call[g].kind = "connect",
         Disconnects(g), UNCHANGED <<own, files>>
  PROVE  ConnsInv'
<1>1. /\ ReadyOK' /\ OpsOK' /\ Sqes' = Sqes
      /\ Due(g) /\ Blocked(g) /\ ~Awaits(g)
      /\ status' \in [Greenlets -> Statuses] /\ call' \in [Greenlets -> CallRecord]
      /\ ready' \in Seq(Greenlets)
      /\ UNCHANGED <<activeWaits, sq, ops, phase, stop, inflight, accept>>
      /\ call'[g] = NoCall /\ call'[g].kind = "none" /\ ~Blocked(g)' /\ ~Fetched(g)'
      /\ \A h \in Greenlets : h # g => call'[h] = call[h]
      /\ \A h \in Greenlets : status'[h] = "unborn" => status[h] = "unborn" /\ h # g
      /\ \A h \in Greenlets : h # g => /\ Awaits(h)' <=> Awaits(h)
                                       /\ Blocked(h)' <=> Blocked(h)
                                       /\ Fetched(h)' <=> Fetched(h)
      /\ Connectors' = Connectors
  BY Resumed
<1>2. PICK c \in Conns, d \in Desc : c = call[g].conn /\ d = call[g].desc
  BY DEF ConnsInv, CallsOK, ConnectOK, Live
<1>3. /\ c \notin freeConns /\ fdToConn[d.fd] = c /\ conn[c].desc = d
      /\ conn[c].state = "idle" /\ conn[c].greenlet = None
      /\ Live(d) /\ d.fd \in Fds /\ c # None
      /\ \A h \in Greenlets : d \notin own[h]
      /\ \A h \in Greenlets \ {g} : call[h].kind = "connect" => call[h].desc # d
  BY <1>2, ConnectIdle, ConnsAssumption DEF ConnsInv, CallsOK, ConnectOK, Desc
<1>4. /\ conn' = [conn EXCEPT ![c] = ReleasedConn(c)]
      /\ freeConns' = freeConns \cup {c}
      /\ fdToConn' = [fdToConn EXCEPT ![d.fd] = None]
      /\ file' = [file EXCEPT ![d.fd] = 0]
  BY <1>2 DEF Disconnects
<1>5. conn' \in [Conns -> ConnRecord] /\ OthersSame(c) /\ conn'[c].greenlet = None
  BY <1>4, ReleasedMeans
<1>6. /\ fdToConn' \in [Fds -> Conns \cup {None}]
      /\ fdToConn'[d.fd] = None
      /\ \A fd \in Fds : fd # d.fd => fdToConn'[fd] = fdToConn[fd]
      /\ freeConns' \in SUBSET Conns
  BY <1>3, <1>4 DEF ConnsInv, Types
<1>7. /\ file' \in [Fds -> Nat]
      /\ \A k : Live(k) /\ k # d => Live(k)'
  BY <1>3, <1>4, ClosesMeans
<1>8. \A k : Live(k) /\ k # d => Live(k)' /\ k.fd # d.fd /\ fdToConn'[k.fd] = fdToConn[k.fd]
  BY <1>3, <1>6, <1>7, SameFd DEF Live, Desc
<1>9. /\ accept.pending => accept.greenlet \in Greenlets \ {g}
      /\ \A e \in Sqes : e.kind = "connect" =>
           \E h \in Greenlets \ {g} : call[h].kind = "connect" /\ call[h].op = e.op
      /\ \A e \in Sqes : e.kind \in Transfers => conn[e.conn].greenlet \in Greenlets \ {g}
      /\ \A b \in Conns \ freeConns : conn[b].state \in {"reading", "writing"} =>
           conn[b].greenlet \in Greenlets \ {g}
  BY <1>1, OthersWait
<1>10. Types'
  BY <1>1, <1>5, <1>6, <1>7 DEF ConnsInv, Types
<1>11. CallsOK'
  <2>1. ASSUME NEW h \in Greenlets, call'[h].kind \in Transfers PROVE TransferOK(h)'
    <3>1. /\ h # g /\ call'[h] = call[h] /\ TransferOK(h) /\ Live(call[h].desc)
          /\ call[h].conn # None /\ call[h].desc # d
      BY <1>1, <1>3, <2>1, ConnsAssumption DEF ConnsInv, CallsOK, TransferOK, OwnOK, Transfers
    <3>2. call[h].conn # c
      BY <1>3, <3>1, MappedConn DEF TransferOK
    <3>3. fdToConn'[call[h].desc.fd] = call[h].conn
      BY <1>8, <3>1 DEF TransferOK
    <3> QED BY <1>1, <1>5, <3>1, <3>2, <3>3 DEF TransferOK, OthersSame
  <2>2. ASSUME NEW h \in Greenlets, call'[h].kind = "connect" PROVE ConnectOK(h)'
    <3>1. h # g /\ call'[h] = call[h] /\ call[h].kind = "connect" /\ ConnectOK(h)
      BY <1>1, <2>2 DEF ConnsInv, CallsOK
    <3>2. call[h].desc # d /\ Live(call[h].desc) /\ conn[call[h].conn].desc = call[h].desc
      BY <1>3, <3>1, ConnectIdle DEF ConnectOK
    <3>3. Live(call[h].desc)' /\ fdToConn'[call[h].desc.fd] = call[h].conn
      <4>1. PICK k : k = call[h].desc
        OBVIOUS
      <4>2. Live(k)' /\ fdToConn'[k.fd] = fdToConn[k.fd]
        BY <1>8, <3>2, <4>1
      <4> QED BY <3>1, <4>1, <4>2 DEF Live, ConnectOK
    <3>4. call[h].conn # c /\ call[h].conn \in Conns
      BY <1>3, <3>1, <3>2 DEF ConnectOK
    <3>5. \A k \in Greenlets \ {h} : call'[k].kind = "connect" => call'[k].desc # call[h].desc
      <4>1. \A k \in Greenlets \ {h} : call'[k].kind = "connect" => call'[k] = call[k]
        BY <1>1
      <4> QED BY <3>1, <4>1 DEF ConnectOK
    <3> QED BY <1>5, <3>1, <3>3, <3>4, <3>5 DEF ConnectOK, OthersSame
  <2>3. \A h \in Greenlets : Blocked(h)' <=> call'[h].kind # "none"
    BY <1>1 DEF ConnsInv, CallsOK
  <2>4. \A h \in Greenlets : ~Blocked(h)' => call'[h] = NoCall
    BY <1>1 DEF ConnsInv, CallsOK
  <2> QED BY <2>1, <2>2, <2>3, <2>4 DEF CallsOK
<1>12. AcceptOK'
  <2>1. accept.pending => /\ call'[accept.greenlet] = call[accept.greenlet]
                          /\ Awaits(accept.greenlet)'
    <3> SUFFICES ASSUME accept.pending
                 PROVE  call'[accept.greenlet] = call[accept.greenlet] /\ Awaits(accept.greenlet)'
      OBVIOUS
    <3>1. PICK h \in Greenlets : h = accept.greenlet /\ h # g
      BY <1>9
    <3>2. Awaits(h)' /\ call'[h] = call[h]
      BY <1>1, <3>1 DEF ConnsInv, AcceptOK
    <3> QED BY <1>1, <3>1, <3>2 DEF Awaits
  <2>2. \A h \in Greenlets : Fetched(h)' => Fetched(h)
    BY <1>1
  <2>3. \A h \in Greenlets : call'[h].kind = "accept" /\ Awaits(h)' => call[h].kind = "accept" /\ Awaits(h)
    BY <1>1
  <2>4. ASSUME NEW h \in Greenlets, Fetched(h), accept.result # NoDesc
        PROVE  Live(accept.result)' /\ fdToConn'[accept.result.fd] = None
    <3>1. PICK k : k = accept.result
      OBVIOUS
    <3>2. Live(k) /\ fdToConn[k.fd] = None
      BY <2>4, <3>1 DEF ConnsInv, AcceptOK
    <3>3. k # d
      BY <1>3, <3>2
    <3>4. Live(k)' /\ fdToConn'[k.fd] = None
      BY <1>8, <3>2, <3>3
    <3> QED BY <1>1, <3>1, <3>4 DEF Live
  <2> QED BY <1>1, <1>9, <2>1, <2>2, <2>3, <2>4 DEF ConnsInv, AcceptOK
<1>13. SqesOK'
  <2>1. ASSUME NEW e \in Sqes, e.kind \in Transfers PROVE TransferSqeOK(e)'
    <3>1. TransferSqeOK(e) /\ conn[e.conn].greenlet \in Greenlets \ {g} /\ e.conn # c
      BY <1>3, <1>9, <2>1 DEF ConnsInv, SqesOK, TransferSqeOK
    <3> QED BY <1>1, <1>4, <1>5, <3>1 DEF TransferSqeOK, OthersSame
  <2>2. ASSUME NEW e \in Sqes, e.kind \in Closes PROVE CloseSqeOK(e)'
    <3>1. CloseSqeOK(e) /\ Live(e.desc)
      BY <2>2 DEF ConnsInv, SqesOK, CloseSqeOK
    <3>2. e.desc # d /\ (e.kind = "close" => e.conn # c)
      <4>1. e.kind = "close" => e.conn # c
        BY <1>3, <3>1 DEF CloseSqeOK
      <4>2. e.kind = "close" => fdToConn[e.desc.fd] = e.conn
        BY <3>1 DEF CloseSqeOK, ConnsInv, ConnsOK, ConnOK
      <4> QED BY <1>3, <2>2, <3>1, <4>1, <4>2 DEF CloseSqeOK, Closes
    <3>3. Live(e.desc)' /\ fdToConn'[e.desc.fd] = fdToConn[e.desc.fd]
      <4>1. PICK k : k = e.desc
        OBVIOUS
      <4> QED BY <1>8, <3>1, <3>2, <4>1
    <3>4. \A h \in Greenlets : Fetched(h)' => Fetched(h)
      BY <1>1
    <3> QED BY <1>1, <1>4, <1>5, <3>1, <3>2, <3>3, <3>4 DEF CloseSqeOK, OthersSame
  <2>3. \A e \in Sqes' : e.kind = "connect" => \E h \in Greenlets : call'[h].kind = "connect" /\ call'[h].op = e.op
    BY <1>1, <1>9
  <2> QED BY <1>1, <2>1, <2>2, <2>3 DEF ConnsInv, SqesOK
<1>14. ConnsOK'
  <2>1. ASSUME NEW b \in Conns \ freeConns, b # c PROVE ConnOK(b)'
    <3>1. ConnOK(b) /\ conn'[b] = conn[b] /\ Live(conn[b].desc) /\ fdToConn[conn[b].desc.fd] = b /\ conn[b].desc # d
      BY <1>3, <1>5, <2>1 DEF ConnsInv, ConnsOK, ConnOK, OthersSame
    <3>2. Live(conn[b].desc)' /\ fdToConn'[conn[b].desc.fd] = b
      <4>1. PICK k : k = conn[b].desc
        OBVIOUS
      <4>2. Live(k)' /\ fdToConn'[k.fd] = fdToConn[k.fd]
        BY <1>8, <3>1, <4>1
      <4> QED BY <3>1, <4>1, <4>2 DEF Live
    <3> QED BY <1>1, <1>9, <3>1, <3>2 DEF ConnOK
  <2>2. \A b \in freeConns' : conn'[b].greenlet = None
    BY <1>4, <1>5 DEF ConnsInv, ConnsOK, Types, OthersSame
  <2>3. ASSUME NEW fd \in Fds, fdToConn'[fd] # None
        PROVE  fdToConn'[fd] \notin freeConns' /\ conn'[fdToConn'[fd]].desc.fd = fd
    <3>1. fd # d.fd /\ fdToConn'[fd] = fdToConn[fd] /\ fdToConn[fd] \in Conns \ freeConns
          /\ conn[fdToConn[fd]].desc.fd = fd
      BY <1>6, <2>3 DEF ConnsInv, ConnsOK, Types
    <3> QED BY <1>3, <1>4, <1>5, <3>1 DEF OthersSame
  <2> QED BY <1>4, <2>1, <2>2, <2>3 DEF ConnsOK
<1>15. OwnOK'
  <2>1. \A h \in Greenlets : \A k \in own'[h] : Live(k)'
    BY <1>3, <1>8 DEF ConnsInv, OwnOK
  <2> QED BY <1>1, <2>1 DEF ConnsInv, OwnOK
<1>16. ConnWaitsExact'
  <2>1. ConnWaiters' = ConnWaiters
    BY <1>3, <1>5 DEF ConnWaiters, OthersSame
  <2> QED BY <1>1, <2>1, CountsOf
<1> QED BY <1>1, <1>10, <1>11, <1>12, <1>13, <1>14, <1>15, <1>16 DEF ConnsInv

(* green_connect returns.                                                  *)
LEMMA ResumeConnectKeeps ==
  ASSUME ConnsInv, NEW g \in Greenlets, ResumeConnect(g)
  PROVE  ConnsInv'
<1>1. Resumes(g) /\ Returns(g) /\ call[g].kind = "connect" /\ files' = files
  BY DEF ResumeConnect
<1>2. own \in [Greenlets -> SUBSET Desc] /\ call[g].desc \in Desc
  BY <1>1 DEF ConnsInv, Types, CallsOK, ConnectOK, Live
<1>3. CASE /\ own' = [own EXCEPT ![g] = @ \cup {call[g].desc}]
           /\ UNCHANGED <<conn, freeConns, fdToConn, file>>
  <2>1. /\ own' \in [Greenlets -> SUBSET Desc]
        /\ own'[g] = own[g] \cup {call[g].desc}
        /\ \A h \in Greenlets : h # g => own'[h] = own[h]
    BY <1>2, <1>3
  <2> QED BY <1>1, <1>3, <2>1, ReturnKeeps
<1>4. CASE Disconnects(g) /\ UNCHANGED own
  BY <1>1, <1>4, DisconnectsKeeps
<1> QED BY <1>3, <1>4 DEF ResumeConnect

-----------------------------------------------------------------------------
(* The invariant.                                                          *)

(* It holds at the start.                                                  *)
LEMMA ConnsInvInit ==
  ASSUME ServerUse, ConnsInit
  PROVE  ConnsInv
<1>1. PICK root \in Greenlets :
        /\ status = [g \in Greenlets |-> IF g = root THEN "scheduled" ELSE "unborn"]
        /\ ready = <<root>>
  BY DEF ConnsInit, LoopInit
<1>2. /\ activeWaits = 0 /\ phase = "drain" /\ stop = "no" /\ sq = {} /\ inflight = {}
      /\ conn = [c \in Conns |-> [desc |-> NoDesc, state |-> "idle", gen |-> 0,
                                  greenlet |-> None, pending |-> 0, result |-> 0]]
      /\ freeConns = Conns
      /\ fdToConn = [fd \in Fds |-> None]
      /\ accept = [greenlet |-> None, pending |-> FALSE, result |-> NoDesc]
      /\ call = [g \in Greenlets |-> NoCall]
      /\ own  = [g \in Greenlets |-> {}]
      /\ file = [fd \in Fds |-> 0]
      /\ files = 0 /\ ops = 0
  BY DEF ConnsInit, LoopInit
<1>3. /\ Sqes = {}
      /\ \A g \in Greenlets : status[g] \in {"scheduled", "unborn"} /\ (status[g] = "scheduled" <=> g = root)
      /\ \A g \in Greenlets : call[g] = NoCall /\ call[g].kind = "none" /\ call[g].op = 0
      /\ \A c \in Conns : conn[c].greenlet = None
      /\ \A fd \in Fds : fdToConn[fd] = None
      /\ \A g \in Greenlets : own[g] = {}
      /\ accept.greenlet = None /\ ~accept.pending
  BY <1>1, <1>2 DEF Sqes, NoCall
<1>4. \A g \in Greenlets : ~Blocked(g) /\ ~Due(g) /\ ~Fetched(g) /\ ~Awaits(g)
  BY <1>3 DEF Blocked, Due, Fetched, Awaits
<1>5. /\ ready \in Seq(Greenlets) /\ Len(ready) = 1 /\ ready[1] = root
  BY <1>1
<1>6. ReadyOK
  BY <1>3, <1>4, <1>5 DEF ReadyOK, InReady
<1>7. Types
  <2>1. /\ NoCall \in CallRecord
        /\ [desc |-> NoDesc, state |-> "idle", gen |-> 0,
            greenlet |-> None, pending |-> 0, result |-> 0] \in ConnRecord
        /\ [greenlet |-> None, pending |-> FALSE, result |-> NoDesc] \in AcceptRecord
    BY DEF NoCall, CallRecord, CallKinds, ConnRecord, ConnStates, AcceptRecord
  <2>2. status \in [Greenlets -> Statuses]
    BY <1>1 DEF Statuses
  <2>3. conn \in [Conns -> ConnRecord] /\ call \in [Greenlets -> CallRecord] /\ accept \in AcceptRecord
    BY <1>2, <2>1
  <2> QED BY <1>2, <1>5, <2>2, <2>3 DEF Types, Phases
<1>8. OpsOK
  BY <1>2, <1>3, <1>4 DEF OpsOK
<1>9. CallsOK
  BY <1>3, <1>4 DEF CallsOK, Transfers
<1>10. AcceptOK
  BY <1>3, <1>4 DEF AcceptOK
<1>11. SqesOK
  BY <1>3 DEF SqesOK
<1>12. ConnsOK
  BY <1>2, <1>3 DEF ConnsOK
<1>13. OwnOK
  BY <1>3 DEF OwnOK
<1>14. ConnWaitsExact
  <2>1. ConnWaiters = {} /\ Connectors = {}
    BY <1>3 DEF ConnWaiters, Connectors, Connecting
  <2> QED BY <1>2, <1>3, <2>1, FS_EmptySet, CountMeans
<1> QED BY <1>6, <1>7, <1>8, <1>9, <1>10, <1>11, <1>12, <1>13, <1>14 DEF ConnsInv

(* Every step keeps it.  Nobody throws, and nothing is cancelled.          *)
LEMMA ConnsInvNext ==
  ASSUME ServerUse, ConnsInv, [Next]_vars
  PROVE  ConnsInv'
<1>1. CASE UNCHANGED vars
  <2>1. /\ UNCHANGED <<loopVars, accept, call, ops>> /\ UNCHANGED <<conn, freeConns, fdToConn, own, file, files>>
    BY <1>1 DEF vars, connVars, envVars
  <2>2. /\ ReadyOK' /\ OpsOK' /\ Sqes' = Sqes /\ ConnWaitsExact'
        /\ \A h \in Greenlets : /\ Awaits(h)' <=> Awaits(h)
                                /\ Blocked(h)' <=> Blocked(h)
                                /\ Fetched(h)' <=> Fetched(h)
    BY <2>1, GoesOn
  <2>3. \A k : Live(k)' <=> Live(k)
    BY <2>1 DEF Live
  <2>4. Types' /\ OwnOK' /\ SqesOK' /\ ConnsOK'
    BY <2>1, <2>2, <2>3 DEF ConnsInv, Types, OwnOK, SqesOK, TransferSqeOK, CloseSqeOK, ConnsOK, ConnOK, loopVars
  <2>5. CallsOK'
    BY <2>1, <2>2, <2>3 DEF ConnsInv, CallsOK, TransferOK, ConnectOK, loopVars
  <2>6. AcceptOK'
    <3>1. accept.pending => accept.greenlet \in Greenlets
      BY DEF ConnsInv, Types, AcceptOK, AcceptRecord
    <3> QED BY <2>1, <2>2, <2>3, <3>1 DEF ConnsInv, AcceptOK, loopVars
  <2> QED BY <2>2, <2>4, <2>5, <2>6 DEF ConnsInv
<1>2. CASE (GreenletStep \/ LoopStep \/ LoopFails) /\ UNCHANGED <<connVars, envVars, ops>>
  BY <1>2, GreenletStepKeeps, LoopStepKeeps
<1>3. CASE (RequestStop \/ ReapStop) /\ UNCHANGED <<connVars, envVars, ops>>
  BY <1>3, LoopStepKeeps
<1>4. CASE CallStep
  <2>1. PICK g \in Greenlets :
        \/ Accept(g)
        \/ \E fd \in Fds : OpenFile(g, fd) \/ Connect(g, fd)
        \/ ConnectFails(g)
        \/ \E d \in Descs :
             \/ \E h \in Greenlets : Spawn(g, h, d)
             \/ \E kind \in Transfers : RecvOrSend(g, kind, d)
             \/ RegisterFd(g, d)
             \/ UnregisterFd(g, d)
             \/ Close(g, d)
        \/ \E v \in Greenlets : Throw(g, v)
    BY <1>4 DEF CallStep
  <2>2. CASE Accept(g)
    BY <2>2, AcceptKeeps
  <2>3. CASE \E fd \in Fds : OpenFile(g, fd) \/ Connect(g, fd)
    BY <2>3, OpenFileKeeps, ConnectKeeps
  <2>4. CASE ConnectFails(g)
    BY <2>4, ConnectFailsKeeps
  <2>5. CASE \E d \in Descs :
             \/ \E h \in Greenlets : Spawn(g, h, d)
             \/ \E kind \in Transfers : RecvOrSend(g, kind, d)
             \/ RegisterFd(g, d)
             \/ UnregisterFd(g, d)
             \/ Close(g, d)
    BY <2>5, SpawnKeeps, RecvOrSendKeeps, RegisterFdKeeps, UnregisterFdKeeps, CloseKeeps
  <2>6. CASE \E v \in Greenlets : Throw(g, v)
    BY <2>6 DEF Throw, ThrowsInto, ServerUse
  <2> QED BY <2>1, <2>2, <2>3, <2>4, <2>5, <2>6
<1>5. CASE ReapStep
  <2>1. PICK e \in inflight :
          ReapAccept(e) \/ ReapConnect(e) \/ ReapIgnored(e)
          \/ ReapCancelling(e) \/ ReapClosing(e) \/ ReapTransfer(e)
    BY <1>5 DEF ReapStep
  <2>2. ~ReapCancelling(e)
    BY ReapsConnMeans DEF ReapCancelling, ConnOK
  <2> QED BY <2>1, <2>2, ReapAcceptKeeps, ReapConnectKeeps, ReapIgnoredKeeps, ReapClosingKeeps,
             TransferReapedKeeps
<1>6. CASE ResumeStep
  BY <1>6, ResumeAcceptKeeps, ResumeConnectKeeps, TransferReturnsKeeps, SendsRestKeeps DEF ResumeStep
<1> QED BY <1>1, <1>2, <1>3, <1>4, <1>5, <1>6 DEF Next

(* Used as the server uses it, the hub keeps the invariant.                *)
LEMMA ConnsInvAlways ==
  ASSUME ServerUse
  PROVE  Spec => []ConnsInv
<1>1. ConnsInit => ConnsInv
  BY ConnsInvInit
<1>2. ConnsInv /\ [Next]_vars => ConnsInv'
  BY ConnsInvNext
<1> QED BY <1>1, <1>2, PTL DEF Spec

-----------------------------------------------------------------------------
(* What the server relies on.                                              *)

(* The hub's state keeps its types: what hub.zig and connection.zig        *)
(* declare.                                                                *)
THEOREM ConnsTypeCorrect ==
  ASSUME ServerUse
  PROVE  Spec => []ConnsTypeOK
<1>1. ConnsInv => ConnsTypeOK
  BY DEF ConnsInv, Types, ConnsTypeOK, ConnRecord, AcceptRecord
<1> QED BY <1>1, ConnsInvAlways, PTL

(* hub.zig's fd_to_conn never leads to a free connection or to one that is *)
(* registered for another fd.                                              *)
THEOREM FdMapAlwaysSound ==
  ASSUME ServerUse
  PROVE  Spec => []FdMapSound
<1>1. ConnsInv => FdMapSound
  BY DEF ConnsInv, ConnsOK, FdMapSound
<1> QED BY <1>1, ConnsInvAlways, PTL

(* connection.zig's pool loses no connection: one that is taken can be     *)
(* found from its fd.                                                      *)
THEOREM PoolAlwaysConserved ==
  ASSUME ServerUse
  PROVE  Spec => []PoolConserved
<1>1. ConnsInv => PoolConserved
  BY DEF ConnsInv, ConnsOK, ConnOK, PoolConserved
<1> QED BY <1>1, ConnsInvAlways, PTL

(* hub.zig's active_waits is exactly the number of completions the loop    *)
(* has to wait for.                                                        *)
THEOREM ConnWaitsAlwaysExact ==
  ASSUME ServerUse
  PROVE  Spec => []ConnWaitsExact
<1>1. ConnsInv => ConnWaitsExact
  BY DEF ConnsInv
<1> QED BY <1>1, ConnsInvAlways, PTL

(* No greenlet suspended in green_accept, green_recv, green_send or        *)
(* green_connect is forgotten.                                             *)
THEOREM NoGreenletLost ==
  ASSUME ServerUse
  PROVE  Spec => []NoLostGreenlet
<1>1. ASSUME ConnsInv, phase # "failed", NEW g \in Greenlets, status[g] = "blocked", ~InReady(g)
      PROVE  \E e \in sq \cup inflight :
               /\ e.op = call[g].op
               /\ e.kind = "accept" => accept.greenlet = g
               /\ e.kind \in Transfers =>
                    /\ Lookup(e)
                    /\ conn[e.conn].greenlet = g
                    /\ conn[e.conn].state \in {"reading", "writing"}
  <2>1. Blocked(g) /\ Awaits(g)
    BY <1>1 DEF ConnsInv, ReadyOK, Due, Blocked
  <2>2. PICK e \in Sqes : e.op = call[g].op
    BY <2>1 DEF Awaits
  <2>3. e.kind = call[g].kind
    BY <1>1, <2>1, <2>2 DEF ConnsInv, OpsOK
  <2>4. e.kind = "accept" => accept.greenlet = g
    BY <1>1, <2>1, <2>3 DEF ConnsInv, AcceptOK
  <2>5. ASSUME e.kind \in Transfers
        PROVE  /\ Lookup(e) /\ conn[e.conn].greenlet = g
               /\ conn[e.conn].state \in {"reading", "writing"}
    <3>1. TransferSqeOK(e) /\ ConnOK(e.conn)
      BY <1>1, <2>2, <2>5 DEF ConnsInv, SqesOK, ConnsOK, TransferSqeOK
    <3>2. PICK h \in Greenlets : h = conn[e.conn].greenlet
      BY <3>1 DEF TransferSqeOK
    <3>3. call[h].op = e.op /\ call[h].kind \in Transfers
      BY <3>1, <3>2 DEF TransferSqeOK, ConnOK
    <3>4. Blocked(h)
      BY <1>1, <3>3 DEF ConnsInv, CallsOK, Transfers
    <3>5. h = g
      BY <1>1, <2>1, <2>2, <3>3, <3>4 DEF ConnsInv, OpsOK
    <3>6. e.conn # None /\ conn[e.conn].gen = e.gen /\ conn[e.conn].state \in {"reading", "writing"}
      BY <3>1, ConnsAssumption DEF TransferSqeOK
    <3> QED BY <3>2, <3>5, <3>6 DEF Lookup
  <2> QED BY <2>2, <2>4, <2>5 DEF Sqes
<1>2. ConnsInv => NoLostGreenlet
  BY <1>1 DEF NoLostGreenlet
<1> QED BY <1>2, ConnsInvAlways, PTL

(* A transfer is resumed with the result of its own SQE, never with that   *)
(* of another use of the connection.                                       *)
THEOREM AlwaysOwnCompletion ==
  ASSUME ServerUse
  PROVE  Spec => []OwnCompletion
<1>1. ASSUME ConnsInv, NEW g \in Greenlets, status[g] = "blocked", InReady(g),
             call[g].kind \in Transfers
      PROVE  conn[call[g].conn].result = call[g].op
  <2>1. ~Awaits(g)
    BY <1>1 DEF ConnsInv, ReadyOK, Due
  <2> QED BY <1>1, <2>1 DEF ConnsInv, CallsOK, TransferOK
<1>2. ConnsInv => OwnCompletion
  BY <1>1 DEF OwnCompletion
<1> QED BY <1>2, ConnsInvAlways, PTL

(* The kernel never reads or writes the buffer of a connection that was    *)
(* given back to the pool.                                                 *)
THEOREM BuffersAlwaysLive ==
  ASSUME ServerUse
  PROVE  Spec => []BuffersLive
<1>1. ASSUME ConnsInv, NEW e \in Sqes, e.kind \in Transfers
      PROVE  Lookup(e)
  BY <1>1, ConnsAssumption DEF ConnsInv, SqesOK, TransferSqeOK, Lookup
<1>2. ConnsInv => BuffersLive
  BY <1>1 DEF BuffersLive, Sqes
<1> QED BY <1>2, ConnsInvAlways, PTL

(* A close the hub has queued closes the file it was queued for.           *)
THEOREM AlwaysClosesOwnFile ==
  ASSUME ServerUse
  PROVE  Spec => ClosesOwnFile
<1>1. ASSUME ConnsInv, NEW e \in inflight, e.kind \in {"close", "rawclose"}
      PROVE  file[e.desc.fd] \in {0, e.desc.file}
  <2>1. CloseSqeOK(e)
    BY <1>1 DEF ConnsInv, SqesOK, Closes, Sqes
  <2> QED BY <2>1 DEF CloseSqeOK, Live
<1>2. ConnsInv /\ [Next]_vars =>
        [\A e \in inflight \ inflight' : e.kind \in {"close", "rawclose"} =>
           file[e.desc.fd] \in {0, e.desc.file}]_vars
  BY <1>1
<1> QED BY <1>2, ConnsInvAlways, PTL DEF Spec, ClosesOwnFile

(* Giving back connection b changes the generation of no other.            *)
LEMMA ReleaseOfOne ==
  ASSUME Types, NEW b \in Conns, NEW c \in Conns, conn'[c].gen # conn[c].gen,
         conn' = [conn EXCEPT ![b] = ReleasedConn(b)]
  PROVE  c = b
BY DEF Types

(* A connection taken from the free list, or one an operation changes,     *)
(* keeps its generation.                                                   *)
LEMMA SameGen ==
  ASSUME Types, NEW b \in Conns, NEW c \in Conns, NEW r, r.gen = conn[b].gen,
         conn' = [conn EXCEPT ![b] = r]
  PROVE  conn'[c].gen = conn[c].gen
BY DEF Types

(* A registration keeps the generation of its connection.                  *)
LEMMA RegistersKeepsGen ==
  ASSUME Types, NEW b \in freeConns, NEW c \in Conns, NEW d, Registers(b, d)
  PROVE  conn'[c].gen = conn[c].gen
<1> DEFINE r == [desc |-> d, state |-> "idle", gen |-> conn[b].gen,
                 greenlet |-> conn[b].greenlet, pending |-> 0, result |-> 0]
<1>1. b \in Conns /\ r.gen = conn[b].gen /\ conn' = [conn EXCEPT ![b] = r]
  BY DEF Registers, Types
<1> HIDE DEF r
<1> QED BY <1>1, SameGen

(* Only a mapped connection is closed.                                     *)
LEMMA SubmitCloseReleases ==
  ASSUME Types, NEW b \in Conns, NEW c \in Conns, NEW r, r.gen = conn[b].gen,
         SubmitClose(b, r), conn'[c].gen # conn[c].gen
  PROVE  c = b
<1>1. CASE HasRoom(1)
  <2> DEFINE q == With(r, "closing", r.greenlet, r.pending + 1, r.result)
  <2>1. conn' = [conn EXCEPT ![b] = q] /\ q.gen = conn[b].gen
    BY <1>1 DEF SubmitClose, With
  <2> HIDE DEF q
  <2> QED BY <2>1, SameGen
<1>2. CASE ~HasRoom(1)
  BY <1>2, ReleaseOfOne DEF SubmitClose, Release
<1> QED BY <1>1, <1>2

(* releaseConnection never puts a connection on the free list that is      *)
(* there already.                                                          *)
THEOREM AlwaysReleasedOnce ==
  ASSUME ServerUse
  PROVE  Spec => ReleasedOnce
<1> DEFINE Released(c) == conn'[c].gen # conn[c].gen
           Once(c) == c \notin freeConns \/ \E g \in Greenlets : ConnectFails(g)
<1>1. ASSUME ConnsInv, NEW c \in Conns, Released(c), Next
      PROVE  Once(c)
  <2>0. Types
    BY <1>1 DEF ConnsInv
  <2>1. conn' # conn
    BY <1>1
  <2>2. \A d \in Descs : d.fd \in Fds /\ (fdToConn[d.fd] # None =>
           fdToConn[d.fd] \in Conns /\ fdToConn[d.fd] \notin freeConns)
    BY <1>1 DEF Descs, ConnsInv, Types, ConnsOK, Desc
  <2>3. CASE CallStep
    <3>1. PICK g \in Greenlets :
          \/ Accept(g)
          \/ \E fd \in Fds : OpenFile(g, fd) \/ Connect(g, fd)
          \/ ConnectFails(g)
          \/ \E d \in Descs :
               \/ \E h \in Greenlets : Spawn(g, h, d)
               \/ \E kind \in Transfers : RecvOrSend(g, kind, d)
               \/ RegisterFd(g, d)
               \/ UnregisterFd(g, d)
               \/ Close(g, d)
          \/ \E v \in Greenlets : Throw(g, v)
      BY <2>3 DEF CallStep
    <3>2. CASE Accept(g) \/ \E fd \in Fds : OpenFile(g, fd)
      BY <2>1, <3>2 DEF Accept, OpenFile, connVars
    <3>3. CASE \E fd \in Fds : Connect(g, fd)
      BY <1>1, <2>0, <3>3, RegistersKeepsGen DEF Connect
    <3>4. CASE ConnectFails(g)
      BY <3>4
    <3>5. CASE \E v \in Greenlets : Throw(g, v)
      BY <3>5 DEF Throw, ThrowsInto, ServerUse
    <3>6. ASSUME NEW d \in Descs,
                 \/ \E h \in Greenlets : Spawn(g, h, d)
                 \/ \E kind \in Transfers : RecvOrSend(g, kind, d)
                 \/ RegisterFd(g, d)
                 \/ UnregisterFd(g, d)
                 \/ Close(g, d)
          PROVE  Once(c)
      <4>1. CASE \E h \in Greenlets : Spawn(g, h, d)
        BY <2>1, <4>1 DEF Spawn, connVars
      <4>2. CASE \E kind \in Transfers : RecvOrSend(g, kind, d)
        <5>1. PICK kind \in Transfers, b \in Conns :
                Transfer(g, kind, b, d)
          BY <2>2, <4>2 DEF RecvOrSend
        <5> DEFINE q == With(conn[b], IF kind = "recv" THEN "reading" ELSE "writing", g,
                             conn[b].pending + 1, conn[b].result)
        <5>2. conn' = [conn EXCEPT ![b] = q] /\ q.gen = conn[b].gen
          BY <2>0, <5>1 DEF Transfer, With, Types
        <5> HIDE DEF q
        <5> QED BY <1>1, <2>0, <5>2, SameGen
      <4>3. CASE RegisterFd(g, d)
        BY <1>1, <2>0, <4>3, RegistersKeepsGen DEF RegisterFd
      <4>4. CASE UnregisterFd(g, d)
        <5>1. PICK b \in Conns \ freeConns : Release(b)
          BY <2>2, <4>4 DEF UnregisterFd
        <5> QED BY <1>1, <2>0, <5>1, ReleaseOfOne DEF Release
      <4>5. CASE Close(g, d)
        <5>1. CASE CloseUntracked(g, d)
          BY <2>1, <5>1 DEF CloseUntracked
        <5>2. CASE CloseIdle(g, d)
          <6>1. PICK b \in Conns \ freeConns : SubmitClose(b, conn[b])
            BY <2>2, <5>2 DEF CloseIdle
          <6> QED BY <1>1, <2>0, <6>1, SubmitCloseReleases
        <5>3. CASE CloseBusy(g, d)
          <6>1. PICK b \in Conns \ freeConns : b = fdToConn[d.fd]
            BY <2>2, <5>3 DEF CloseBusy
          <6> DEFINE r == [conn[b] EXCEPT !.state = "cancelling"]
          <6>2. r.gen = conn[b].gen
            BY <2>0 DEF Types, ConnRecord
          <6>3. conn' = [conn EXCEPT ![b] = r] \/ SubmitClose(b, r)
            BY <5>3, <6>1 DEF CloseBusy
          <6> HIDE DEF r
          <6> QED BY <1>1, <2>0, <6>1, <6>2, <6>3, SameGen, SubmitCloseReleases
        <5> QED BY <4>5, <5>1, <5>2, <5>3 DEF Close
      <4> QED BY <3>6, <4>1, <4>2, <4>3, <4>4, <4>5
    <3> QED BY <3>1, <3>2, <3>3, <3>4, <3>5, <3>6
  <2>4. CASE ReapStep
    <3>1. PICK e \in inflight :
            ReapAccept(e) \/ ReapConnect(e) \/ ReapIgnored(e)
            \/ ReapCancelling(e) \/ ReapClosing(e) \/ ReapTransfer(e)
      BY <2>4 DEF ReapStep
    <3>2. CASE ReapAccept(e) \/ ReapConnect(e) \/ ReapIgnored(e)
      BY <2>1, <3>2 DEF ReapAccept, ReapConnect, ReapIgnored
    <3>3. CASE ReapCancelling(e)
      BY <1>1, <3>3, ReapsConnMeans DEF ReapCancelling, ConnOK
    <3>4. CASE ReapClosing(e)
      <4>1. e.conn \in Conns \ freeConns /\ Release(e.conn)
        BY <1>1, <3>4, ReapsConnMeans DEF ReapClosing
      <4> QED BY <1>1, <2>0, <4>1, ReleaseOfOne DEF Release
    <3>5. CASE ReapTransfer(e)
      <4>1. e.conn \in Conns
        BY <1>1, <3>5, ReapsConnMeans DEF ReapTransfer
      <4> DEFINE q == With(conn[e.conn], "idle", None, Completed(e).pending, e.op)
      <4>2. conn' = [conn EXCEPT ![e.conn] = q] /\ q.gen = conn[e.conn].gen
        BY <2>0, <3>5, <4>1 DEF ReapTransfer, With, Types
      <4> HIDE DEF q
      <4> QED BY <1>1, <2>0, <4>1, <4>2, SameGen
    <3> QED BY <3>1, <3>2, <3>3, <3>4, <3>5
  <2>5. CASE ResumeStep
    <3>1. PICK g \in Greenlets :
            ResumeAccept(g) \/ ResumeConnect(g) \/ TransferReturns(g) \/ SendsRest(g)
      BY <2>5 DEF ResumeStep
    <3>2. CASE ResumeAccept(g)
      <4>1. \E b \in freeConns : Registers(b, accept.result)
        BY <2>1, <3>2 DEF ResumeAccept
      <4> QED BY <1>1, <2>0, <4>1, RegistersKeepsGen
    <3>3. CASE ResumeConnect(g)
      <4>1. Disconnects(g)
        BY <2>1, <3>3 DEF ResumeConnect
      <4>2. call[g].kind = "connect" /\ ConnectOK(g)
        BY <1>1, <3>3 DEF ResumeConnect, ConnsInv, CallsOK
      <4>3. call[g].conn \in Conns \ freeConns
        BY <1>1, <4>2, ConnsAssumption DEF ConnectOK, Live, Desc, ConnsInv, ConnsOK
      <4> QED BY <1>1, <2>0, <4>1, <4>3, ReleaseOfOne DEF Disconnects
    <3>4. CASE TransferReturns(g)
      BY <2>1, <3>4 DEF TransferReturns
    <3>5. CASE SendsRest(g)
      <4>1. PICK b \in Conns : b = call[g].conn
        BY <1>1, <3>5 DEF SendsRest, ConnsInv, CallsOK, TransferOK, Transfers
      <4> DEFINE q == With(conn[b], "writing", g, conn[b].pending + 1, conn[b].result)
      <4>2. conn' = [conn EXCEPT ![b] = q] /\ q.gen = conn[b].gen
        BY <2>0, <3>5, <4>1 DEF SendsRest, Transfer, With, Types
      <4> HIDE DEF q
      <4> QED BY <1>1, <2>0, <4>2, SameGen
    <3> QED BY <3>1, <3>2, <3>3, <3>4, <3>5
  <2> QED BY <1>1, <2>1, <2>3, <2>4, <2>5 DEF Next, connVars
<1>2. ConnsInv /\ [Next]_vars => [\A c \in Conns : Released(c) => Once(c)]_vars
  BY <1>1
<1> QED BY <1>2, ConnsInvAlways, PTL DEF Spec, ReleasedOnce

-----------------------------------------------------------------------------
(***************************************************************************)
(* Greenlets that share descriptors and throw into each other's calls, as  *)
(* programs that use the hub directly may.  First a program that does not  *)
(* call green_connect: the fd map is its own inductive invariant.          *)
(***************************************************************************)

(* Connections and SQEs when greenlets share descriptors: a cancel may be  *)
(* queued, and a throw may take off one pending operation too many.        *)
SharedConn ==
  [desc : Desc \cup {NoDesc}, state : ConnStates, gen : Nat,
   greenlet : Greenlets \cup {None}, pending : Int, result : Nat]
SharedSqe ==
  [kind : SqeKinds \cup {"cancel"}, conn : Conns \cup {None}, gen : Nat,
   desc : Desc \cup {NoDesc}, op : Nat, link : {FALSE}]

(* Who transfers waits for a connection, who connects for a descriptor.    *)
CallsTyped ==
  \A g \in Greenlets :
    /\ call[g].kind \in Transfers => call[g].conn \in Conns
    /\ call[g].kind = "connect" => call[g].desc \in Desc

SharedTypes ==
  /\ conn \in [Conns -> SharedConn]
  /\ freeConns \in SUBSET Conns
  /\ fdToConn \in [Fds -> Conns \cup {None}]
  /\ accept \in AcceptRecord
  /\ call \in [Greenlets -> CallRecord]
  /\ CallsTyped
  /\ own \in [Greenlets -> SUBSET Desc]
  /\ files \in Nat /\ ops \in Nat
  /\ sq \subseteq SharedSqe /\ inflight \subseteq SharedSqe

(* An fd maps to its own connection, and a free connection is neither      *)
(* closing nor about to: no completion can release it.                     *)
MapOK ==
  /\ FdMapSound
  /\ \A c \in freeConns : conn[c].state \notin {"cancelling", "closing"}

(* The socket of a green_connect under way is still registered for it.     *)
ConnectsOK ==
  \A g \in Greenlets : call[g].kind = "connect" =>
    call[g].conn \in Conns \ freeConns /\ conn[call[g].conn].desc = call[g].desc

PoolTypes ==
  /\ conn \in [Conns -> SharedConn]
  /\ freeConns \in SUBSET Conns
  /\ fdToConn \in [Fds -> Conns \cup {None}]

(* A step releases no free connection.                                     *)
Steady == \A c \in freeConns : conn'[c].gen = conn[c].gen

(* An operation changes what a connection is doing, not what it is for.    *)
LEMMA UpdateMap ==
  ASSUME SharedTypes, MapOK, NEW c \in Conns, NEW r \in SharedConn,
         conn' = [conn EXCEPT ![c] = r],
         r.desc = conn[c].desc, r.gen = conn[c].gen,
         r.state \in {"cancelling", "closing"} => c \notin freeConns,
         freeConns' = freeConns, fdToConn' = fdToConn
  PROVE  MapOK' /\ PoolTypes' /\ Steady
<1>1. conn \in [Conns -> SharedConn] /\ conn' \in [Conns -> SharedConn] /\ freeConns \subseteq Conns
  BY DEF SharedTypes
<1>2. \A b \in Conns : conn'[b] = IF b = c THEN r ELSE conn[b]
  BY <1>1
<1>3. FdMapSound'
  BY <1>2 DEF MapOK, FdMapSound, SharedTypes
<1>4. \A b \in freeConns' : conn'[b].state \notin {"cancelling", "closing"}
  BY <1>1, <1>2 DEF MapOK
<1>5. Steady
  BY <1>1, <1>2 DEF Steady
<1> QED BY <1>1, <1>3, <1>4, <1>5 DEF MapOK, PoolTypes, SharedTypes

(* A connection that is not free is given back.                            *)
LEMMA ReleaseMap ==
  ASSUME SharedTypes, MapOK, NEW c \in Conns \ freeConns,
         conn' = [conn EXCEPT ![c] = ReleasedConn(c)],
         freeConns' = freeConns \cup {c},
         fdToConn' = [fdToConn EXCEPT ![conn[c].desc.fd] = None]
  PROVE  MapOK' /\ PoolTypes' /\ Steady
<1>1. conn \in [Conns -> SharedConn] /\ freeConns \subseteq Conns
      /\ fdToConn \in [Fds -> Conns \cup {None}]
  BY DEF SharedTypes
<1> DEFINE r == ReleasedConn(c)
<1>2. r \in SharedConn /\ r.state = "idle"
  BY <1>1 DEF ReleasedConn, SharedConn, ConnStates, NoDesc
<1> HIDE DEF r
<1>3. \A b \in Conns : conn'[b] = IF b = c THEN r ELSE conn[b]
  BY <1>1 DEF r
<1>4. \A fd \in Fds : fdToConn'[fd] = IF fd = conn[c].desc.fd THEN None ELSE fdToConn[fd]
  BY <1>1
<1>5. PoolTypes'
  BY <1>1, <1>2 DEF PoolTypes, r
<1>6. FdMapSound'
  BY <1>3, <1>4, <1>1 DEF MapOK, FdMapSound
<1>7. \A b \in freeConns' : conn'[b].state \notin {"cancelling", "closing"}
  BY <1>1, <1>2, <1>3 DEF MapOK
<1>8. Steady
  BY <1>1, <1>3 DEF Steady
<1> QED BY <1>5, <1>6, <1>7, <1>8 DEF MapOK

(* A free connection is taken for a descriptor.                            *)
LEMMA RegistersMap ==
  ASSUME SharedTypes, MapOK, NEW c \in freeConns, NEW d \in Desc, Registers(c, d)
  PROVE  MapOK' /\ PoolTypes' /\ Steady
<1>1. conn \in [Conns -> SharedConn] /\ c \in Conns /\ freeConns \subseteq Conns
      /\ fdToConn \in [Fds -> Conns \cup {None}] /\ c # None /\ d.fd \in Fds
  BY ConnsAssumption DEF SharedTypes, Desc
<1> DEFINE r == [desc |-> d, state |-> "idle", gen |-> conn[c].gen,
                 greenlet |-> conn[c].greenlet, pending |-> 0, result |-> 0]
<1>2. r \in SharedConn /\ r.state = "idle" /\ r.desc = d /\ r.gen = conn[c].gen
  BY <1>1 DEF SharedConn, ConnStates
<1>3. conn' = [conn EXCEPT ![c] = r] /\ freeConns' = freeConns \ {c}
      /\ fdToConn' = [fdToConn EXCEPT ![d.fd] = c]
  BY <1>1 DEF Registers
<1> HIDE DEF r
<1>4. \A b \in Conns : conn'[b] = IF b = c THEN r ELSE conn[b]
  BY <1>1, <1>3
<1>5. \A fd \in Fds : fdToConn'[fd] = IF fd = d.fd THEN c ELSE fdToConn[fd]
  BY <1>1, <1>3
<1>6. PoolTypes'
  BY <1>1, <1>2, <1>3 DEF PoolTypes
<1>7. FdMapSound'
  BY <1>1, <1>2, <1>3, <1>4, <1>5 DEF MapOK, FdMapSound
<1>8. \A b \in freeConns' : conn'[b].state \notin {"cancelling", "closing"}
  BY <1>1, <1>3, <1>4 DEF MapOK
<1>9. Steady
  BY <1>1, <1>2, <1>4 DEF Steady
<1> QED BY <1>6, <1>7, <1>8, <1>9 DEF MapOK

(* The SQE that is queued.                                                 *)
LEMMA SqeTyped ==
  ASSUME SharedTypes, NEW e \in SharedSqe, Queues(e)
  PROVE  sq' \subseteq SharedSqe /\ ops' \in Nat
BY DEF SharedTypes, Queues

(* submitClose of a connection that is not free.                           *)
LEMMA SubmitCloseMap ==
  ASSUME SharedTypes, MapOK, NEW c \in Conns \ freeConns, NEW r \in SharedConn,
         r.desc = conn[c].desc, r.gen = conn[c].gen, SubmitClose(c, r)
  PROVE  MapOK' /\ PoolTypes' /\ Steady /\ sq' \subseteq SharedSqe /\ ops' \in Nat
<1>1. CASE HasRoom(1)
  <2> DEFINE q == With(r, "closing", r.greenlet, r.pending + 1, r.result)
             e == ForConn("close", c, r.desc)
  <2>1. q \in SharedConn /\ q.desc = conn[c].desc /\ q.gen = conn[c].gen
    BY DEF With, SharedConn, ConnStates
  <2>2. e \in SharedSqe
    BY DEF ForConn, Sqe, SharedSqe, SqeKinds, Closes, SharedTypes, SharedConn
  <2>3. conn' = [conn EXCEPT ![c] = q] /\ Queues(e) /\ UNCHANGED <<freeConns, fdToConn>>
    BY <1>1 DEF SubmitClose
  <2> HIDE DEF q, e
  <2> QED BY <2>1, <2>2, <2>3, UpdateMap, SqeTyped
<1>2. CASE ~HasRoom(1)
  <2>1. Release(c) /\ UNCHANGED <<sq, ops>>
    BY <1>2 DEF SubmitClose
  <2> QED BY <2>1, ReleaseMap DEF Release, SharedTypes
<1> QED BY <1>1, <1>2

(* What a step must do to keep the types and the map.                      *)
StepKeepsMap == SharedTypes' /\ MapOK' /\ (Steady \/ \E g \in Greenlets : ConnectFails(g))

(* The steps of a running greenlet that queue no operation.                *)
LEMMA QuietCallMap ==
  ASSUME SharedTypes, MapOK, NEW g \in Greenlets,
         \/ \E fd \in Fds : OpenFile(g, fd)
         \/ ConnectFails(g)
         \/ \E d \in Descs : \/ \E h \in Greenlets : Spawn(g, h, d)
                             \/ RegisterFd(g, d)
                             \/ UnregisterFd(g, d)
  PROVE  StepKeepsMap
<1>0. \A d \in Descs : d \in Desc /\ d.fd \in Fds
  BY DEF Descs, SharedTypes, Desc
<1>1. CASE \E fd \in Fds : OpenFile(g, fd)
  <2>1. PICK fd \in Fds : OpenFile(g, fd)
    BY <1>1
  <2>2. UNCHANGED <<conn, freeConns, fdToConn, accept, call, sq, inflight, ops>>
    BY <2>1 DEF OpenFile, loopVars, connVars
  <2>3. files' \in Nat /\ own' \in [Greenlets -> SUBSET Desc]
    BY <2>1 DEF OpenFile, Opens, SharedTypes, Desc
  <2> QED BY <2>2, <2>3 DEF CallsTyped, StepKeepsMap, SharedTypes, MapOK, FdMapSound, Steady
<1>2. CASE ConnectFails(g)
  <2>1. PICK c \in freeConns : conn' = [conn EXCEPT ![c] = ReleasedConn(c)]
    BY <1>2 DEF ConnectFails
  <2>2. UNCHANGED <<freeConns, fdToConn, accept, call, own, files, sq, inflight, ops>>
    BY <1>2 DEF ConnectFails, loopVars, envVars
  <2>3. c \in Conns /\ ReleasedConn(c) \in SharedConn /\ ReleasedConn(c).state = "idle"
    BY DEF SharedTypes, ReleasedConn, SharedConn, ConnStates, NoDesc
  <2>4. \A b \in Conns : conn'[b] = IF b = c THEN ReleasedConn(c) ELSE conn[b]
    BY <2>1, <2>3 DEF SharedTypes
  <2>5. SharedTypes'
    BY <2>1, <2>2, <2>3 DEF CallsTyped, SharedTypes
  <2>6. MapOK'
    BY <2>2, <2>3, <2>4 DEF MapOK, FdMapSound, SharedTypes
  <2> QED BY <1>2, <2>5, <2>6 DEF StepKeepsMap
<1>3. ASSUME NEW d \in Descs, \E h \in Greenlets : Spawn(g, h, d)
      PROVE  StepKeepsMap
  <2>1. UNCHANGED <<conn, freeConns, fdToConn, accept, call, sq, inflight, ops, files>>
    BY <1>3 DEF Spawn, Schedule, connVars
  <2>2. own' \in [Greenlets -> SUBSET Desc]
    BY <1>0, <1>3 DEF Spawn, SharedTypes
  <2> QED BY <2>1, <2>2 DEF CallsTyped, StepKeepsMap, SharedTypes, MapOK, FdMapSound, Steady
<1>4. ASSUME NEW d \in Descs, RegisterFd(g, d)
      PROVE  StepKeepsMap
  <2>1. PICK c \in freeConns : Registers(c, d)
    BY <1>4 DEF RegisterFd
  <2>2. MapOK' /\ PoolTypes' /\ Steady
    BY <1>0, <2>1, RegistersMap
  <2>3. UNCHANGED <<accept, call, own, files, sq, inflight, ops>>
    BY <1>4 DEF RegisterFd, loopVars, envVars
  <2> QED BY <2>2, <2>3 DEF CallsTyped, StepKeepsMap, SharedTypes, PoolTypes
<1>5. ASSUME NEW d \in Descs, UnregisterFd(g, d)
      PROVE  StepKeepsMap
  <2>1. PICK c \in Conns \ freeConns : Release(c)
    BY <1>0, <1>5 DEF UnregisterFd, MapOK, FdMapSound, SharedTypes
  <2>2. MapOK' /\ PoolTypes' /\ Steady
    BY <2>1, ReleaseMap DEF Release
  <2>3. UNCHANGED <<accept, call, own, files, sq, inflight, ops>>
    BY <1>5 DEF UnregisterFd, envVars
  <2> QED BY <2>2, <2>3 DEF CallsTyped, StepKeepsMap, SharedTypes, PoolTypes
<1> QED BY <1>1, <1>2, <1>3, <1>4, <1>5

(* A suspended call.                                                       *)
LEMMA SuspendedTyped ==
  ASSUME SharedTypes, NEW g \in Greenlets, NEW kind \in CallKinds, NEW c \in Conns \cup {None},
         NEW d \in Desc \cup {NoDesc}, Suspends(g, kind, c, d), kind \in Transfers => c \in Conns,
         kind = "connect" => d \in Desc
  PROVE  call' \in [Greenlets -> CallRecord] /\ CallsTyped'
<1> DEFINE r == [kind |-> kind, conn |-> c, op |-> ops + 1, desc |-> d]
<1>1. r \in CallRecord /\ r.kind = kind /\ r.conn = c
  BY DEF CallRecord, SharedTypes
<1>2. call' = [call EXCEPT ![g] = r]
  BY DEF Suspends
<1>4. r.desc = d
  OBVIOUS
<1> HIDE DEF r
<1>3. \A h \in Greenlets : call'[h] = IF h = g THEN r ELSE call[h]
  BY <1>2 DEF SharedTypes
<1> QED BY <1>1, <1>2, <1>3, <1>4 DEF SharedTypes, CallsTyped

(* A transfer is queued on any connection.                                 *)
LEMMA TransferMap ==
  ASSUME SharedTypes, MapOK, NEW g \in Greenlets, NEW kind \in Transfers, NEW c \in Conns,
         NEW d \in Desc \cup {NoDesc}, Transfer(g, kind, c, d),
         UNCHANGED <<freeConns, fdToConn, accept, own, files, inflight>>
  PROVE  SharedTypes' /\ MapOK' /\ Steady
<1> DEFINE r == With(conn[c], IF kind = "recv" THEN "reading" ELSE "writing", g,
                     conn[c].pending + 1, conn[c].result)
           e == ForConn(kind, c, d)
<1>1. conn[c] \in SharedConn
  BY DEF SharedTypes
<1>2. r \in SharedConn /\ r.desc = conn[c].desc /\ r.gen = conn[c].gen
      /\ r.state \notin {"cancelling", "closing"}
  BY <1>1 DEF With, SharedConn, ConnStates
<1>3. e \in SharedSqe
  BY <1>1 DEF ForConn, Sqe, SharedSqe, SqeKinds, SharedTypes, SharedConn
<1>4. conn' = [conn EXCEPT ![c] = r] /\ Queues(e) /\ Suspends(g, kind, c, d)
  BY DEF Transfer, SharedTypes
<1> HIDE DEF r, e
<1>5. MapOK' /\ PoolTypes' /\ Steady
  BY <1>2, <1>4, UpdateMap
<1>6. sq' \subseteq SharedSqe /\ ops' \in Nat
  BY <1>3, <1>4, SqeTyped
<1>7. call' \in [Greenlets -> CallRecord] /\ CallsTyped'
  BY <1>4, SuspendedTyped DEF CallKinds, Transfers
<1> QED BY <1>5, <1>6, <1>7 DEF SharedTypes, PoolTypes

(* green_recv, green_send and green_accept.                                *)
LEMMA WaitingCallMap ==
  ASSUME SharedTypes, MapOK, NEW g \in Greenlets,
         \/ Accept(g)
         \/ \E d \in Descs : \E kind \in Transfers : RecvOrSend(g, kind, d)
  PROVE  SharedTypes' /\ MapOK' /\ Steady
<1>1. CASE Accept(g)
  <2> DEFINE e == Sqe("accept", None, 0, NoDesc)
  <2>1. e \in SharedSqe
    BY DEF Sqe, SharedSqe, SqeKinds, SharedTypes
  <2>2. Queues(e) /\ Suspends(g, "accept", None, NoDesc)
    BY <1>1 DEF Accept
  <2> HIDE DEF e
  <2>3. sq' \subseteq SharedSqe /\ ops' \in Nat
    BY <2>1, <2>2, SqeTyped
  <2>4. call' \in [Greenlets -> CallRecord] /\ CallsTyped'
    BY <2>2, SuspendedTyped DEF CallKinds, Transfers
  <2>5. accept' \in AcceptRecord
    BY <1>1 DEF Accept, AcceptRecord, SharedTypes
  <2>6. UNCHANGED <<conn, freeConns, fdToConn, own, files, inflight>>
    BY <1>1 DEF Accept, envVars
  <2> QED BY <2>3, <2>4, <2>5, <2>6 DEF SharedTypes, MapOK, FdMapSound, Steady
<1>2. ASSUME NEW d \in Descs, NEW kind \in Transfers, RecvOrSend(g, kind, d)
      PROVE  SharedTypes' /\ MapOK' /\ Steady
  <2>1. d \in Desc
    BY DEF Descs, SharedTypes
  <2>2. PICK c \in Conns : Transfer(g, kind, c, d)
    BY <1>2, <2>1 DEF RecvOrSend, SharedTypes, Desc
  <2>3. UNCHANGED <<freeConns, fdToConn, accept, own, files, inflight>>
    BY <1>2 DEF RecvOrSend, envVars
  <2> QED BY <2>1, <2>2, <2>3, TransferMap
<1> QED BY <1>1, <1>2

(* green_close.                                                            *)
LEMMA CloseMap ==
  ASSUME SharedTypes, MapOK, NEW g \in Greenlets, NEW d \in Descs, Close(g, d)
  PROVE  SharedTypes' /\ MapOK' /\ Steady
<1>0. d \in Desc /\ d.fd \in Fds /\ (fdToConn[d.fd] # None => fdToConn[d.fd] \in Conns \ freeConns)
  BY DEF Descs, SharedTypes, Desc, MapOK, FdMapSound
<1>1. UNCHANGED <<inflight, accept, call, files>> /\ own' \in [Greenlets -> SUBSET Desc]
  BY DEF Close, SharedTypes
<1>2. MapOK' /\ PoolTypes' /\ Steady /\ sq' \subseteq SharedSqe /\ ops' \in Nat
  <2>1. CASE CloseUntracked(g, d)
    <3>1. UNCHANGED <<conn, freeConns, fdToConn>>
      BY <2>1 DEF CloseUntracked
    <3>2. Sqe("rawclose", None, 0, d) \in SharedSqe
      BY <1>0 DEF Sqe, SharedSqe, SqeKinds, Closes, SharedTypes
    <3>3. sq' \subseteq SharedSqe /\ ops' \in Nat
      BY <2>1, <3>2, SqeTyped DEF CloseUntracked, SharedTypes
    <3> QED BY <3>1, <3>3 DEF SharedTypes, PoolTypes, MapOK, FdMapSound, Steady
  <2>2. CASE CloseIdle(g, d)
    <3>1. PICK c \in Conns \ freeConns : SubmitClose(c, conn[c])
      BY <1>0, <2>2 DEF CloseIdle
    <3>2. conn[c] \in SharedConn
      BY DEF SharedTypes
    <3> QED BY <3>1, <3>2, SubmitCloseMap
  <2>3. CASE CloseBusy(g, d)
    <3>1. PICK c \in Conns \ freeConns : c = fdToConn[d.fd]
      BY <1>0, <2>3 DEF CloseBusy
    <3> DEFINE r == [conn[c] EXCEPT !.state = "cancelling"]
               e == Sqe("cancel", Conn0, 0, NoDesc)
    <3>2. conn[c] \in SharedConn
      BY DEF SharedTypes
    <3>3. r \in SharedConn /\ r.desc = conn[c].desc /\ r.gen = conn[c].gen
      BY <3>2 DEF SharedConn, ConnStates
    <3>4. e \in SharedSqe
      BY ConnsAssumption DEF Sqe, SharedSqe, SharedTypes
    <3>5. \/ /\ conn' = [conn EXCEPT ![c] = r] /\ Queues(e) /\ UNCHANGED <<freeConns, fdToConn>>
          \/ SubmitClose(c, r)
      BY <2>3, <3>1 DEF CloseBusy
    <3> HIDE DEF r, e
    <3>6. CASE conn' = [conn EXCEPT ![c] = r] /\ Queues(e) /\ UNCHANGED <<freeConns, fdToConn>>
      BY <3>3, <3>4, <3>6, UpdateMap, SqeTyped
    <3> QED BY <3>3, <3>5, <3>6, SubmitCloseMap
  <2> QED BY <2>1, <2>2, <2>3 DEF Close
<1> QED BY <1>1, <1>2 DEF CallsTyped, SharedTypes, PoolTypes

(* green_connect takes a free connection.                                  *)
LEMMA ConnectMap ==
  ASSUME SharedTypes, MapOK, NEW g \in Greenlets, NEW fd \in Fds, Connect(g, fd)
  PROVE  SharedTypes' /\ MapOK' /\ Steady
<1> DEFINE d == [fd |-> fd, file |-> files + 1]
           e == Sqe("connect", None, 0, d)
<1>1. d \in Desc
  BY DEF Desc, SharedTypes
<1>2. e \in SharedSqe
  BY <1>1 DEF Sqe, SharedSqe, SqeKinds, SharedTypes
<1>3. PICK c \in freeConns : Registers(c, d) /\ Queues(e) /\ Suspends(g, "connect", c, d)
  BY DEF Connect
<1>4. UNCHANGED <<inflight, accept, own>> /\ files' \in Nat
  BY DEF Connect, Opens, SharedTypes
<1> HIDE DEF d, e
<1>5. MapOK' /\ PoolTypes' /\ Steady
  BY <1>1, <1>3, RegistersMap
<1>6. sq' \subseteq SharedSqe /\ ops' \in Nat
  BY <1>2, <1>3, SqeTyped
<1>7. c \in Conns
  BY DEF SharedTypes
<1>8. call' \in [Greenlets -> CallRecord] /\ CallsTyped'
  BY <1>1, <1>3, <1>7, SuspendedTyped DEF CallKinds
<1> QED BY <1>4, <1>5, <1>6, <1>8 DEF SharedTypes, PoolTypes

(* A call that is over is forgotten.                                       *)
LEMMA CallForgotten ==
  ASSUME SharedTypes, NEW g \in Greenlets, call' = [call EXCEPT ![g] = NoCall]
  PROVE  call' \in [Greenlets -> CallRecord] /\ CallsTyped'
<1>1. NoCall \in CallRecord /\ NoCall.kind \notin Transfers /\ NoCall.kind # "connect"
  BY DEF NoCall, CallRecord, CallKinds, Transfers
<1>2. \A h \in Greenlets : call'[h] = IF h = g THEN NoCall ELSE call[h]
  BY DEF SharedTypes
<1> QED BY <1>1, <1>2 DEF SharedTypes, CallsTyped

(* green_connect gives up a socket that is still its own.                  *)
LEMMA DisconnectsMap ==
  ASSUME SharedTypes, MapOK, ConnectsOK, NEW g \in Greenlets, call[g].kind = "connect",
         Disconnects(g)
  PROVE  MapOK' /\ PoolTypes' /\ Steady
<1>1. PICK c \in Conns \ freeConns : c = call[g].conn /\ conn[c].desc = call[g].desc
  BY DEF ConnectsOK
<1>2. /\ conn' = [conn EXCEPT ![c] = ReleasedConn(c)]
      /\ freeConns' = freeConns \cup {c}
      /\ fdToConn' = [fdToConn EXCEPT ![conn[c].desc.fd] = None]
  BY <1>1 DEF Disconnects
<1> QED BY <1>2, ReleaseMap

(* A throw into a suspended greenlet.                                      *)
LEMMA ThrowMap ==
  ASSUME SharedTypes, MapOK, ConnectsOK, NEW k \in Greenlets, NEW v \in Greenlets, Throw(k, v)
  PROVE  SharedTypes' /\ MapOK' /\ Steady
<1>1. UNCHANGED <<sq, inflight, accept, own, files, ops>> /\ call' = [call EXCEPT ![v] = NoCall]
  BY DEF Throw
<1>2. MapOK' /\ PoolTypes' /\ Steady
  <2>1. CASE call[v].kind \in Transfers /\ conn[call[v].conn].greenlet # None
    <3>1. PICK c \in Conns : c = call[v].conn
      BY <2>1 DEF CallsTyped, SharedTypes
    <3> DEFINE r == With(conn[c], "idle", None, conn[c].pending - 1, conn[c].result)
    <3>2. conn[c] \in SharedConn
      BY DEF SharedTypes
    <3>3. r \in SharedConn /\ r.desc = conn[c].desc /\ r.gen = conn[c].gen /\ r.state = "idle"
      BY <3>2 DEF With, SharedConn, ConnStates
    <3>4. conn' = [conn EXCEPT ![c] = r] /\ UNCHANGED <<freeConns, fdToConn>>
      BY <2>1, <3>1 DEF Throw, ThrowCleansUp, SharedTypes, Transfers
    <3> HIDE DEF r
    <3> QED BY <3>3, <3>4, UpdateMap
  <2>2. CASE call[v].kind = "connect"
    <3>1. Disconnects(v)
      BY <2>2 DEF Throw, ThrowCleansUp, Transfers
    <3> QED BY <2>2, <3>1, DisconnectsMap
  <2>3. CASE ~(call[v].kind \in Transfers /\ conn[call[v].conn].greenlet # None)
             /\ call[v].kind # "connect"
    <3>1. UNCHANGED <<conn, freeConns, fdToConn>>
      BY <2>3 DEF Throw, ThrowCleansUp
    <3> QED BY <3>1 DEF SharedTypes, PoolTypes, MapOK, FdMapSound, Steady
  <2> QED BY <2>1, <2>2, <2>3
<1>3. call' \in [Greenlets -> CallRecord] /\ CallsTyped'
  BY <1>1, CallForgotten
<1> QED BY <1>1, <1>2, <1>3 DEF SharedTypes, PoolTypes

(* A completion that finds its connection.                                 *)
LEMMA CompletedTyped ==
  ASSUME SharedTypes, NEW e \in inflight, Lookup(e)
  PROVE  /\ e.conn \in Conns /\ e.op \in Nat
         /\ Completed(e) \in SharedConn
         /\ Completed(e).desc = conn[e.conn].desc
         /\ Completed(e).gen = conn[e.conn].gen
         /\ Completed(e).state = conn[e.conn].state
<1>1. e \in SharedSqe
  BY DEF SharedTypes
<1>2. e.conn \in Conns /\ e.op \in Nat
  BY <1>1 DEF SharedSqe, Lookup
<1> DEFINE p == IF conn[e.conn].pending > 0 THEN conn[e.conn].pending - 1 ELSE 0
<1>3. conn[e.conn] \in SharedConn
  BY <1>2 DEF SharedTypes
<1>4. p \in Int
  BY <1>3 DEF SharedConn
<1>5. Completed(e) = With(conn[e.conn], conn[e.conn].state, conn[e.conn].greenlet, p, e.op)
  BY DEF Completed
<1> HIDE DEF p
<1> QED BY <1>2, <1>3, <1>4, <1>5 DEF With, SharedConn

(* The loop reaps a completion.                                            *)
LEMMA ReapMap ==
  ASSUME SharedTypes, MapOK, NEW e \in inflight,
         \/ ReapAccept(e) \/ ReapConnect(e) \/ ReapIgnored(e)
         \/ ReapCancelling(e) \/ ReapClosing(e) \/ ReapTransfer(e)
  PROVE  SharedTypes' /\ MapOK' /\ Steady
<1>1. Reaps(e)
  BY DEF ReapAccept, ReapConnect, ReapIgnored, ReapCancelling, ReapClosing, ReapTransfer, ReapsConn
<1>2. inflight' \subseteq SharedSqe /\ UNCHANGED <<call, own>>
  BY <1>1 DEF Reaps, SharedTypes
<1>3. CASE ReapAccept(e)
  <2>1. UNCHANGED <<conn, freeConns, fdToConn, sq, ops>>
    BY <1>3 DEF ReapAccept
  <2>2. files' \in Nat /\ accept' \in AcceptRecord
    <3>1. CASE \E fd \in Fds :
                 /\ Opens(fd)
                 /\ accept' = [greenlet |-> None, pending |-> FALSE,
                               result |-> [fd |-> fd, file |-> files + 1]]
      BY <3>1 DEF Opens, AcceptRecord, SharedTypes, Desc
    <3>2. CASE accept' = [greenlet |-> None, pending |-> FALSE, result |-> NoDesc]
               /\ UNCHANGED <<file, files>>
      BY <3>2 DEF AcceptRecord, SharedTypes
    <3> QED BY <1>3, <3>1, <3>2 DEF ReapAccept
  <2> QED BY <1>2, <2>1, <2>2 DEF CallsTyped, SharedTypes, MapOK, FdMapSound, Steady
<1>4. CASE ReapConnect(e) \/ ReapIgnored(e)
  <2>1. UNCHANGED <<conn, freeConns, fdToConn, accept, files, sq, ops>>
    BY <1>4 DEF ReapConnect, ReapIgnored, Executes
  <2> QED BY <1>2, <2>1 DEF CallsTyped, SharedTypes, MapOK, FdMapSound, Steady
<1>5. ASSUME ReapsConn(e),
             MapOK' /\ PoolTypes' /\ Steady /\ sq' \subseteq SharedSqe /\ ops' \in Nat
      PROVE  SharedTypes' /\ MapOK' /\ Steady
  BY <1>2, <1>5 DEF CallsTyped, ReapsConn, Executes, SharedTypes, PoolTypes
<1>6. CASE ReapCancelling(e)
  <2>1. ReapsConn(e) /\ Lookup(e) /\ conn[e.conn].state = "cancelling"
    BY <1>6 DEF ReapCancelling, ReapsConn
  <2>2. PICK c \in Conns \ freeConns : c = e.conn
    BY <2>1, CompletedTyped DEF MapOK
  <2>3. CASE Completed(e).pending = 0
    <3>1. SubmitClose(c, Completed(e))
      BY <1>6, <2>2, <2>3 DEF ReapCancelling
    <3> QED BY <1>5, <2>1, <2>2, <3>1, CompletedTyped, SubmitCloseMap
  <2>4. CASE Completed(e).pending # 0
    <3>1. conn' = [conn EXCEPT ![c] = Completed(e)] /\ UNCHANGED <<freeConns, fdToConn, sq, ops>>
      BY <1>6, <2>2, <2>4 DEF ReapCancelling
    <3>2. MapOK' /\ PoolTypes' /\ Steady
      BY <2>1, <2>2, <3>1, CompletedTyped, UpdateMap
    <3> QED BY <1>5, <2>1, <3>1, <3>2 DEF SharedTypes
  <2> QED BY <2>3, <2>4
<1>7. CASE ReapClosing(e)
  <2>1. ReapsConn(e) /\ Lookup(e) /\ conn[e.conn].state = "closing" /\ UNCHANGED <<sq, ops>>
    BY <1>7 DEF ReapClosing, ReapsConn
  <2>2. PICK c \in Conns \ freeConns : c = e.conn
    BY <2>1, CompletedTyped DEF MapOK
  <2>3. MapOK' /\ PoolTypes' /\ Steady
    BY <1>7, <2>2, ReleaseMap DEF ReapClosing, Release
  <2> QED BY <1>5, <2>1, <2>3 DEF SharedTypes
<1>8. CASE ReapTransfer(e)
  <2>1. ReapsConn(e) /\ Lookup(e) /\ UNCHANGED <<freeConns, fdToConn, sq, ops>>
    BY <1>8 DEF ReapTransfer, ReapsConn
  <2>2. PICK c \in Conns : c = e.conn
    BY <2>1, CompletedTyped
  <2>3. e.op \in Nat /\ Completed(e) \in SharedConn /\ conn[c] \in SharedConn
    BY <2>1, CompletedTyped DEF SharedTypes
  <2> DEFINE r == With(conn[c], "idle", None, Completed(e).pending, e.op)
  <2>4. r \in SharedConn /\ r.desc = conn[c].desc /\ r.gen = conn[c].gen /\ r.state = "idle"
    BY <2>3 DEF With, SharedConn, ConnStates
  <2>5. conn' = [conn EXCEPT ![c] = r]
    BY <1>8, <2>2 DEF ReapTransfer, SharedTypes
  <2> HIDE DEF r
  <2>6. MapOK' /\ PoolTypes' /\ Steady
    BY <2>1, <2>4, <2>5, UpdateMap
  <2> QED BY <1>5, <2>1, <2>6 DEF SharedTypes
<1> QED BY <1>3, <1>4, <1>6, <1>7, <1>8

(* A suspended greenlet goes on.                                           *)
LEMMA ResumeMap ==
  ASSUME SharedTypes, MapOK, ConnectsOK, NEW g \in Greenlets,
         ResumeAccept(g) \/ ResumeConnect(g) \/ TransferReturns(g) \/ SendsRest(g)
  PROVE  SharedTypes' /\ MapOK' /\ Steady
<1>1. CASE SendsRest(g)
  <2>1. PICK c \in Conns : c = call[g].conn
    BY <1>1 DEF CallsTyped, SendsRest, SharedTypes, Transfers
  <2>2. call[g].desc \in Desc \cup {NoDesc}
    BY DEF SharedTypes, CallRecord
  <2>3. Transfer(g, "send", c, call[g].desc)
        /\ UNCHANGED <<freeConns, fdToConn, accept, own, files, inflight>>
    BY <1>1, <2>1 DEF SendsRest, Resumes, envVars
  <2> QED BY <2>2, <2>3, TransferMap DEF Transfers
<1>2. ASSUME UNCHANGED <<accept, inflight, files>>, Returns(g), own' \in [Greenlets -> SUBSET Desc],
             MapOK' /\ PoolTypes' /\ Steady
      PROVE  SharedTypes' /\ MapOK' /\ Steady
  <2>1. call' \in [Greenlets -> CallRecord] /\ CallsTyped'
    BY <1>2, CallForgotten DEF Returns
  <2> QED BY <1>2, <2>1 DEF Returns, SharedTypes, PoolTypes
<1>3. ASSUME UNCHANGED <<conn, freeConns, fdToConn>> PROVE MapOK' /\ PoolTypes' /\ Steady
  BY <1>3 DEF SharedTypes, PoolTypes, MapOK, FdMapSound, Steady
<1>4. CASE TransferReturns(g)
  BY <1>2, <1>3, <1>4 DEF TransferReturns, Resumes, envVars, SharedTypes
<1>5. CASE ResumeConnect(g)
  <2>1. UNCHANGED <<accept, inflight, files>> /\ Returns(g) /\ call[g].kind = "connect"
    BY <1>5 DEF ResumeConnect, Resumes
  <2>2. CASE Disconnects(g) /\ UNCHANGED own
    BY <1>2, <2>1, <2>2, DisconnectsMap DEF SharedTypes
  <2>3. CASE own' = [own EXCEPT ![g] = @ \cup {call[g].desc}]
             /\ UNCHANGED <<conn, freeConns, fdToConn, file>>
    <3>1. own' \in [Greenlets -> SUBSET Desc]
      BY <2>1, <2>3 DEF CallsTyped, SharedTypes
    <3> QED BY <1>2, <1>3, <2>1, <2>3, <3>1
  <2> QED BY <1>5, <2>2, <2>3 DEF ResumeConnect
<1>6. CASE ResumeAccept(g)
  <2>1. UNCHANGED <<accept, inflight, files>> /\ Returns(g)
    BY <1>6 DEF ResumeAccept, Resumes
  <2>2. accept.result \in Desc \cup {NoDesc}
    BY DEF SharedTypes, AcceptRecord
  <2>3. own' \in [Greenlets -> SUBSET Desc]
    BY <1>6, <2>2 DEF ResumeAccept, SharedTypes
  <2>4. CASE accept.result # NoDesc /\ freeConns # {}
    <3>1. PICK c \in freeConns : Registers(c, accept.result)
      BY <1>6, <2>4 DEF ResumeAccept
    <3>2. MapOK' /\ PoolTypes' /\ Steady
      BY <2>2, <2>4, <3>1, RegistersMap
    <3> QED BY <1>2, <2>1, <2>3, <3>2
  <2>5. CASE ~(accept.result # NoDesc /\ freeConns # {})
    <3>1. UNCHANGED <<conn, freeConns, fdToConn>>
      BY <1>6, <2>5 DEF ResumeAccept
    <3> QED BY <1>2, <1>3, <2>1, <2>3, <3>1
  <2> QED BY <2>4, <2>5
<1> QED BY <1>1, <1>4, <1>5, <1>6

(* No step breaks the map, as long as no green_connect has lost the socket *)
(* it would give up.                                                       *)
LEMMA MapNext ==
  ASSUME SharedTypes, MapOK, ConnectsOK, [Next]_vars
  PROVE  StepKeepsMap
<1>1. ASSUME UNCHANGED <<connVars, envVars, ops>>, inflight' \subseteq SharedSqe, sq' \subseteq SharedSqe
      PROVE  StepKeepsMap
  BY <1>1 DEF CallsTyped, StepKeepsMap, connVars, envVars, SharedTypes, MapOK, FdMapSound, Steady
<1>2. CASE UNCHANGED vars
  BY <1>1, <1>2 DEF vars, loopVars, SharedTypes
<1>3. CASE (GreenletStep \/ LoopStep \/ LoopFails \/ RequestStop \/ ReapStop)
           /\ UNCHANGED <<connVars, envVars, ops>>
  <2>1. sq' \subseteq SharedSqe /\ inflight' \subseteq SharedSqe
    <3>1. CASE SubmitAndWait
      BY <3>1 DEF SubmitAndWait, Submitted, SharedTypes
    <3>2. CASE ~SubmitAndWait
      BY <1>3, <3>2 DEF GreenletStep, Finish, Raise, Schedule, LoopStep, RunScheduled, SkipDead,
         ExitIdle, EndBatch, LoopFails, RequestStop, ReapStop, SharedTypes
    <3> QED BY <3>1, <3>2
  <2> QED BY <1>1, <1>3, <2>1
<1>4. CASE CallStep
  <2>1. PICK g \in Greenlets :
          \/ Accept(g)
          \/ \E fd \in Fds : OpenFile(g, fd) \/ Connect(g, fd)
          \/ ConnectFails(g)
          \/ \E d \in Descs :
               \/ \E h \in Greenlets : Spawn(g, h, d)
               \/ \E kind \in Transfers : RecvOrSend(g, kind, d)
               \/ RegisterFd(g, d)
               \/ UnregisterFd(g, d)
               \/ Close(g, d)
          \/ \E v \in Greenlets : Throw(g, v)
    BY <1>4 DEF CallStep
  <2>2. CASE Accept(g) \/ \E d \in Descs : \E kind \in Transfers : RecvOrSend(g, kind, d)
    BY <2>2, WaitingCallMap DEF StepKeepsMap
  <2>3. CASE \E d \in Descs : Close(g, d)
    BY <2>3, CloseMap DEF StepKeepsMap
  <2>4. CASE \E fd \in Fds : Connect(g, fd)
    BY <2>4, ConnectMap DEF StepKeepsMap
  <2>5. CASE \E v \in Greenlets : Throw(g, v)
    BY <2>5, ThrowMap DEF StepKeepsMap
  <2> QED BY <2>1, <2>2, <2>3, <2>4, <2>5, QuietCallMap
<1>5. CASE ReapStep
  BY <1>5, ReapMap DEF ReapStep, StepKeepsMap
<1>6. CASE ResumeStep
  BY <1>6, ResumeMap DEF ResumeStep, StepKeepsMap
<1> QED BY <1>2, <1>3, <1>4, <1>5, <1>6 DEF Next

(* The initial state.                                                      *)
LEMMA MapInit ==
  ASSUME ConnsInit
  PROVE  SharedTypes /\ MapOK /\ \A g \in Greenlets : call[g].kind = "none"
<1> DEFINE r == [desc |-> NoDesc, state |-> "idle", gen |-> 0,
                 greenlet |-> None, pending |-> 0, result |-> 0]
<1>1. r \in SharedConn /\ r.state = "idle" /\ conn = [c \in Conns |-> r]
  BY DEF SharedConn, ConnStates, ConnsInit
<1> HIDE DEF r
<1>2. NoCall \in CallRecord /\ NoCall.kind = "none"
  BY DEF NoCall, CallRecord, CallKinds
<1>3. call = [g \in Greenlets |-> NoCall] /\ freeConns = Conns
      /\ fdToConn = [fd \in Fds |-> None] /\ own = [g \in Greenlets |-> {}]
      /\ accept = [greenlet |-> None, pending |-> FALSE, result |-> NoDesc]
      /\ files = 0 /\ ops = 0 /\ sq = {} /\ inflight = {}
  BY DEF ConnsInit, LoopInit
<1>4. SharedTypes
  BY <1>1, <1>2, <1>3 DEF CallsTyped, SharedTypes, AcceptRecord, Transfers
<1>5. MapOK
  BY <1>1, <1>3 DEF MapOK, FdMapSound
<1> QED BY <1>2, <1>3, <1>4, <1>5

(* A program without green_connect.                                        *)
NeverConnects == [][~\E g \in Greenlets, fd \in Fds : Connect(g, fd)]_vars

NoConnecting == \A g \in Greenlets : call[g].kind # "connect"

SharedMapInv == SharedTypes /\ MapOK /\ NoConnecting

(* No call but green_connect waits as one.                                 *)
LEMMA NoConnectingNext ==
  ASSUME SharedTypes, NoConnecting, [Next]_vars,
         [~\E g \in Greenlets, fd \in Fds : Connect(g, fd)]_vars
  PROVE  NoConnecting'
<1>1. CASE UNCHANGED call
  BY <1>1 DEF NoConnecting
<1>2. ASSUME NEW g \in Greenlets, call' = [call EXCEPT ![g] = NoCall]
      PROVE  NoConnecting'
  <2>1. \A h \in Greenlets : call'[h] = IF h = g THEN NoCall ELSE call[h]
    BY <1>2 DEF SharedTypes
  <2> QED BY <2>1 DEF NoConnecting, NoCall
<1>3. ASSUME NEW g \in Greenlets, NEW kind \in {"accept"} \cup Transfers, NEW c, NEW d,
             Suspends(g, kind, c, d)
      PROVE  NoConnecting'
  <2>1. \A h \in Greenlets \ {g} : call'[h] = call[h]
    BY <1>3 DEF SharedTypes, Suspends
  <2>2. call'[g].kind = kind
    BY <1>3 DEF SharedTypes, Suspends
  <2> QED BY <2>1, <2>2 DEF NoConnecting, Transfers
<1>4. CASE UNCHANGED vars
  BY <1>1, <1>4 DEF vars, connVars
<1>5. CASE UNCHANGED connVars
  BY <1>1, <1>5 DEF connVars
<1>6. CASE CallStep
  <2>1. PICK g \in Greenlets :
          \/ Accept(g)
          \/ \E fd \in Fds : OpenFile(g, fd) \/ Connect(g, fd)
          \/ ConnectFails(g)
          \/ \E d \in Descs :
               \/ \E h \in Greenlets : Spawn(g, h, d)
               \/ \E kind \in Transfers : RecvOrSend(g, kind, d)
               \/ RegisterFd(g, d)
               \/ UnregisterFd(g, d)
               \/ Close(g, d)
          \/ \E v \in Greenlets : Throw(g, v)
    BY <1>6 DEF CallStep
  <2>2. CASE Accept(g)
    BY <1>3, <2>2 DEF Accept
  <2>3. CASE \E fd \in Fds : Connect(g, fd)
    <3>1. ops' # ops
      BY <2>3 DEF Connect, Queues, SharedTypes
    <3> QED BY <2>3, <3>1 DEF vars
  <2>4. CASE \E v \in Greenlets : Throw(g, v)
    BY <1>2, <2>4 DEF Throw
  <2>5. CASE \E d \in Descs : \E kind \in Transfers : RecvOrSend(g, kind, d)
    BY <1>3, <2>5 DEF RecvOrSend, Transfer
  <2> QED BY <1>1, <2>1, <2>2, <2>3, <2>4, <2>5
       DEF OpenFile, ConnectFails, Spawn, RegisterFd, UnregisterFd, Close, connVars
<1>7. CASE ReapStep
  BY <1>1, <1>7 DEF ReapStep, ReapAccept, ReapConnect, ReapIgnored, ReapCancelling, ReapClosing,
     ReapTransfer, ReapsConn, Reaps
<1>8. CASE ResumeStep
  <2>1. PICK g \in Greenlets :
          ResumeAccept(g) \/ ResumeConnect(g) \/ TransferReturns(g) \/ SendsRest(g)
    BY <1>8 DEF ResumeStep
  <2>2. CASE SendsRest(g)
    BY <1>3, <2>2 DEF SendsRest, Transfer, Transfers
  <2> QED BY <1>2, <2>1, <2>2 DEF ResumeAccept, ResumeConnect, TransferReturns, Returns
<1> QED BY <1>4, <1>5, <1>6, <1>7, <1>8 DEF Next

(* The invariant of a program without green_connect.                       *)
LEMMA SharedMapInvAlways ==
  Spec /\ NeverConnects => []SharedMapInv
<1>1. ConnsInit => SharedMapInv
  BY MapInit DEF SharedMapInv, NoConnecting
<1>2. SharedMapInv /\ [Next]_vars /\ [~\E g \in Greenlets, fd \in Fds : Connect(g, fd)]_vars
      => SharedMapInv'
  BY MapNext, NoConnectingNext DEF SharedMapInv, StepKeepsMap, ConnectsOK, NoConnecting
<1> QED BY <1>1, <1>2, PTL DEF Spec, NeverConnects

(* FdMapSound whatever greenlets do to each other's descriptors, throw or  *)
(* reject, with a pool of any size: the calls and the loop look every      *)
(* connection up afresh, in the map or by its generation.                  *)
THEOREM SharedFdMapSound ==
  Spec /\ NeverConnects => []FdMapSound
<1>1. SharedMapInv => FdMapSound
  BY DEF SharedMapInv, MapOK
<1> QED BY <1>1, SharedMapInvAlways, PTL

(* ReleasedOnce for the same programs: a release follows such a look-up.   *)
THEOREM SharedReleasedOnce ==
  Spec /\ NeverConnects => ReleasedOnce
<1> DEFINE Once == \A c \in Conns : conn'[c].gen # conn[c].gen =>
                     c \notin freeConns \/ \E g \in Greenlets : ConnectFails(g)
<1>1. SharedMapInv /\ [Next]_vars => [Once]_vars
  BY MapNext DEF SharedMapInv, StepKeepsMap, Steady, ConnectsOK, NoConnecting
<1> QED BY <1>1, SharedMapInvAlways, PTL DEF Spec, ReleasedOnce

-----------------------------------------------------------------------------
(***************************************************************************)
(* The same with green_connect, which releases by itself what it has       *)
(* registered: its connection must still be the one it registered when it  *)
(* gives up.  Its descriptor is nobody else's until it returns, as long as *)
(* nobody may close the fd under it, so the invariant says what may still  *)
(* close an fd (Pending) and who may still use it (Held), and that the two *)
(* exclude each other; and who is queued to run, so that green_connect     *)
(* returns only when its operation is complete.                            *)
(***************************************************************************)

Fetching(g) == Blocked(g) /\ call[g].kind = "accept" /\ InReady(g)

(* Who is queued is queued once; who waits on a connection or for the      *)
(* accept is not queued yet; one accepted descriptor at a time is on its   *)
(* way to an acceptor.                                                     *)
QueueOK ==
  /\ Distinct(ready)
  /\ \A g \in Greenlets : InReady(g) => status[g] \in {"scheduled", "dead", "blocked"}
  /\ \A g \in Greenlets : status[g] \notin {"blocked", "dead"} => call[g] = NoCall
  /\ \A g \in Greenlets : call[g].kind = "connect" => Blocked(g)
  /\ \A g \in Greenlets : InReady(g) /\ call[g].kind = "connect" => ~Awaits(g)
  /\ \A c \in Conns : \A v \in Greenlets : conn[c].greenlet = v =>
       ~InReady(v) /\ Blocked(v) /\ call[v].kind \in Transfers /\ call[v].conn = c
  /\ \A a \in Greenlets : accept.greenlet = a =>
       ~InReady(a) /\ (status[a] = "dead" \/ (Blocked(a) /\ call[a].kind = "accept"))
  /\ phase \in {"wait", "reap"} /\ accept.greenlet # None => \A g \in Greenlets : ~Fetching(g)
  /\ \A g, h \in Greenlets : Fetching(g) /\ Fetching(h) => g = h

(* Every SQE has a number of its own.                                      *)
NumbersOK ==
  /\ sq \cap inflight = {}
  /\ \A e \in Sqes : e.op <= ops
  /\ \A e, f \in Sqes : e.op = f.op => e = f
  /\ \A g \in Greenlets : call[g].op <= ops

(* What closes an fd: a close on its way, or a connection that will queue  *)
(* one when the operations it cancels have completed.                      *)
Closing(e, fd) == e \in Sqes /\ e.kind \in Closes /\ e.desc.fd = fd
Cancelling(c, fd) == c \in Conns /\ conn[c].state = "cancelling" /\ conn[c].desc.fd = fd
Pending(fd) == (\E e \in Sqes : Closing(e, fd)) \/ (\E c \in Conns : Cancelling(c, fd))

(* An fd is closed once, and is still open until then.                     *)
ClosersOK ==
  \A fd \in Fds :
    /\ \A e, f \in Sqes : Closing(e, fd) /\ Closing(f, fd) => e = f
    /\ \A c, d \in Conns : Cancelling(c, fd) /\ Cancelling(d, fd) => c = d
    /\ \A e \in Sqes, c \in Conns : ~(Closing(e, fd) /\ Cancelling(c, fd))
    /\ Pending(fd) => file[fd] # 0

(* Who may still use a descriptor: a greenlet that was given it, one that  *)
(* is connecting it, or the acceptor it is on its way to.                  *)
Given(d) == d \in Descs
Connects(g, d) == call[g].kind = "connect" /\ call[g].desc = d
Arrived(d) == accept.result = d /\ d # NoDesc /\ \E g \in Greenlets : Fetching(g)
Held(d) == Given(d) \/ Arrived(d) \/ \E g \in Greenlets : Connects(g, d)

(* It is held in one of the three ways only.                               *)
HeldOnce ==
  /\ \A d \in Desc : ~(Given(d) /\ Arrived(d))
  /\ \A d \in Desc : \A g \in Greenlets : Connects(g, d) => ~Given(d) /\ ~Arrived(d)
  /\ \A d \in Desc : \A g, h \in Greenlets : Connects(g, d) /\ Connects(h, d) => g = h

(* And names the file it did; nobody is about to close it.                 *)
HeldLive == \A d \in Desc : Held(d) => Live(d) /\ ~Pending(d.fd)

(* The connection of a connecting socket is nobody else's.                 *)
SocketsOK ==
  /\ ConnectsOK
  /\ \A g \in Greenlets : call[g].kind = "connect" =>
       conn[call[g].conn].state \notin {"cancelling", "closing"}
  /\ \A g, h \in Greenlets :
       call[g].kind = "connect" /\ call[h].kind = "connect" /\ call[g].conn = call[h].conn => g = h

HoldOK == ClosersOK /\ HeldOnce /\ HeldLive /\ SocketsOK

LoopTypes ==
  /\ status \in [Greenlets -> Statuses]
  /\ ready \in Seq(Greenlets)
  /\ phase \in Phases
  /\ file \in [Fds -> Nat]

SharedInv == SharedTypes /\ LoopTypes /\ MapOK /\ QueueOK /\ NumbersOK /\ HoldOK

-----------------------------------------------------------------------------

(* The SQEs after a step that reaps or queues at most one.                 *)
QueuesOne == (UNCHANGED <<sq, ops>>) \/ \E e : Queues(e) /\ e.op = ops + 1

(* SQEs keep their numbers, and nobody waits for one queued after his own. *)
LEMMA NumbersStep ==
  ASSUME SharedInv, SharedTypes', inflight' \subseteq inflight, QueuesOne,
         \A g \in Greenlets : call'[g].op = call[g].op \/ call'[g].op = 0
                              \/ (call'[g].op = ops + 1 /\ ops' = ops + 1)
  PROVE  /\ NumbersOK'
         /\ \A g \in Greenlets : call'[g].op = call[g].op /\ Awaits(g)' => Awaits(g)
<1>1. ops \in Nat /\ ops' \in Nat /\ \A g \in Greenlets : call[g].op \in Nat
  BY DEF SharedInv, SharedTypes, CallRecord
<1>2. \A e \in Sqes : e.op \in Nat /\ e.op <= ops
  BY DEF SharedInv, SharedTypes, SharedSqe, NumbersOK, Sqes
<1>3. /\ sq \cap inflight = {}
      /\ \A e, f \in Sqes : e.op = f.op => e = f
      /\ \A g \in Greenlets : call[g].op <= ops
  BY DEF SharedInv, NumbersOK
<1>4. CASE UNCHANGED <<sq, ops>>
  <2>1. sq' \cap inflight' = {} /\ Sqes' \subseteq Sqes
    BY <1>3, <1>4 DEF Sqes
  <2>2. \A g \in Greenlets : call'[g].op <= ops'
    BY <1>1, <1>3, <1>4
  <2> QED BY <1>2, <1>3, <1>4, <2>1, <2>2 DEF NumbersOK, Awaits
<1>5. ASSUME NEW e, Queues(e), e.op = ops + 1
      PROVE  /\ NumbersOK'
             /\ \A g \in Greenlets : call'[g].op = call[g].op /\ Awaits(g)' => Awaits(g)
  <2>1. sq' = sq \cup {e} /\ ops' = ops + 1 /\ Sqes' \subseteq Sqes \cup {e}
    BY <1>5 DEF Queues, Sqes
  <2>2. \A f \in Sqes : f.op # e.op
    BY <1>1, <1>2, <1>5
  <2>3. sq' \cap inflight' = {}
    BY <1>3, <2>1, <2>2 DEF Sqes
  <2>4. \A f \in Sqes' : f.op <= ops'
    BY <1>1, <1>2, <1>5, <2>1
  <2>5. \A f, k \in Sqes' : f.op = k.op => f = k
    BY <1>3, <2>1, <2>2
  <2>6. \A g \in Greenlets : call'[g].op <= ops'
    BY <1>1, <1>3, <2>1
  <2>7. \A g \in Greenlets : call[g].op # e.op
    BY <1>1, <1>3, <1>5
  <2> QED BY <2>1, <2>3, <2>4, <2>5, <2>6, <2>7 DEF NumbersOK, Awaits
<1> QED BY <1>4, <1>5 DEF QueuesOne

(* No connection comes to wait for another greenlet.                       *)
WaitersKept == \A c \in Conns : conn'[c].greenlet \in {None, conn[c].greenlet}

(* The reference to a waiter is dropped, and it may be deallocated.        *)
WaiterDropped(v) ==
  /\ ~InReady(v)
  /\ \E c \in Conns : conn[c].greenlet = v /\ conn'[c].greenlet = None
  /\ status' = [status EXCEPT ![v] = "dead"]

AwaitsLess == \A g \in Greenlets : call'[g] = call[g] /\ Awaits(g)' => Awaits(g)

(* The loop does not begin to wait.                                        *)
PhaseKept == phase' \in {"wait", "reap"} => phase \in {"wait", "reap"}

(* A step after which everybody is queued as before.                       *)
LEMMA QueueSame ==
  ASSUME SharedInv, UNCHANGED <<ready, accept, call>>, PhaseKept, WaitersKept, AwaitsLess,
         (UNCHANGED status) \/ \E v \in Greenlets : WaiterDropped(v)
  PROVE  QueueOK' /\ (\A g \in Greenlets : Fetching(g)' => Fetching(g)) /\ status' \in [Greenlets -> Statuses]
<1>1. \A g \in Greenlets : InReady(g)' <=> InReady(g)
  BY DEF InReady
<1>2. status \in [Greenlets -> Statuses] /\ QueueOK
  BY DEF SharedInv, LoopTypes
<1>3. \A c \in Conns : \A v \in Greenlets : conn'[c].greenlet = v => conn[c].greenlet = v
  BY ConnsAssumption DEF WaitersKept
<1>4. \A g \in Greenlets : Awaits(g)' => Awaits(g)
  BY DEF AwaitsLess
<1>5. CASE UNCHANGED status
  <2>1. \A g \in Greenlets : (Blocked(g)' <=> Blocked(g)) /\ (Fetching(g)' <=> Fetching(g))
    BY <1>1, <1>5 DEF Blocked, Fetching
  <2> QED BY <1>1, <1>2, <1>3, <1>4, <1>5, <2>1 DEF QueueOK, PhaseKept
<1>6. ASSUME NEW v \in Greenlets, WaiterDropped(v)
      PROVE  QueueOK' /\ (\A g \in Greenlets : Fetching(g)' => Fetching(g)) /\ status' \in [Greenlets -> Statuses]
  <2>1. PICK b \in Conns : conn[b].greenlet = v /\ conn'[b].greenlet = None
    BY <1>6 DEF WaiterDropped
  <2>2. ~InReady(v) /\ Blocked(v) /\ call[v].kind \in Transfers /\ call[v].conn = b
    BY <1>2, <2>1 DEF QueueOK
  <2>3. \A g \in Greenlets : status'[g] = IF g = v THEN "dead" ELSE status[g]
    BY <1>2, <1>6 DEF WaiterDropped
  <2>4. status' \in [Greenlets -> Statuses]
    BY <1>2, <1>6 DEF WaiterDropped, Statuses
  <2>5. \A g \in Greenlets : (Blocked(g)' <=> Blocked(g) /\ g # v) /\ (Fetching(g)' => Fetching(g))
    BY <1>1, <2>3 DEF Blocked, Fetching
  <2>6. \A c \in Conns : conn'[c].greenlet # v
    BY <1>2, <1>3, <2>1, <2>2, ConnsAssumption DEF QueueOK
  <2>7. accept.greenlet # v
    BY <1>2, <2>2 DEF QueueOK, Transfers, Blocked
  <2>8. \A c \in Conns : \A w \in Greenlets : conn'[c].greenlet = w =>
          ~InReady(w)' /\ Blocked(w)' /\ call'[w].kind \in Transfers /\ call'[w].conn = c
    BY <1>1, <1>2, <1>3, <2>5, <2>6 DEF QueueOK
  <2>9. \A a \in Greenlets : accept'.greenlet = a =>
          ~InReady(a)' /\ (status'[a] = "dead" \/ (Blocked(a)' /\ call'[a].kind = "accept"))
    BY <1>1, <1>2, <2>3, <2>5, <2>7 DEF QueueOK
  <2>10. \A g \in Greenlets : call'[g].kind = "connect" => Blocked(g)'
    BY <1>2, <2>2, <2>5 DEF QueueOK, Transfers
  <2>11. \A g \in Greenlets : InReady(g)' => status'[g] \in {"scheduled", "dead", "blocked"}
    BY <1>1, <1>2, <2>3 DEF QueueOK
  <2>12. \A g \in Greenlets : status'[g] \notin {"blocked", "dead"} => call'[g] = NoCall
    BY <1>2, <2>3 DEF QueueOK
  <2>13. \A g \in Greenlets : InReady(g)' /\ call'[g].kind = "connect" => ~Awaits(g)'
    BY <1>1, <1>2, <1>4 DEF QueueOK
  <2>14. Distinct(ready)'
    BY <1>2 DEF QueueOK, Distinct
  <2>15. /\ phase' \in {"wait", "reap"} /\ accept'.greenlet # None => \A g \in Greenlets : ~Fetching(g)'
         /\ \A g, h \in Greenlets : Fetching(g)' /\ Fetching(h)' => g = h
    BY <1>2, <2>5 DEF QueueOK, PhaseKept
  <2> QED BY <2>4, <2>5, <2>8, <2>9, <2>10, <2>11, <2>12, <2>13, <2>14, <2>15 DEF QueueOK
<1> QED BY <1>5, <1>6

(* Greenlet g has the thread, and leaves it: it is not queued afterwards.  *)
Takes(g) ==
  /\ phase = "drain" /\ phase' = "drain"
  /\ Distinct(ready)' /\ ready' \in Seq(Greenlets)
  /\ \A h \in Greenlets : InReady(h)' <=> (InReady(h) /\ h # g)
  /\ \A c \in Conns : conn[c].greenlet # g
  /\ accept.greenlet # g

(* A running greenlet is not queued, and nothing will wake it.             *)
LEMMA RunningTakes ==
  ASSUME SharedInv, NEW g \in Greenlets, Running(g), UNCHANGED <<ready, phase>>
  PROVE  Takes(g) /\ ~InReady(g) /\ call[g] = NoCall
<1>1. status[g] = "running" /\ phase = "drain"
  BY DEF Running
<1>2. ~InReady(g) /\ call[g] = NoCall /\ accept.greenlet # g /\ \A c \in Conns : conn[c].greenlet # g
  BY <1>1 DEF SharedInv, QueueOK, Blocked
<1>3. \A h \in Greenlets : InReady(h)' <=> InReady(h)
  BY DEF InReady
<1>4. Distinct(ready)' /\ ready' \in Seq(Greenlets)
  BY DEF SharedInv, QueueOK, LoopTypes, Distinct
<1> QED BY <1>1, <1>2, <1>3, <1>4 DEF Takes

(* Nor is one the loop takes off the queue.                                *)
LEMMA DrainedTakes ==
  ASSUME SharedInv, NEW g \in Greenlets, Drains(g), ready' = Tail(ready), phase' = phase
  PROVE  Takes(g) /\ InReady(g)
<1>1. ready \in Seq(Greenlets) /\ Distinct(ready) /\ ready # <<>> /\ g = Head(ready) /\ phase = "drain"
  BY DEF SharedInv, QueueOK, LoopTypes, Drains
<1>2. /\ Tail(ready) \in Seq(Greenlets) /\ Distinct(Tail(ready))
      /\ \A y : Occurs(Tail(ready), y) <=> Occurs(ready, y) /\ y # g
  BY <1>1, TailOccurs
<1>3. InReady(g)
  BY <1>1 DEF InReady
<1>4. accept.greenlet # g /\ \A c \in Conns : conn[c].greenlet # g
  BY <1>3 DEF SharedInv, QueueOK
<1>5. \A h \in Greenlets : InReady(h)' <=> (InReady(h) /\ h # g)
  BY <1>2 DEF InReady, Occurs
<1>6. Distinct(ready)' /\ ready' \in Seq(Greenlets)
  BY <1>2 DEF Distinct
<1> QED BY <1>1, <1>3, <1>4, <1>5, <1>6 DEF Takes

(* It suspends in a call.                                                  *)
LEMMA QueueSuspends ==
  ASSUME SharedInv, NEW g \in Greenlets, Takes(g),
         NEW kind \in {"accept", "connect"} \cup Transfers, NEW c \in Conns \cup {None}, NEW d,
         Suspends(g, kind, c, d), AwaitsLess,
         \A b \in Conns : conn'[b].greenlet \in {None, conn[b].greenlet}
                          \/ (b = c /\ kind \in Transfers /\ conn'[b].greenlet = g),
         accept'.greenlet = accept.greenlet \/ (kind = "accept" /\ accept'.greenlet = g)
  PROVE  QueueOK' /\ (\A h \in Greenlets : Fetching(h)' => Fetching(h)) /\ status' \in [Greenlets -> Statuses]
<1>1. status \in [Greenlets -> Statuses] /\ call \in [Greenlets -> CallRecord] /\ QueueOK
  BY DEF SharedInv, LoopTypes, SharedTypes
<1>2. status' = [status EXCEPT ![g] = "blocked"]
  BY DEF Suspends
<1>3. \A h \in Greenlets : status'[h] = IF h = g THEN "blocked" ELSE status[h]
  BY <1>1, <1>2
<1>4. status' \in [Greenlets -> Statuses]
  BY <1>1, <1>2 DEF Statuses
<1>5. /\ call'[g].kind = kind /\ call'[g].conn = c
      /\ \A h \in Greenlets \ {g} : call'[h] = call[h]
  BY <1>1 DEF Suspends
<1>6. ~InReady(g)' /\ \A h \in Greenlets : InReady(h)' => InReady(h)
  BY DEF Takes
<1>7. \A h \in Greenlets \ {g} : (Blocked(h)' <=> Blocked(h)) /\ (Awaits(h)' => Awaits(h))
  BY <1>3, <1>5 DEF Blocked, AwaitsLess
<1>8. Blocked(g)'
  BY <1>3 DEF Blocked
<1>9. \A h \in Greenlets : Fetching(h)' => Fetching(h) /\ h # g
  BY <1>5, <1>6, <1>7 DEF Fetching
<1>10. \A h \in Greenlets : InReady(h)' => status'[h] \in {"scheduled", "dead", "blocked"}
  BY <1>1, <1>3, <1>6 DEF QueueOK
<1>11. \A h \in Greenlets : status'[h] \notin {"blocked", "dead"} => call'[h] = NoCall
  BY <1>1, <1>3, <1>5 DEF QueueOK
<1>12. \A h \in Greenlets : call'[h].kind = "connect" => Blocked(h)'
  BY <1>1, <1>5, <1>7, <1>8 DEF QueueOK
<1>13. \A h \in Greenlets : InReady(h)' /\ call'[h].kind = "connect" => ~Awaits(h)'
  BY <1>1, <1>5, <1>6, <1>7 DEF QueueOK
<1>14. \A b \in Conns : \A v \in Greenlets : conn'[b].greenlet = v =>
          ~InReady(v)' /\ Blocked(v)' /\ call'[v].kind \in Transfers /\ call'[v].conn = b
  <2> SUFFICES ASSUME NEW b \in Conns, NEW v \in Greenlets, conn'[b].greenlet = v
               PROVE  ~InReady(v)' /\ Blocked(v)' /\ call'[v].kind \in Transfers /\ call'[v].conn = b
    OBVIOUS
  <2>1. CASE v = g
    <3>1. b = c /\ kind \in Transfers
      BY <2>1, ConnsAssumption DEF Takes
    <3> QED BY <1>5, <1>6, <1>8, <2>1, <3>1
  <2>2. CASE v # g
    <3>1. conn[b].greenlet = v
      BY <2>2, ConnsAssumption
    <3> QED BY <1>1, <1>5, <1>6, <1>7, <2>2, <3>1 DEF QueueOK
  <2> QED BY <2>1, <2>2
<1>15. \A a \in Greenlets : accept'.greenlet = a =>
          ~InReady(a)' /\ (status'[a] = "dead" \/ (Blocked(a)' /\ call'[a].kind = "accept"))
  <2> SUFFICES ASSUME NEW a \in Greenlets, accept'.greenlet = a
               PROVE  ~InReady(a)' /\ (status'[a] = "dead" \/ (Blocked(a)' /\ call'[a].kind = "accept"))
    OBVIOUS
  <2>1. CASE a = g
    BY <1>5, <1>6, <1>8, <2>1 DEF Takes
  <2>2. CASE a # g
    BY <1>1, <1>3, <1>5, <1>6, <1>7, <2>2 DEF QueueOK
  <2> QED BY <2>1, <2>2
<1>16. \A h, k \in Greenlets : Fetching(h)' /\ Fetching(k)' => h = k
  BY <1>1, <1>9 DEF QueueOK
<1>17. phase' = "drain" /\ Distinct(ready)'
  BY DEF Takes
<1> QED BY <1>4, <1>9, <1>10, <1>11, <1>12, <1>13, <1>14, <1>15, <1>16, <1>17 DEF QueueOK

(* It goes on with its program.                                            *)
LEMMA QueueReturns ==
  ASSUME SharedInv, NEW g \in Greenlets, Takes(g), Returns(g), UNCHANGED accept, WaitersKept, AwaitsLess
  PROVE  /\ QueueOK' /\ status' \in [Greenlets -> Statuses]
         /\ \A h \in Greenlets : Fetching(h)' => Fetching(h) /\ h # g
<1>1. status \in [Greenlets -> Statuses] /\ call \in [Greenlets -> CallRecord] /\ QueueOK
  BY DEF SharedInv, LoopTypes, SharedTypes
<1>2. status' = [status EXCEPT ![g] = "running"] /\ call' = [call EXCEPT ![g] = NoCall]
  BY DEF Returns
<1>3. \A h \in Greenlets : /\ status'[h] = IF h = g THEN "running" ELSE status[h]
                           /\ call'[h] = IF h = g THEN NoCall ELSE call[h]
  BY <1>1, <1>2
<1>4. status' \in [Greenlets -> Statuses]
  BY <1>1, <1>2 DEF Statuses
<1>5. ~InReady(g)' /\ \A h \in Greenlets : InReady(h)' => InReady(h)
  BY DEF Takes
<1>6. \A h \in Greenlets \ {g} : (Blocked(h)' <=> Blocked(h)) /\ (Awaits(h)' => Awaits(h))
  BY <1>3 DEF Blocked, AwaitsLess
<1>7. \A h \in Greenlets : Fetching(h)' => Fetching(h) /\ h # g
  BY <1>3, <1>5, <1>6 DEF Fetching
<1>8. \A b \in Conns : \A v \in Greenlets : conn'[b].greenlet = v => conn[b].greenlet = v /\ v # g
  BY ConnsAssumption DEF WaitersKept, Takes
<1>9. \A h \in Greenlets : InReady(h)' => status'[h] \in {"scheduled", "dead", "blocked"}
  BY <1>1, <1>3, <1>5 DEF QueueOK
<1>10. \A h \in Greenlets : status'[h] \notin {"blocked", "dead"} => call'[h] = NoCall
  BY <1>1, <1>3 DEF QueueOK
<1>11. \A h \in Greenlets : call'[h].kind = "connect" => Blocked(h)'
  BY <1>1, <1>3, <1>6 DEF QueueOK, NoCall
<1>12. \A h \in Greenlets : InReady(h)' /\ call'[h].kind = "connect" => ~Awaits(h)'
  BY <1>1, <1>3, <1>5, <1>6 DEF QueueOK
<1>13. \A b \in Conns : \A v \in Greenlets : conn'[b].greenlet = v =>
          ~InReady(v)' /\ Blocked(v)' /\ call'[v].kind \in Transfers /\ call'[v].conn = b
  BY <1>1, <1>3, <1>5, <1>6, <1>8 DEF QueueOK
<1>14. \A a \in Greenlets : accept'.greenlet = a =>
          ~InReady(a)' /\ (status'[a] = "dead" \/ (Blocked(a)' /\ call'[a].kind = "accept"))
  BY <1>1, <1>3, <1>5, <1>6 DEF QueueOK, Takes
<1>15. \A h, k \in Greenlets : Fetching(h)' /\ Fetching(k)' => h = k
  BY <1>1, <1>7 DEF QueueOK
<1>16. phase' = "drain" /\ Distinct(ready)'
  BY DEF Takes
<1> QED BY <1>4, <1>7, <1>9, <1>10, <1>11, <1>12, <1>13, <1>14, <1>15, <1>16 DEF QueueOK

(* The queue after v is put on it.                                         *)
LEMMA QueuedLast ==
  ASSUME SharedInv, NEW v \in Greenlets, ~InReady(v), ready' = Append(ready, v)
  PROVE  /\ ready' \in Seq(Greenlets) /\ Distinct(ready)'
         /\ \A g \in Greenlets : InReady(g)' <=> (g = v \/ InReady(g))
<1>1. ready \in Seq(Greenlets) /\ Distinct(ready)
  BY DEF SharedInv, QueueOK, LoopTypes
<1>2. /\ Append(ready, v) \in Seq(Greenlets)
      /\ \A y : Occurs(Append(ready, v), y) <=> y = v \/ Occurs(ready, y)
      /\ ~Occurs(ready, v) => Distinct(Append(ready, v))
  BY <1>1, AppendOccurs
<1> QED BY <1>2 DEF InReady, Occurs, Distinct

(* The loop wakes v, which nothing else will wake.                         *)
LEMMA QueueWakes ==
  ASSUME SharedInv, NEW v \in Greenlets, ~InReady(v), ready' = Append(ready, v),
         status[v] \in {"blocked", "dead"}, UNCHANGED <<status, call>>, PhaseKept,
         WaitersKept, AwaitsLess, \A c \in Conns : conn'[c].greenlet # v,
         accept'.greenlet \in {None, accept.greenlet}, accept'.greenlet # v,
         call[v].kind = "connect" => ~Awaits(v)',
         Blocked(v) /\ call[v].kind = "accept" =>
           accept'.greenlet = None /\ \A g \in Greenlets : ~Fetching(g)
  PROVE  /\ QueueOK' /\ ready' \in Seq(Greenlets)
         /\ \A h \in Greenlets : Fetching(h)' => Fetching(h) \/ (h = v /\ Blocked(v) /\ call[v].kind = "accept")
<1>1. QueueOK
  BY DEF SharedInv
<1>2. /\ ready' \in Seq(Greenlets) /\ Distinct(ready)'
      /\ \A g \in Greenlets : InReady(g)' <=> (g = v \/ InReady(g))
  BY QueuedLast
<1>3. \A g \in Greenlets : Blocked(g)' <=> Blocked(g)
  BY DEF Blocked
<1>4. \A g \in Greenlets : Awaits(g)' => Awaits(g)
  BY DEF AwaitsLess
<1>5. \A h \in Greenlets : Fetching(h)' => Fetching(h) \/ (h = v /\ Blocked(v) /\ call[v].kind = "accept")
  BY <1>2, <1>3 DEF Fetching
<1>6. \A c \in Conns : \A w \in Greenlets : conn'[c].greenlet = w => conn[c].greenlet = w /\ w # v
  BY ConnsAssumption DEF WaitersKept
<1>7. \A a \in Greenlets : accept'.greenlet = a => accept.greenlet = a /\ a # v
  BY ConnsAssumption
<1>8. \A h \in Greenlets : InReady(h)' => status'[h] \in {"scheduled", "dead", "blocked"}
  BY <1>1, <1>2 DEF QueueOK
<1>9. \A h \in Greenlets : InReady(h)' /\ call'[h].kind = "connect" => ~Awaits(h)'
  BY <1>1, <1>2, <1>4 DEF QueueOK
<1>10. \A b \in Conns : \A w \in Greenlets : conn'[b].greenlet = w =>
          ~InReady(w)' /\ Blocked(w)' /\ call'[w].kind \in Transfers /\ call'[w].conn = b
  BY <1>1, <1>2, <1>3, <1>6 DEF QueueOK
<1>11. \A a \in Greenlets : accept'.greenlet = a =>
          ~InReady(a)' /\ (status'[a] = "dead" \/ (Blocked(a)' /\ call'[a].kind = "accept"))
  BY <1>1, <1>2, <1>3, <1>7 DEF QueueOK
<1>12. \A h, k \in Greenlets : Fetching(h)' /\ Fetching(k)' => h = k
  BY <1>1, <1>5 DEF QueueOK
<1>13. phase' \in {"wait", "reap"} /\ accept'.greenlet # None => \A g \in Greenlets : ~Fetching(g)'
  BY <1>1, <1>5 DEF QueueOK, PhaseKept
<1>14. /\ \A g \in Greenlets : status'[g] \notin {"blocked", "dead"} => call'[g] = NoCall
       /\ \A g \in Greenlets : call'[g].kind = "connect" => Blocked(g)'
  BY <1>1, <1>3 DEF QueueOK
<1> QED BY <1>2, <1>5, <1>8, <1>9, <1>10, <1>11, <1>12, <1>13, <1>14 DEF QueueOK

(* Steps of the loop and of greenlets that do not touch what a suspended   *)
(* greenlet waits for.                                                     *)
LEMMA QueueLocal ==
  ASSUME SharedInv, UNCHANGED <<conn, accept, call>>, Sqes' = Sqes, status' \in [Greenlets -> Statuses],
         \A h \in Greenlets : /\ status[h] \in {"blocked", "dead"} => status'[h] = status[h]
                              /\ status[h] \notin {"blocked", "dead"} => status'[h] # "blocked",
         Distinct(ready)',
         \A h \in Greenlets : InReady(h)' => /\ InReady(h) \/ status[h] = "unborn"
                                             /\ status'[h] \in {"scheduled", "dead", "blocked"},
         PhaseKept \/ \A h \in Greenlets : ~InReady(h)
  PROVE  QueueOK' /\ \A h \in Greenlets : Fetching(h)' => Fetching(h)
<1>1. QueueOK /\ status \in [Greenlets -> Statuses]
  BY DEF SharedInv, LoopTypes
<1>2. \A h \in Greenlets : (Blocked(h)' <=> Blocked(h)) /\ (Awaits(h)' <=> Awaits(h))
  BY DEF Blocked, Awaits
<1>3. \A h \in Greenlets : status[h] \in {"blocked", "dead"} /\ InReady(h)' => InReady(h)
  OBVIOUS
<1>4. \A h \in Greenlets : Fetching(h)' => Fetching(h)
  BY <1>2, <1>3 DEF Fetching, Blocked
<1>5. \A h \in Greenlets : status'[h] \notin {"blocked", "dead"} => call'[h] = NoCall
  BY <1>1 DEF QueueOK
<1>6. \A h \in Greenlets : call'[h].kind = "connect" => Blocked(h)'
  BY <1>1, <1>2 DEF QueueOK
<1>7. \A h \in Greenlets : InReady(h)' /\ call'[h].kind = "connect" => ~Awaits(h)'
  BY <1>1, <1>2, <1>3 DEF QueueOK, Blocked
<1>8. \A b \in Conns : \A v \in Greenlets : conn'[b].greenlet = v =>
          ~InReady(v)' /\ Blocked(v)' /\ call'[v].kind \in Transfers /\ call'[v].conn = b
  BY <1>1, <1>2, <1>3 DEF QueueOK, Blocked
<1>9. \A a \in Greenlets : accept'.greenlet = a =>
          ~InReady(a)' /\ (status'[a] = "dead" \/ (Blocked(a)' /\ call'[a].kind = "accept"))
  BY <1>1, <1>2, <1>3 DEF QueueOK, Blocked
<1>10. \A h, k \in Greenlets : Fetching(h)' /\ Fetching(k)' => h = k
  BY <1>1, <1>4 DEF QueueOK
<1>11. phase' \in {"wait", "reap"} /\ accept'.greenlet # None => \A g \in Greenlets : ~Fetching(g)'
  BY <1>1, <1>4 DEF QueueOK, PhaseKept, Fetching
<1> QED BY <1>4, <1>5, <1>6, <1>7, <1>8, <1>9, <1>10, <1>11 DEF QueueOK

(* The loop and the greenlets it runs.                                     *)
LEMMA LoopQueue ==
  ASSUME SharedInv, GreenletStep \/ LoopStep \/ LoopFails \/ RequestStop \/ ReapStop,
         UNCHANGED <<connVars, file, ops>>
  PROVE  /\ LoopTypes' /\ QueueOK' /\ NumbersOK' /\ Sqes' = Sqes
         /\ \A h \in Greenlets : Fetching(h)' => Fetching(h)
<1>0. /\ status \in [Greenlets -> Statuses] /\ ready \in Seq(Greenlets) /\ phase \in Phases
      /\ file' \in [Fds -> Nat] /\ UNCHANGED <<conn, accept, call, ops>>
      /\ Distinct(ready) /\ NumbersOK
  BY DEF SharedInv, LoopTypes, QueueOK, connVars, envVars
<1>1. \A h \in Greenlets : InReady(h) => status[h] \in {"scheduled", "dead", "blocked"}
  BY DEF SharedInv, QueueOK
<1> DEFINE Done == LoopTypes' /\ QueueOK' /\ NumbersOK' /\ Sqes' = Sqes
                   /\ \A h \in Greenlets : Fetching(h)' => Fetching(h)
<1>2. ASSUME UNCHANGED <<sq, inflight>> PROVE Sqes' = Sqes /\ NumbersOK'
  BY <1>0, <1>2 DEF Sqes, NumbersOK
<1>3. ASSUME UNCHANGED <<status, ready>>, phase' \in Phases, Sqes' = Sqes /\ NumbersOK',
             PhaseKept \/ ready = <<>>
      PROVE  Done
  <2>1. \A h \in Greenlets : InReady(h)' <=> InReady(h)
    BY <1>3 DEF InReady
  <2>2. ready = <<>> => \A h \in Greenlets : ~InReady(h)
    BY DEF InReady
  <2>3. Distinct(ready)'
    BY <1>0, <1>3 DEF Distinct
  <2>4. QueueOK' /\ \A h \in Greenlets : Fetching(h)' => Fetching(h)
    BY <1>0, <1>1, <1>3, <2>1, <2>2, <2>3, QueueLocal
  <2> QED BY <1>0, <1>3, <2>4 DEF LoopTypes
<1>4. ASSUME NEW g \in Greenlets, NEW s \in {"running", "dead"}, UNCHANGED <<sq, inflight>>,
             status[g] \notin {"blocked", "dead"}, status' = [status EXCEPT ![g] = s],
             ready' = ready \/ ready' = <<>>, phase' \in {phase, "failed"}, ~InReady(g)
      PROVE  Done
  <2>1. \A h \in Greenlets : status'[h] = IF h = g THEN s ELSE status[h]
    BY <1>0, <1>4
  <2>2. status' \in [Greenlets -> Statuses]
    BY <1>0, <1>4 DEF Statuses
  <2>3. \A h \in Greenlets : InReady(h)' => InReady(h)
    BY <1>4 DEF InReady
  <2>4. Distinct(ready)' /\ ready' \in Seq(Greenlets)
    <3>1. CASE ready' = ready
      BY <1>0, <3>1 DEF Distinct
    <3>2. CASE ready' = <<>>
      BY <3>2 DEF Distinct
    <3> QED BY <1>4, <3>1, <3>2
  <2>5. \A h \in Greenlets : InReady(h)' => /\ InReady(h) \/ status[h] = "unborn"
                                            /\ status'[h] \in {"scheduled", "dead", "blocked"}
    BY <1>1, <1>4, <2>1, <2>3
  <2>6. PhaseKept /\ phase' \in Phases
    BY <1>0, <1>4 DEF PhaseKept, Phases
  <2>7. \A h \in Greenlets : /\ status[h] \in {"blocked", "dead"} => status'[h] = status[h]
                             /\ status[h] \notin {"blocked", "dead"} => status'[h] # "blocked"
    BY <1>4, <2>1
  <2>8. QueueOK' /\ \A h \in Greenlets : Fetching(h)' => Fetching(h)
    BY <1>0, <1>2, <1>4, <2>2, <2>4, <2>5, <2>6, <2>7, QueueLocal
  <2> QED BY <1>0, <1>2, <1>4, <2>2, <2>4, <2>6, <2>8 DEF LoopTypes
<1>5. ASSUME NEW g \in Greenlets, Finish(g) \/ Raise(g) PROVE Done
  <2>1. status[g] = "running" /\ ~InReady(g)
    BY <1>1, <1>5 DEF Finish, Raise, Running
  <2> QED BY <1>4, <1>5, <2>1 DEF Finish, Raise
<1>6. ASSUME NEW g \in Greenlets, NEW h \in Greenlets, Schedule(g, h) PROVE Done
  <2>1. ~InReady(h) /\ status[h] = "unborn"
    BY <1>1, <1>6 DEF Schedule
  <2>2. /\ ready' \in Seq(Greenlets) /\ Distinct(ready)'
        /\ \A k \in Greenlets : InReady(k)' <=> (k = h \/ InReady(k))
    BY <1>6, <2>1, QueuedLast DEF Schedule
  <2>3. status' = [status EXCEPT ![h] = "scheduled"] /\ UNCHANGED <<sq, inflight, phase>>
    BY <1>6 DEF Schedule
  <2>4. \A k \in Greenlets : status'[k] = IF k = h THEN "scheduled" ELSE status[k]
    BY <1>0, <2>3
  <2>5. status' \in [Greenlets -> Statuses]
    BY <1>0, <2>3 DEF Statuses
  <2>6. \A k \in Greenlets : InReady(k)' => /\ InReady(k) \/ status[k] = "unborn"
                                            /\ status'[k] \in {"scheduled", "dead", "blocked"}
    BY <1>1, <2>1, <2>2, <2>4
  <2>7. \A k \in Greenlets : /\ status[k] \in {"blocked", "dead"} => status'[k] = status[k]
                             /\ status[k] \notin {"blocked", "dead"} => status'[k] # "blocked"
    BY <2>1, <2>4
  <2>8. PhaseKept
    BY <2>3 DEF PhaseKept
  <2>9. QueueOK' /\ \A k \in Greenlets : Fetching(k)' => Fetching(k)
    BY <1>0, <1>2, <2>2, <2>3, <2>5, <2>6, <2>7, <2>8, QueueLocal
  <2> QED BY <1>0, <1>2, <2>2, <2>3, <2>5, <2>9 DEF LoopTypes
<1>7. ASSUME NEW g \in Greenlets, RunScheduled(g) \/ SkipDead(g) PROVE Done
  <2>1. Takes(g) /\ InReady(g) /\ UNCHANGED <<phase, sq, inflight>>
    BY <1>7, DrainedTakes DEF RunScheduled, SkipDead
  <2>2. ready' \in Seq(Greenlets) /\ Distinct(ready)'
        /\ \A h \in Greenlets : InReady(h)' <=> (InReady(h) /\ h # g)
    BY <2>1 DEF Takes
  <2>3. \/ status[g] = "scheduled" /\ status' = [status EXCEPT ![g] = "running"]
        \/ UNCHANGED status
    BY <1>7 DEF RunScheduled, SkipDead
  <2>4. /\ status' \in [Greenlets -> Statuses]
        /\ \A h \in Greenlets \ {g} : status'[h] = status[h]
        /\ status[g] \in {"blocked", "dead"} => status'[g] = status[g]
        /\ status[g] \notin {"blocked", "dead"} => status'[g] # "blocked"
    BY <1>0, <2>3 DEF Statuses
  <2>5. \A h \in Greenlets : InReady(h)' => /\ InReady(h) \/ status[h] = "unborn"
                                            /\ status'[h] \in {"scheduled", "dead", "blocked"}
    BY <1>1, <2>2, <2>4
  <2>6. \A h \in Greenlets : /\ status[h] \in {"blocked", "dead"} => status'[h] = status[h]
                             /\ status[h] \notin {"blocked", "dead"} => status'[h] # "blocked"
    BY <2>4
  <2>7. PhaseKept
    BY <2>1 DEF PhaseKept
  <2>8. QueueOK' /\ \A h \in Greenlets : Fetching(h)' => Fetching(h)
    BY <1>0, <1>2, <2>1, <2>2, <2>4, <2>5, <2>6, <2>7, QueueLocal
  <2> QED BY <1>0, <1>2, <2>1, <2>2, <2>4, <2>8 DEF LoopTypes
<1>8. CASE ExitIdle \/ LoopFails \/ EndBatch \/ RequestStop \/ ReapStop
  <2>1. UNCHANGED <<status, ready, sq, inflight>> /\ PhaseKept /\ phase' \in Phases
    BY <1>0, <1>8 DEF ExitIdle, LoopFails, EndBatch, RequestStop, ReapStop, PhaseKept, Phases
  <2> QED BY <1>2, <1>3, <2>1
<1>9. CASE SubmitAndWait
  <2>1. inflight' = Submitted /\ sq' = {} /\ ready = <<>> /\ phase' = "wait"
        /\ UNCHANGED <<status, ready>>
    BY <1>9 DEF SubmitAndWait
  <2>2. \A e \in sq : ~e.link
    BY DEF SharedInv, SharedTypes, SharedSqe
  <2>3. Sqes' = Sqes
    BY <2>1, <2>2 DEF Submitted, Sqes
  <2>4. NumbersOK'
    BY <1>0, <2>1, <2>3 DEF NumbersOK
  <2> QED BY <1>3, <2>1, <2>3, <2>4 DEF Phases
<1> QED BY <1>5, <1>6, <1>7, <1>8, <1>9 DEF GreenletStep, LoopStep

(* Greenlet k, which has the thread, throws into the suspended v.          *)
LEMMA QueueThrows ==
  ASSUME SharedInv, Fates \subseteq {"dead"}, NEW k \in Greenlets, NEW v \in Greenlets, ThrowsInto(k, v),
         call' = [call EXCEPT ![v] = NoCall], UNCHANGED accept, WaitersKept,
         AwaitsLess, \A c \in Conns : conn'[c].greenlet # v
  PROVE  /\ QueueOK' /\ status' \in [Greenlets -> Statuses] /\ ready' \in Seq(Greenlets)
         /\ \A h \in Greenlets : Fetching(h)' => Fetching(h) /\ h # v
<1>0. /\ status \in [Greenlets -> Statuses] /\ call \in [Greenlets -> CallRecord] /\ QueueOK
      /\ status[k] = "running" /\ status[v] = "blocked" /\ k # v /\ phase' = "drain"
      /\ status' = [status EXCEPT ![k] = "scheduled", ![v] = "dead"]
      /\ ready' = Append(ready, k)
  BY DEF SharedInv, LoopTypes, SharedTypes, ThrowsInto, Running
<1>1. \A h \in Greenlets : /\ status'[h] = IF h = v THEN "dead" ELSE IF h = k THEN "scheduled" ELSE status[h]
                           /\ call'[h] = IF h = v THEN NoCall ELSE call[h]
  BY <1>0
<1>2. status' \in [Greenlets -> Statuses]
  BY <1>0 DEF Statuses
<1>3. ~InReady(k) /\ call[k] = NoCall
  BY <1>0 DEF QueueOK
<1>4. /\ ready' \in Seq(Greenlets) /\ Distinct(ready)'
      /\ \A h \in Greenlets : InReady(h)' <=> (h = k \/ InReady(h))
  BY <1>0, <1>3, QueuedLast
<1>5. \A h \in Greenlets : (Blocked(h)' <=> Blocked(h) /\ h # v)
  BY <1>0, <1>1 DEF Blocked
<1>6. \A h \in Greenlets \ {v} : Awaits(h)' => Awaits(h)
  BY <1>1 DEF AwaitsLess
<1>7. \A h \in Greenlets : Fetching(h)' => Fetching(h) /\ h # v
  BY <1>0, <1>1, <1>4, <1>5 DEF Fetching, Blocked
<1>8. \A h \in Greenlets : InReady(h)' => status'[h] \in {"scheduled", "dead", "blocked"}
  BY <1>0, <1>1, <1>4 DEF QueueOK
<1>9. \A h \in Greenlets : status'[h] \notin {"blocked", "dead"} => call'[h] = NoCall
  BY <1>0, <1>1, <1>3 DEF QueueOK
<1>10. \A h \in Greenlets : call'[h].kind = "connect" => Blocked(h)'
  BY <1>0, <1>1, <1>5 DEF QueueOK, NoCall
<1>11. \A h \in Greenlets : InReady(h)' /\ call'[h].kind = "connect" => ~Awaits(h)'
  BY <1>0, <1>1, <1>3, <1>4, <1>6 DEF QueueOK, NoCall
<1>12. \A b \in Conns : \A w \in Greenlets : conn'[b].greenlet = w =>
          ~InReady(w)' /\ Blocked(w)' /\ call'[w].kind \in Transfers /\ call'[w].conn = b
  <2> SUFFICES ASSUME NEW b \in Conns, NEW w \in Greenlets, conn'[b].greenlet = w
               PROVE  ~InReady(w)' /\ Blocked(w)' /\ call'[w].kind \in Transfers /\ call'[w].conn = b
    OBVIOUS
  <2>1. conn[b].greenlet = w /\ w # v
    BY ConnsAssumption DEF WaitersKept
  <2>2. ~InReady(w) /\ Blocked(w) /\ call[w].kind \in Transfers /\ call[w].conn = b
    BY <1>0, <2>1 DEF QueueOK
  <2>3. w # k
    BY <1>0, <2>2 DEF Blocked
  <2> QED BY <1>1, <1>4, <1>5, <2>1, <2>2, <2>3
<1>13. \A a \in Greenlets : accept'.greenlet = a =>
          ~InReady(a)' /\ (status'[a] = "dead" \/ (Blocked(a)' /\ call'[a].kind = "accept"))
  <2> SUFFICES ASSUME NEW a \in Greenlets, accept'.greenlet = a
               PROVE  ~InReady(a)' /\ (status'[a] = "dead" \/ (Blocked(a)' /\ call'[a].kind = "accept"))
    OBVIOUS
  <2>1. ~InReady(a) /\ (status[a] = "dead" \/ (Blocked(a) /\ call[a].kind = "accept"))
    BY <1>0 DEF QueueOK
  <2>2. a # k
    BY <1>0, <2>1 DEF Blocked
  <2> QED BY <1>1, <1>4, <1>5, <2>1, <2>2
<1>14. \A h, j \in Greenlets : Fetching(h)' /\ Fetching(j)' => h = j
  BY <1>0, <1>7 DEF QueueOK
<1> QED BY <1>0, <1>2, <1>4, <1>7, <1>8, <1>9, <1>10, <1>11, <1>12, <1>13, <1>14 DEF QueueOK

-----------------------------------------------------------------------------
(* Descriptors and the closes of their fds.                                *)

(* Nobody comes to hold a descriptor, nothing comes to close an fd.        *)
RolesLess ==
  \A d \in Desc : /\ Given(d)' => Given(d)
                  /\ Arrived(d)' => Arrived(d)
                  /\ \A g \in Greenlets : Connects(g, d)' => Connects(g, d)

ClosersLess ==
  \A fd \in Fds : /\ \A e : Closing(e, fd)' => Closing(e, fd)
                  /\ \A c : Cancelling(c, fd)' => Cancelling(c, fd)

(* What makes the roles fewer.                                             *)
LEMMA RolesOf ==
  ASSUME Descs' \subseteq Descs, accept'.result = accept.result,
         \A g \in Greenlets : Fetching(g)' => Fetching(g),
         \A g \in Greenlets : call'[g].kind = "connect" => call'[g] = call[g]
  PROVE  RolesLess
BY DEF RolesLess, Given, Arrived, Connects

(* Fewer roles are no less exclusive.                                      *)
LEMMA RolesStayOnce ==
  ASSUME HeldOnce, RolesLess
  PROVE  HeldOnce' /\ \A d \in Desc : Held(d)' => Held(d)
<1>1. \A d \in Desc : /\ Given(d)' => Given(d)
                      /\ Arrived(d)' => Arrived(d)
                      /\ \A g \in Greenlets : Connects(g, d)' => Connects(g, d)
  BY DEF RolesLess
<1>2. /\ \A d \in Desc : ~(Given(d) /\ Arrived(d))
      /\ \A d \in Desc : \A g \in Greenlets : Connects(g, d) => ~Given(d) /\ ~Arrived(d)
      /\ \A d \in Desc : \A g, h \in Greenlets : Connects(g, d) /\ Connects(h, d) => g = h
  BY DEF HeldOnce
<1>3. \A d \in Desc : Held(d)' => Held(d)
  BY <1>1 DEF Held
<1>4. \A d \in Desc : ~(Given(d)' /\ Arrived(d)')
  BY <1>1, <1>2
<1>5. \A d \in Desc : \A g \in Greenlets : Connects(g, d)' => ~Given(d)' /\ ~Arrived(d)'
  BY <1>1, <1>2
<1>6. \A d \in Desc : \A g, h \in Greenlets : Connects(g, d)' /\ Connects(h, d)' => g = h
  BY <1>1, <1>2
<1> QED BY <1>3, <1>4, <1>5, <1>6 DEF HeldOnce

(* Fewer closers close no more.                                            *)
LEMMA ClosersStay ==
  ASSUME ClosersOK, ClosersLess, \A fd \in Fds : Pending(fd) /\ file[fd] # 0 => file'[fd] # 0
  PROVE  ClosersOK' /\ \A fd \in Fds : Pending(fd)' => Pending(fd)
<1>1. \A fd \in Fds : Pending(fd)' => Pending(fd)
  BY DEF ClosersLess, Pending, Closing, Cancelling
<1>2. \A fd \in Fds :
        /\ \A e, f : Closing(e, fd)' /\ Closing(f, fd)' => e = f
        /\ \A c, d : Cancelling(c, fd)' /\ Cancelling(d, fd)' => c = d
        /\ \A e, c : ~(Closing(e, fd)' /\ Cancelling(c, fd)')
  <2> TAKE fd \in Fds
  <2>1. /\ \A e, f : Closing(e, fd) /\ Closing(f, fd) => e = f
        /\ \A c, d : Cancelling(c, fd) /\ Cancelling(d, fd) => c = d
        /\ \A e, c : ~(Closing(e, fd) /\ Cancelling(c, fd))
    BY DEF ClosersOK, Closing, Cancelling
  <2> QED BY <2>1 DEF ClosersLess
<1>3. \A fd \in Fds : Pending(fd)' => file'[fd] # 0
  BY <1>1 DEF ClosersOK
<1> QED BY <1>1, <1>2, <1>3 DEF ClosersOK

(* A descriptor may change hands, but no file is opened or closed.         *)
LEMMA HoldSame ==
  ASSUME SharedInv, UNCHANGED file, ClosersLess, HeldOnce', SocketsOK',
         \A d \in Desc : Held(d)' => Held(d)
  PROVE  HoldOK'
<1>1. ClosersOK' /\ \A fd \in Fds : Pending(fd)' => Pending(fd)
  BY ClosersStay DEF SharedInv, HoldOK
<1>2. HeldLive'
  BY <1>1 DEF SharedInv, HoldOK, HeldLive, Live, Desc
<1> QED BY <1>1, <1>2 DEF HoldOK

(* A file is opened.                                                       *)
LEMMA HoldOpens ==
  ASSUME SharedInv, NEW d \in Desc, d.file # 0, file[d.fd] = 0, file' = [file EXCEPT ![d.fd] = d.file],
         ClosersLess, HeldOnce', SocketsOK',
         \A b \in Desc : Held(b)' => Held(b) \/ b = d
  PROVE  HoldOK'
<1>0. file \in [Fds -> Nat] /\ d.fd \in Fds
  BY DEF SharedInv, LoopTypes, Desc
<1>1. \A fd \in Fds : file'[fd] = IF fd = d.fd THEN d.file ELSE file[fd]
  BY <1>0
<1>2. ClosersOK' /\ \A fd \in Fds : Pending(fd)' => Pending(fd)
  BY <1>1, ClosersStay DEF SharedInv, HoldOK
<1>3. ~Pending(d.fd)
  BY <1>0 DEF SharedInv, HoldOK, ClosersOK
<1>4. ASSUME NEW b \in Desc, Held(b)' PROVE Live(b)' /\ ~Pending(b.fd)'
  <2>1. CASE b = d
    BY <1>0, <1>1, <1>2, <1>3, <2>1 DEF Live
  <2>2. CASE b # d
    <3>1. Live(b) /\ ~Pending(b.fd) /\ b.fd \in Fds
      BY <1>4, <2>2 DEF SharedInv, HoldOK, HeldLive, Desc
    <3> QED BY <1>0, <1>1, <1>2, <3>1 DEF Live
  <2> QED BY <2>1, <2>2
<1>5. HeldLive'
  BY <1>4 DEF HeldLive
<1> QED BY <1>2, <1>5 DEF HoldOK

(* Two descriptors that are held and have the same fd are one.             *)
LEMMA HeldFd ==
  ASSUME SharedInv, NEW d \in Desc, NEW e \in Desc, Held(d), Held(e), d.fd = e.fd
  PROVE  d = e
BY DEF SharedInv, HoldOK, HeldLive, Live, Desc

(* An fd that nothing was about to close is going to be closed.            *)
LEMMA HoldCloses ==
  ASSUME SharedInv, NEW x \in Fds, ~Pending(x), file[x] # 0, UNCHANGED file, RolesLess, SocketsOK',
         \A fd \in Fds \ {x} : /\ \A e : Closing(e, fd)' => Closing(e, fd)
                               /\ \A c : Cancelling(c, fd)' => Cancelling(c, fd),
         \A e, f \in Sqes' : Closing(e, x)' /\ Closing(f, x)' => e = f,
         \A c, d \in Conns : Cancelling(c, x)' /\ Cancelling(d, x)' => c = d,
         \A e \in Sqes', c \in Conns : ~(Closing(e, x)' /\ Cancelling(c, x)'),
         \A d \in Desc : Held(d)' => d.fd # x
  PROVE  HoldOK'
<1>1. \A fd \in Fds \ {x} : Pending(fd)' => Pending(fd)
  BY DEF Pending, Closing, Cancelling
<1>2. ASSUME NEW fd \in Fds
      PROVE  /\ \A e, f \in Sqes' : Closing(e, fd)' /\ Closing(f, fd)' => e = f
             /\ \A c, d \in Conns : Cancelling(c, fd)' /\ Cancelling(d, fd)' => c = d
             /\ \A e \in Sqes', c \in Conns : ~(Closing(e, fd)' /\ Cancelling(c, fd)')
  <2>1. /\ \A e, f : Closing(e, fd) /\ Closing(f, fd) => e = f
        /\ \A c, d : Cancelling(c, fd) /\ Cancelling(d, fd) => c = d
        /\ \A e, c : ~(Closing(e, fd) /\ Cancelling(c, fd))
    BY DEF SharedInv, HoldOK, ClosersOK, Closing, Cancelling
  <2>2. CASE fd = x
    BY <2>2
  <2>3. CASE fd # x
    BY <2>1, <2>3
  <2> QED BY <2>2, <2>3
<1>3. \A fd \in Fds : Pending(fd)' => file'[fd] # 0
  <2>1. \A fd \in Fds \ {x} : Pending(fd)' => file[fd] # 0
    BY <1>1 DEF SharedInv, HoldOK, ClosersOK
  <2> QED BY <2>1
<1>4. ClosersOK'
  BY <1>2, <1>3 DEF ClosersOK
<1>5. HeldOnce' /\ \A d \in Desc : Held(d)' => Held(d)
  BY RolesStayOnce DEF SharedInv, HoldOK
<1>6. HeldLive'
  BY <1>1, <1>5 DEF SharedInv, HoldOK, HeldLive, Live, Desc
<1> QED BY <1>4, <1>5, <1>6 DEF HoldOK

(* A completion, which may be that of a close, and which may make a        *)
(* connection that was cancelling queue its close.                         *)
LEMMA HoldReaps ==
  ASSUME SharedInv, NEW e \in inflight, NEW c, NEW f,
         file' = (IF e.kind \in Closes THEN [file EXCEPT ![e.desc.fd] = 0] ELSE file),
         \A fd \in Fds : \A x : Closing(x, fd)' =>
           (Closing(x, fd) /\ x # e) \/ (x = f /\ Cancelling(c, fd) /\ ~Cancelling(c, fd)'),
         \A fd \in Fds : \A b : Cancelling(b, fd)' => Cancelling(b, fd),
         RolesLess, SocketsOK'
  PROVE  HoldOK'
<1>0. file \in [Fds -> Nat] /\ e \in Sqes
  BY DEF SharedInv, LoopTypes, Sqes
<1>1. \A fd \in Fds : file'[fd] = file[fd] \/ Closing(e, fd)
  BY <1>0 DEF Closing
<1>2. ASSUME NEW fd \in Fds
      PROVE  /\ \A x, y : Closing(x, fd) /\ Closing(y, fd) => x = y
             /\ \A x, y : Cancelling(x, fd) /\ Cancelling(y, fd) => x = y
             /\ \A x, y : ~(Closing(x, fd) /\ Cancelling(y, fd))
             /\ Pending(fd) <=> (\E x : Closing(x, fd)) \/ (\E y : Cancelling(y, fd))
             /\ Pending(fd)' <=> (\E x : Closing(x, fd)') \/ (\E y : Cancelling(y, fd)')
  BY DEF SharedInv, HoldOK, ClosersOK, Closing, Cancelling, Pending
<1>3. ASSUME NEW fd \in Fds
      PROVE  /\ \A x, y : Closing(x, fd)' /\ Closing(y, fd)' => x = y
             /\ \A x, y : Cancelling(x, fd)' /\ Cancelling(y, fd)' => x = y
             /\ \A x, y : ~(Closing(x, fd)' /\ Cancelling(y, fd)')
             /\ Pending(fd)' => Pending(fd) /\ ~Closing(e, fd)
  BY <1>2
<1>4. \A fd \in Fds : Pending(fd)' => file'[fd] # 0
  BY <1>1, <1>3 DEF SharedInv, HoldOK, ClosersOK
<1>5. ClosersOK'
  BY <1>3, <1>4 DEF ClosersOK
<1>6. HeldOnce' /\ \A d \in Desc : Held(d)' => Held(d)
  BY RolesStayOnce DEF SharedInv, HoldOK
<1>7. ASSUME NEW d \in Desc, Held(d)' PROVE Live(d)' /\ ~Pending(d.fd)'
  <2>1. Live(d) /\ ~Pending(d.fd) /\ d.fd \in Fds
    BY <1>6, <1>7 DEF SharedInv, HoldOK, HeldLive, Desc
  <2>2. ~Closing(e, d.fd)
    BY <1>2, <2>1
  <2> QED BY <1>1, <1>3, <2>1, <2>2 DEF Live
<1>8. HeldLive'
  BY <1>7 DEF HeldLive
<1> QED BY <1>5, <1>6, <1>8 DEF HoldOK

(* The connections of sockets that are being connected after a step that   *)
(* changes connection c only.                                              *)
LEMMA SocketsKept ==
  ASSUME SharedInv, NEW c \in Conns, \A b \in Conns \ {c} : conn'[b] = conn[b],
         freeConns' \subseteq freeConns \cup {c},
         \A g \in Greenlets : call'[g].kind = "connect" => call'[g] = call[g],
         \/ /\ conn'[c].desc = conn[c].desc /\ freeConns' \subseteq freeConns
            /\ conn'[c].state \notin {"cancelling", "closing"}
         \/ \A g \in Greenlets : call'[g].kind = "connect" => call[g].conn # c
  PROVE  SocketsOK'
<1>1. ASSUME NEW g \in Greenlets, call'[g].kind = "connect"
      PROVE  /\ call'[g] = call[g] /\ call[g].kind = "connect"
             /\ call'[g].conn \in Conns \ freeConns'
             /\ conn'[call'[g].conn].desc = call'[g].desc
             /\ conn'[call'[g].conn].state \notin {"cancelling", "closing"}
  <2>1. call'[g] = call[g] /\ call[g].kind = "connect"
    BY <1>1
  <2>2. /\ call[g].conn \in Conns \ freeConns
        /\ conn[call[g].conn].desc = call[g].desc
        /\ conn[call[g].conn].state \notin {"cancelling", "closing"}
    BY <2>1 DEF SharedInv, HoldOK, SocketsOK, ConnectsOK
  <2> QED BY <1>1, <2>1, <2>2
<1>2. ConnectsOK' /\ \A g \in Greenlets : call'[g].kind = "connect" =>
         conn'[call'[g].conn].state \notin {"cancelling", "closing"}
  BY <1>1 DEF ConnectsOK
<1>3. \A g, h \in Greenlets :
       call'[g].kind = "connect" /\ call'[h].kind = "connect" /\ call'[g].conn = call'[h].conn => g = h
  BY <1>1 DEF SharedInv, HoldOK, SocketsOK
<1> QED BY <1>2, <1>3 DEF SocketsOK

(* The same when no connection changes.                                    *)
LEMMA SocketsSame ==
  ASSUME SharedInv, UNCHANGED <<conn, freeConns>>,
         \A g \in Greenlets : call'[g].kind = "connect" => call'[g] = call[g]
  PROVE  SocketsOK'
BY DEF SharedInv, HoldOK, SocketsOK, ConnectsOK

(* The connection an fd maps to whose descriptor a greenlet was given is   *)
(* not that of a socket that is being connected, and is not cancelling.    *)
LEMMA GivenConn ==
  ASSUME SharedInv, NEW d \in Descs, fdToConn[d.fd] # None
  PROVE  /\ d \in Desc /\ d.fd \in Fds /\ ~Pending(d.fd) /\ file[d.fd] # 0
         /\ fdToConn[d.fd] \in Conns \ freeConns
         /\ conn[fdToConn[d.fd]].desc.fd = d.fd
         /\ conn[fdToConn[d.fd]].state # "cancelling"
         /\ \A g \in Greenlets : call[g].kind = "connect" => call[g].conn # fdToConn[d.fd]
<1>1. d \in Desc /\ d.fd \in Fds
  BY DEF SharedInv, SharedTypes, Descs, Desc
<1>2. Held(d) /\ Live(d) /\ ~Pending(d.fd)
  BY <1>1 DEF Held, Given, SharedInv, HoldOK, HeldLive
<1>3. file[d.fd] # 0
  BY <1>2 DEF Live
<1>4. /\ fdToConn[d.fd] \in Conns \ freeConns
      /\ conn[fdToConn[d.fd]].desc.fd = d.fd
  BY <1>1 DEF SharedInv, SharedTypes, MapOK, FdMapSound
<1>5. conn[fdToConn[d.fd]].state # "cancelling"
  BY <1>2, <1>4 DEF Pending, Cancelling
<1>6. ASSUME NEW g \in Greenlets, call[g].kind = "connect", call[g].conn = fdToConn[d.fd]
      PROVE  FALSE
  <2>1. call[g].desc \in Desc /\ call[g].desc.fd = d.fd
    BY <1>4, <1>6 DEF SharedInv, SharedTypes, CallsTyped, HoldOK, SocketsOK, ConnectsOK
  <2>2. Connects(g, call[g].desc) /\ Held(call[g].desc)
    BY <1>6 DEF Connects, Held
  <2>3. call[g].desc = d
    BY <1>1, <1>2, <2>1, <2>2, HeldFd
  <2> QED BY <1>1, <2>2, <2>3 DEF SharedInv, HoldOK, HeldOnce, Given
<1> QED BY <1>1, <1>2, <1>3, <1>4, <1>5, <1>6

(* A file that is not open yet is held by nobody.                          *)
LEMMA FreshDesc ==
  ASSUME SharedInv, NEW d \in Desc, file[d.fd] = 0
  PROVE  ~Held(d)
BY DEF SharedInv, HoldOK, HeldLive, Live

(* One descriptor changes hands.                                           *)
LEMMA OnceGains ==
  ASSUME HeldOnce, NEW d \in Desc,
         \A b \in Desc \ {d} : /\ Given(b)' => Given(b)
                               /\ Arrived(b)' => Arrived(b)
                               /\ \A g \in Greenlets : Connects(g, b)' => Connects(g, b),
         ~(Given(d)' /\ Arrived(d)'),
         \A g \in Greenlets : Connects(g, d)' => ~Given(d)' /\ ~Arrived(d)',
         \A g, h \in Greenlets : Connects(g, d)' /\ Connects(h, d)' => g = h
  PROVE  HeldOnce' /\ \A b \in Desc : Held(b)' => Held(b) \/ b = d
<1>1. /\ \A b \in Desc : ~(Given(b) /\ Arrived(b))
      /\ \A b \in Desc : \A g \in Greenlets : Connects(g, b) => ~Given(b) /\ ~Arrived(b)
      /\ \A b \in Desc : \A g, h \in Greenlets : Connects(g, b) /\ Connects(h, b) => g = h
  BY DEF HeldOnce
<1>2. \A b \in Desc : Held(b)' => Held(b) \/ b = d
  BY DEF Held
<1>3. \A b \in Desc : ~(Given(b)' /\ Arrived(b)')
  BY <1>1
<1>4. \A b \in Desc : \A g \in Greenlets : Connects(g, b)' => ~Given(b)' /\ ~Arrived(b)'
  BY <1>1
<1>5. \A b \in Desc : \A g, h \in Greenlets : Connects(g, b)' /\ Connects(h, b)' => g = h
  BY <1>1
<1> QED BY <1>2, <1>3, <1>4, <1>5 DEF HeldOnce

(* One connection changes.                                                 *)
LEMMA ConnStep ==
  ASSUME SharedInv, NEW c \in Conns, NEW r, conn' = [conn EXCEPT ![c] = r]
  PROVE  /\ \A b \in Conns : conn'[b] = IF b = c THEN r ELSE conn[b]
         /\ r.greenlet \in {None, conn[c].greenlet} => WaitersKept
         /\ r.state # "cancelling" => \A b, fd : Cancelling(b, fd)' => Cancelling(b, fd) /\ b # c
<1>1. \A b \in Conns : conn'[b] = IF b = c THEN r ELSE conn[b]
  BY DEF SharedInv, SharedTypes
<1> QED BY <1>1 DEF WaitersKept, Cancelling

(* A step that queues no close.                                            *)
LEMMA NoNewClose ==
  ASSUME inflight' \subseteq inflight,
         (UNCHANGED sq) \/ \E e : Queues(e) /\ e.kind \notin Closes
  PROVE  \A x, fd : Closing(x, fd)' => Closing(x, fd)
<1>1. CASE UNCHANGED sq
  BY <1>1 DEF Closing, Sqes
<1>2. ASSUME NEW e, Queues(e), e.kind \notin Closes
      PROVE  \A x, fd : Closing(x, fd)' => Closing(x, fd)
  BY <1>2 DEF Closing, Sqes, Queues
<1> QED BY <1>1, <1>2

(* What the waiter of a released connection becomes.                       *)
LEMMA ReleaseWaiter ==
  ASSUME SharedInv, NEW c \in Conns, Release(c)
  PROVE  /\ (UNCHANGED status) \/ \E v \in Greenlets : WaiterDropped(v)
         /\ WaitersKept
         /\ \A b, fd : Cancelling(b, fd)' => Cancelling(b, fd) /\ b # c
<1>1. conn' = [conn EXCEPT ![c] = ReleasedConn(c)]
  BY DEF Release
<1>2. ReleasedConn(c).greenlet = None /\ ReleasedConn(c).state = "idle"
  BY DEF ReleasedConn
<1>3. WaitersKept /\ \A b, fd : Cancelling(b, fd)' => Cancelling(b, fd) /\ b # c
  BY <1>1, <1>2, ConnStep
<1>8. conn'[c] = ReleasedConn(c)
  BY <1>1 DEF SharedInv, SharedTypes
<1>4. PICK v \in Greenlets \cup {None} : v = conn[c].greenlet
  BY DEF SharedInv, SharedTypes, SharedConn
<1>5. (UNCHANGED status) \/ (v # None /\ ~InReady(v) /\ status' = [status EXCEPT ![v] = "dead"])
  BY <1>4 DEF Release, DropsWaiter
<1>6. CASE UNCHANGED status
  BY <1>3, <1>6
<1>7. CASE v # None /\ ~InReady(v) /\ status' = [status EXCEPT ![v] = "dead"]
  <2>1. v \in Greenlets /\ conn[c].greenlet = v /\ conn'[c].greenlet = None
    BY <1>2, <1>4, <1>7, <1>8
  <2>2. WaiterDropped(v)
    BY <1>7, <2>1 DEF WaiterDropped
  <2> QED BY <1>3, <2>1, <2>2
<1> QED BY <1>5, <1>6, <1>7

RestOK == LoopTypes /\ QueueOK /\ NumbersOK /\ HoldOK

(* A step of a greenlet, or of the loop, that suspends and wakes nobody.   *)
LEMMA SameRest ==
  ASSUME SharedInv, SharedTypes', UNCHANGED <<ready, accept, call>>, inflight' \subseteq inflight, QueuesOne,
         PhaseKept, WaitersKept, phase' \in Phases, file' \in [Fds -> Nat],
         (UNCHANGED status) \/ \E v \in Greenlets : WaiterDropped(v)
  PROVE  /\ LoopTypes' /\ QueueOK' /\ NumbersOK'
         /\ \A g \in Greenlets : Fetching(g)' => Fetching(g)
<1>1. NumbersOK' /\ AwaitsLess
  BY NumbersStep DEF AwaitsLess
<1>2. QueueOK' /\ (\A g \in Greenlets : Fetching(g)' => Fetching(g)) /\ status' \in [Greenlets -> Statuses]
  BY <1>1, QueueSame
<1> QED BY <1>1, <1>2 DEF LoopTypes, SharedInv

(* A greenlet creates a socket or a pipe.                                  *)
LEMMA OpenFileRest ==
  ASSUME SharedInv, SharedTypes', NEW g \in Greenlets, NEW fd \in Fds, OpenFile(g, fd)
  PROVE  RestOK'
<1>0. [fd |-> fd, file |-> files + 1] \in Desc
  BY DEF SharedInv, SharedTypes, Desc
<1>1. PICK d \in Desc : d = [fd |-> fd, file |-> files + 1]
  BY <1>0
<1>2. /\ UNCHANGED <<status, ready, phase, sq, inflight, ops, conn, freeConns, accept, call>>
      /\ file[fd] = 0 /\ file' = [file EXCEPT ![fd] = files + 1]
      /\ own' = [own EXCEPT ![g] = @ \cup {d}]
  BY <1>1 DEF OpenFile, Opens, loopVars, connVars
<1>3. d.fd = fd /\ d.file = files + 1 /\ d.file # 0
  BY <1>1 DEF SharedInv, SharedTypes
<1>4. file' \in [Fds -> Nat]
  BY <1>2 DEF SharedInv, SharedTypes, LoopTypes
<1>5. /\ LoopTypes' /\ QueueOK' /\ NumbersOK'
      /\ \A h \in Greenlets : Fetching(h)' => Fetching(h)
  BY <1>2, <1>4, SameRest DEF QueuesOne, PhaseKept, WaitersKept, SharedInv, LoopTypes
<1>6. \A b \in Desc \ {d} : Given(b)' => Given(b)
  <2>1. \A h \in Greenlets : own'[h] \subseteq own[h] \cup {d}
    BY <1>2 DEF SharedInv, SharedTypes
  <2> QED BY <2>1 DEF Given, Descs
<1>7. \A b \in Desc : /\ Arrived(b)' => Arrived(b)
                      /\ \A h \in Greenlets : Connects(h, b)' => Connects(h, b)
  <2>1. accept'.result = accept.result /\ \A h \in Greenlets : call'[h] = call[h]
    BY <1>2
  <2> QED BY <1>5, <2>1 DEF Arrived, Connects
<1>8. ~Held(d)
  BY <1>1, <1>2, <1>3, FreshDesc
<1>9. ~Arrived(d)' /\ \A h \in Greenlets : ~Connects(h, d)'
  BY <1>1, <1>7, <1>8 DEF Held
<1>10. HeldOnce' /\ \A b \in Desc : Held(b)' => Held(b) \/ b = d
  BY <1>1, <1>6, <1>7, <1>9, OnceGains DEF SharedInv, HoldOK
<1>11. ClosersLess
  BY <1>2 DEF ClosersLess, Closing, Cancelling, Sqes
<1>12. SocketsOK'
  BY <1>2, SocketsSame
<1>13. HoldOK'
  BY <1>1, <1>2, <1>3, <1>10, <1>11, <1>12, HoldOpens
<1> QED BY <1>5, <1>13 DEF RestOK

(* A green_connect that fails before it waits.                             *)
LEMMA ConnectFailsRest ==
  ASSUME SharedInv, SharedTypes', NEW g \in Greenlets, ConnectFails(g)
  PROVE  RestOK'
<1>1. PICK c \in freeConns : conn' = [conn EXCEPT ![c] = ReleasedConn(c)]
  BY DEF ConnectFails
<1>2. UNCHANGED <<status, ready, phase, sq, inflight, ops, freeConns, accept, call, own, file>>
  BY DEF ConnectFails, loopVars, envVars
<1>3. c \in Conns /\ ReleasedConn(c).greenlet = None /\ ReleasedConn(c).state = "idle"
  BY DEF SharedInv, SharedTypes, ReleasedConn
<1>4. /\ \A b \in Conns \ {c} : conn'[b] = conn[b]
      /\ WaitersKept /\ \A b, fd : Cancelling(b, fd)' => Cancelling(b, fd)
  BY <1>1, <1>3, ConnStep
<1>5. /\ LoopTypes' /\ QueueOK' /\ NumbersOK'
      /\ \A h \in Greenlets : Fetching(h)' => Fetching(h)
  BY <1>2, <1>4, SameRest DEF QueuesOne, PhaseKept, SharedInv, LoopTypes
<1>6. ClosersLess
  BY <1>2, <1>4 DEF ClosersLess, Closing, Sqes
<1>7. RolesLess
  BY <1>2, <1>5, RolesOf DEF Descs
<1>8. \A h \in Greenlets : call[h].kind = "connect" => call[h].conn # c
  BY DEF SharedInv, HoldOK, SocketsOK, ConnectsOK
<1>9. SocketsOK'
  BY <1>2, <1>3, <1>4, <1>8, SocketsKept
<1>10. HoldOK'
  BY <1>2, <1>6, <1>7, <1>9, HoldSame, RolesStayOnce DEF SharedInv, HoldOK
<1> QED BY <1>5, <1>10 DEF RestOK

(* A descriptor is handed to a new greenlet.                               *)
LEMMA SpawnRest ==
  ASSUME SharedInv, SharedTypes', NEW g \in Greenlets, NEW h \in Greenlets, NEW d, Spawn(g, h, d)
  PROVE  RestOK'
<1>1. UNCHANGED <<connVars, file, files, ops>> /\ Schedule(g, h) /\ GreenletStep
      /\ UNCHANGED <<conn, freeConns, accept, call>>
  BY DEF Spawn, GreenletStep, connVars
<1>2. /\ LoopTypes' /\ QueueOK' /\ NumbersOK' /\ Sqes' = Sqes
      /\ \A k \in Greenlets : Fetching(k)' => Fetching(k)
  BY <1>1, LoopQueue
<1>3. Descs' \subseteq Descs
  BY DEF Spawn, Descs, SharedInv, SharedTypes
<1>4. RolesLess
  BY <1>1, <1>2, <1>3, RolesOf
<1>5. ClosersLess
  BY <1>1, <1>2 DEF ClosersLess, Closing, Cancelling
<1>6. SocketsOK'
  BY <1>1, SocketsSame
<1>7. HoldOK'
  BY <1>1, <1>4, <1>5, <1>6, HoldSame, RolesStayOnce DEF SharedInv, HoldOK
<1> QED BY <1>2, <1>7 DEF RestOK

(* green_register_fd.                                                      *)
LEMMA RegisterFdRest ==
  ASSUME SharedInv, SharedTypes', NEW g \in Greenlets, NEW d \in Descs, RegisterFd(g, d)
  PROVE  RestOK'
<1>1. PICK c \in freeConns : Registers(c, d)
  BY DEF RegisterFd
<1>2. UNCHANGED <<status, ready, phase, sq, inflight, ops, accept, call, own, file>>
  BY DEF RegisterFd, loopVars, envVars
<1> DEFINE r == [desc |-> d, state |-> "idle", gen |-> conn[c].gen,
                 greenlet |-> conn[c].greenlet, pending |-> 0, result |-> 0]
<1>3. c \in Conns /\ conn' = [conn EXCEPT ![c] = r] /\ freeConns' = freeConns \ {c}
      /\ r.greenlet = conn[c].greenlet /\ r.state = "idle"
  BY <1>1 DEF Registers, SharedInv, SharedTypes
<1> HIDE DEF r
<1>4. /\ \A b \in Conns \ {c} : conn'[b] = conn[b]
      /\ WaitersKept /\ \A b, fd : Cancelling(b, fd)' => Cancelling(b, fd)
  BY <1>3, ConnStep
<1>5. /\ LoopTypes' /\ QueueOK' /\ NumbersOK'
      /\ \A h \in Greenlets : Fetching(h)' => Fetching(h)
  BY <1>2, <1>4, SameRest DEF QueuesOne, PhaseKept, SharedInv, LoopTypes
<1>6. ClosersLess
  BY <1>2, <1>4 DEF ClosersLess, Closing, Sqes
<1>7. RolesLess
  BY <1>2, <1>5, RolesOf DEF Descs
<1>8. \A h \in Greenlets : call[h].kind = "connect" => call[h].conn # c
  BY DEF SharedInv, HoldOK, SocketsOK, ConnectsOK
<1>9. SocketsOK'
  BY <1>2, <1>3, <1>4, <1>8, SocketsKept
<1>10. HoldOK'
  BY <1>2, <1>6, <1>7, <1>9, HoldSame, RolesStayOnce DEF SharedInv, HoldOK
<1> QED BY <1>5, <1>10 DEF RestOK

(* green_unregister_fd.                                                    *)
LEMMA UnregisterFdRest ==
  ASSUME SharedInv, SharedTypes', NEW g \in Greenlets, NEW d \in Descs, UnregisterFd(g, d)
  PROVE  RestOK'
<1>1. fdToConn[d.fd] # None
  BY DEF UnregisterFd
<1>2. PICK c \in Conns : c = fdToConn[d.fd] /\ \A h \in Greenlets : call[h].kind = "connect" => call[h].conn # c
  BY <1>1, GivenConn
<1>3. Release(c) /\ UNCHANGED <<ready, phase, sq, inflight, ops, accept, call, own, file>>
  BY <1>2 DEF UnregisterFd, envVars
<1>4. /\ (UNCHANGED status) \/ \E v \in Greenlets : WaiterDropped(v)
      /\ WaitersKept /\ \A b, fd : Cancelling(b, fd)' => Cancelling(b, fd)
  BY <1>3, ReleaseWaiter
<1>5. conn' = [conn EXCEPT ![c] = ReleasedConn(c)] /\ freeConns' = freeConns \cup {c}
  BY <1>3 DEF Release
<1>6. \A b \in Conns \ {c} : conn'[b] = conn[b]
  BY <1>5, ConnStep
<1>7. /\ LoopTypes' /\ QueueOK' /\ NumbersOK'
      /\ \A h \in Greenlets : Fetching(h)' => Fetching(h)
  BY <1>3, <1>4, SameRest DEF QueuesOne, PhaseKept, SharedInv, LoopTypes
<1>8. ClosersLess
  BY <1>3, <1>4 DEF ClosersLess, Closing, Sqes
<1>9. RolesLess
  BY <1>3, <1>7, RolesOf DEF Descs
<1>10. SocketsOK'
  BY <1>2, <1>3, <1>5, <1>6, SocketsKept
<1>11. HoldOK'
  BY <1>3, <1>8, <1>9, <1>10, HoldSame, RolesStayOnce DEF SharedInv, HoldOK
<1> QED BY <1>7, <1>11 DEF RestOK

(* A greenlet suspends in green_accept, green_recv or green_send.          *)
LEMMA SuspendRest ==
  ASSUME SharedInv, SharedTypes', NEW g \in Greenlets, Takes(g),
         NEW kind \in {"accept"} \cup Transfers, NEW c \in Conns \cup {None}, NEW d,
         Suspends(g, kind, c, d), \E e : Queues(e) /\ e.op = ops + 1 /\ e.kind \notin Closes,
         UNCHANGED <<inflight, own, file>>,
         \A b \in Conns : conn'[b].greenlet \in {None, conn[b].greenlet}
                          \/ (b = c /\ kind \in Transfers /\ conn'[b].greenlet = g),
         accept'.greenlet = accept.greenlet \/ (kind = "accept" /\ accept'.greenlet = g),
         accept'.result = accept.result,
         \A b, fd : Cancelling(b, fd)' => Cancelling(b, fd),
         (\A h \in Greenlets : call'[h].kind = "connect" => call'[h] = call[h]) => SocketsOK'
  PROVE  RestOK'
<1>1. /\ call'[g].kind = kind /\ call'[g].op = ops + 1
      /\ \A h \in Greenlets \ {g} : call'[h] = call[h]
  BY DEF Suspends, SharedInv, SharedTypes
<1>2. PICK e : Queues(e) /\ e.op = ops + 1 /\ e.kind \notin Closes
  OBVIOUS
<1>3. ops' = ops + 1 /\ QueuesOne
  BY <1>2 DEF Queues, QueuesOne
<1>4. \A h \in Greenlets : call'[h].op = call[h].op \/ (call'[h].op = ops + 1 /\ ops' = ops + 1)
  BY <1>1, <1>3
<1>5. NumbersOK' /\ AwaitsLess
  BY <1>3, <1>4, NumbersStep DEF AwaitsLess
<1>6. QueueOK' /\ (\A h \in Greenlets : Fetching(h)' => Fetching(h)) /\ status' \in [Greenlets -> Statuses]
  BY <1>5, QueueSuspends
<1>7. LoopTypes'
  BY <1>6 DEF LoopTypes, SharedInv, Takes, Phases
<1>8. \A h \in Greenlets : call'[h].kind = "connect" => call'[h] = call[h]
  BY <1>1 DEF Transfers
<1>9. RolesLess
  BY <1>6, <1>8, RolesOf DEF Descs
<1>10. ClosersLess
  BY <1>2, NoNewClose DEF ClosersLess
<1>11. HoldOK'
  BY <1>8, <1>9, <1>10, HoldSame, RolesStayOnce DEF SharedInv, HoldOK
<1> QED BY <1>5, <1>6, <1>7, <1>11 DEF RestOK

(* green_accept.                                                           *)
LEMMA AcceptRest ==
  ASSUME SharedInv, SharedTypes', NEW g \in Greenlets, Accept(g)
  PROVE  RestOK'
<1>1. /\ UNCHANGED <<ready, phase, inflight, conn, freeConns, own, file>>
      /\ accept'.greenlet = g /\ accept'.result = accept.result
      /\ Running(g) /\ Suspends(g, "accept", None, NoDesc)
  BY DEF Accept, Calls, envVars
<1>2. Takes(g)
  BY <1>1, RunningTakes
<1>3. \E e : Queues(e) /\ e.op = ops + 1 /\ e.kind \notin Closes
  <2>1. PICK e : e = Sqe("accept", None, 0, NoDesc)
    OBVIOUS
  <2>2. Queues(e) /\ e.op = ops + 1 /\ e.kind = "accept"
    BY <2>1 DEF Accept, Sqe
  <2> QED BY <2>2 DEF Closes
<1>4. \A b, fd : Cancelling(b, fd)' => Cancelling(b, fd)
  BY <1>1 DEF Cancelling
<1>5. (\A h \in Greenlets : call'[h].kind = "connect" => call'[h] = call[h]) => SocketsOK'
  BY <1>1, SocketsSame
<1> QED BY <1>1, <1>2, <1>3, <1>4, <1>5, SuspendRest

(* A transfer, begun or gone on with.                                      *)
LEMMA TransferRest ==
  ASSUME SharedInv, SharedTypes', NEW g \in Greenlets, Takes(g), NEW kind \in Transfers,
         NEW c \in Conns, NEW d, Transfer(g, kind, c, d),
         UNCHANGED <<freeConns, accept, own, file, inflight>>
  PROVE  RestOK'
<1>1. Suspends(g, kind, c, d)
  BY DEF Transfer
<1>2. \E e : Queues(e) /\ e.op = ops + 1 /\ e.kind \notin Closes
  <2>1. PICK e : e = ForConn(kind, c, d)
    OBVIOUS
  <2>2. Queues(e) /\ e.op = ops + 1 /\ e.kind = kind
    BY <2>1 DEF Transfer, ForConn, Sqe
  <2> QED BY <2>2 DEF Closes, Transfers
<1> DEFINE r == With(conn[c], IF kind = "recv" THEN "reading" ELSE "writing", g,
                     conn[c].pending + 1, conn[c].result)
<1>3. conn' = [conn EXCEPT ![c] = r] /\ r.greenlet = g /\ r.desc = conn[c].desc
      /\ r.state \notin {"cancelling", "closing"}
  BY DEF Transfer, With, SharedInv, SharedTypes
<1> HIDE DEF r
<1>4. \A b \in Conns : conn'[b] = IF b = c THEN r ELSE conn[b]
  BY <1>3, ConnStep
<1>5. \A b, fd : Cancelling(b, fd)' => Cancelling(b, fd)
  BY <1>3, ConnStep
<1>6. \A b \in Conns : conn'[b].greenlet \in {None, conn[b].greenlet}
                       \/ (b = c /\ kind \in Transfers /\ conn'[b].greenlet = g)
  BY <1>3, <1>4
<1>7. ASSUME \A h \in Greenlets : call'[h].kind = "connect" => call'[h] = call[h]
      PROVE  SocketsOK'
  <2>1. /\ \A b \in Conns \ {c} : conn'[b] = conn[b]
        /\ conn'[c].desc = conn[c].desc /\ conn'[c].state \notin {"cancelling", "closing"}
    BY <1>3, <1>4
  <2>2. freeConns' \subseteq freeConns /\ freeConns' \subseteq freeConns \cup {c}
    OBVIOUS
  <2> QED BY <1>7, <2>1, <2>2, SocketsKept
<1>8. (\A h \in Greenlets : call'[h].kind = "connect" => call'[h] = call[h]) => SocketsOK'
  BY <1>7
<1>9. UNCHANGED <<inflight, own, file, accept>> /\ accept'.greenlet = accept.greenlet
      /\ accept'.result = accept.result
  OBVIOUS
<1>10. kind \in {"accept"} \cup Transfers /\ c \in Conns \cup {None} /\ (kind = "accept" => FALSE)
  BY DEF Transfers
<1>11. (accept'.greenlet = accept.greenlet) \/ (kind = "accept" /\ accept'.greenlet = g)
  BY <1>9
<1> HIDE DEF r
<1> QED BY <1>1, <1>2, <1>5, <1>6, <1>8, <1>9, <1>10, <1>11, SuspendRest

(* green_recv and green_send.                                              *)
LEMMA RecvOrSendRest ==
  ASSUME SharedInv, SharedTypes', NEW g \in Greenlets, NEW d \in Descs, NEW kind \in Transfers,
         RecvOrSend(g, kind, d)
  PROVE  RestOK'
<1>1. PICK c \in Conns : c = fdToConn[d.fd]
  BY GivenConn DEF RecvOrSend
<1>2. Transfer(g, kind, c, d) /\ UNCHANGED <<ready, phase, freeConns, accept, own, file, inflight>>
      /\ Running(g)
  BY <1>1 DEF RecvOrSend, Calls, envVars
<1> QED BY <1>2, RunningTakes, TransferRest

(* What submitClose does to a connection.                                  *)
LEMMA SubmitCloseEffect ==
  ASSUME SharedInv, NEW c \in Conns, NEW r, r.desc = conn[c].desc, r.greenlet = conn[c].greenlet,
         SubmitClose(c, r)
  PROVE  /\ QueuesOne /\ WaitersKept
         /\ (UNCHANGED status) \/ \E v \in Greenlets : WaiterDropped(v)
         /\ \A b \in Conns \ {c} : conn'[b] = conn[b]
         /\ freeConns' \subseteq freeConns \cup {c}
         /\ \A b, fd : Cancelling(b, fd)' => Cancelling(b, fd) /\ b # c
         /\ \E f : sq' \subseteq sq \cup {f} /\ f.desc = conn[c].desc
<1>1. CASE HasRoom(1)
  <2>1. PICK f : f = ForConn("close", c, r.desc)
    OBVIOUS
  <2>2. f.op = ops + 1 /\ f.desc = r.desc
    BY <2>1 DEF ForConn, Sqe
  <2>3. PICK q : q = With(r, "closing", r.greenlet, r.pending + 1, r.result)
    OBVIOUS
  <2>4. q.greenlet = r.greenlet /\ q.state = "closing"
    BY <2>3 DEF With
  <2>5. conn' = [conn EXCEPT ![c] = q] /\ Queues(f) /\ UNCHANGED <<freeConns, status>>
    BY <1>1, <2>1, <2>3 DEF SubmitClose
  <2>6. /\ \A b \in Conns \ {c} : conn'[b] = conn[b]
        /\ WaitersKept /\ \A b, fd : Cancelling(b, fd)' => Cancelling(b, fd) /\ b # c
    BY <2>4, <2>5, ConnStep
  <2>7. QueuesOne /\ sq' \subseteq sq \cup {f}
    BY <2>2, <2>5 DEF QueuesOne, Queues
  <2> QED BY <2>2, <2>5, <2>6, <2>7
<1>2. CASE ~HasRoom(1)
  <2>1. Release(c) /\ UNCHANGED <<sq, ops>>
    BY <1>2 DEF SubmitClose
  <2>2. conn' = [conn EXCEPT ![c] = ReleasedConn(c)] /\ freeConns' = freeConns \cup {c}
    BY <2>1 DEF Release
  <2>3. \A b \in Conns \ {c} : conn'[b] = conn[b]
    BY <2>2, ConnStep
  <2>4. sq' \subseteq sq \cup {r} /\ QueuesOne
    BY <2>1 DEF QueuesOne
  <2>5. /\ (UNCHANGED status) \/ \E v \in Greenlets : WaiterDropped(v)
        /\ WaitersKept /\ \A b, fd : Cancelling(b, fd)' => Cancelling(b, fd) /\ b # c
    BY <2>1, ReleaseWaiter
  <2> QED BY <2>1, <2>2, <2>3, <2>4, <2>5
<1> QED BY <1>1, <1>2

(* green_close: what is common to its three cases.                         *)
LEMMA ClosedRest ==
  ASSUME SharedInv, SharedTypes', NEW g \in Greenlets, NEW d \in Descs, Close(g, d), NEW c,
         QueuesOne, WaitersKept, (UNCHANGED status) \/ \E v \in Greenlets : WaiterDropped(v),
         SocketsOK',
         \A b, fd : Cancelling(b, fd)' => Cancelling(b, fd) \/ (b = c /\ fd = d.fd),
         \/ /\ \A b, fd : Cancelling(b, fd)' => Cancelling(b, fd)
            /\ \E f : sq' \subseteq sq \cup {f} /\ f.desc.fd = d.fd
         \/ \A x, fd : Closing(x, fd)' => Closing(x, fd)
  PROVE  RestOK'
<1>1. UNCHANGED <<ready, phase, inflight, accept, call, file>>
      /\ own' = [h \in Greenlets |-> own[h] \ {d}]
  BY DEF Close
<1>2. /\ LoopTypes' /\ QueueOK' /\ NumbersOK'
      /\ \A h \in Greenlets : Fetching(h)' => Fetching(h)
  BY <1>1, SameRest DEF PhaseKept, SharedInv, LoopTypes
<1>3. Descs' \subseteq Descs \ {d}
  BY <1>1 DEF Descs
<1>4. RolesLess
  BY <1>1, <1>2, <1>3, RolesOf
<1>5. d \in Desc /\ d.fd \in Fds /\ Held(d) /\ ~Pending(d.fd) /\ file[d.fd] # 0
  BY DEF SharedInv, SharedTypes, Descs, Desc, Held, Given, HoldOK, HeldLive, Live
<1>6. ASSUME NEW b \in Desc, Held(b)' PROVE b.fd # d.fd
  <2> SUFFICES ASSUME b.fd = d.fd PROVE FALSE
    OBVIOUS
  <2>1. Held(b)
    BY <1>4, <1>6, RolesStayOnce DEF SharedInv, HoldOK
  <2>2. b = d
    BY <1>5, <2>1, HeldFd
  <2>3. ~Given(b)' /\ ~Arrived(b) /\ \A h \in Greenlets : ~Connects(h, b)
    BY <1>3, <1>5, <2>2 DEF Given, SharedInv, HoldOK, HeldOnce
  <2> QED BY <1>4, <1>6, <2>3 DEF Held, RolesLess
<1>7. ASSUME NEW fd \in Fds \ {d.fd}
      PROVE  /\ \A x : Closing(x, fd)' => Closing(x, fd)
             /\ \A b : Cancelling(b, fd)' => Cancelling(b, fd)
  BY <1>1 DEF Closing, Sqes
<1>8. ~(\E x : Closing(x, d.fd)) /\ ~(\E b : Cancelling(b, d.fd))
  BY <1>5 DEF Pending, Closing, Cancelling
<1>9. /\ \A x, y \in Sqes' : Closing(x, d.fd)' /\ Closing(y, d.fd)' => x = y
      /\ \A b, k \in Conns : Cancelling(b, d.fd)' /\ Cancelling(k, d.fd)' => b = k
      /\ \A x \in Sqes', b \in Conns : ~(Closing(x, d.fd)' /\ Cancelling(b, d.fd)')
  <2>1. CASE /\ \A b, fd : Cancelling(b, fd)' => Cancelling(b, fd)
             /\ \E f : sq' \subseteq sq \cup {f} /\ f.desc.fd = d.fd
    <3>1. PICK f : sq' \subseteq sq \cup {f}
      BY <2>1
    <3>2. \A x : Closing(x, d.fd)' => x = f
      BY <1>1, <1>8, <3>1 DEF Closing, Sqes
    <3>3. \A b : ~Cancelling(b, d.fd)'
      BY <1>8, <2>1
    <3> QED BY <3>2, <3>3
  <2>2. CASE \A x, fd : Closing(x, fd)' => Closing(x, fd)
    <3>1. \A x : ~Closing(x, d.fd)'
      BY <1>8, <2>2
    <3>2. \A b : Cancelling(b, d.fd)' => b = c
      BY <1>8
    <3> QED BY <3>1, <3>2
  <2> QED BY <2>1, <2>2
<1>10. HoldOK'
  BY <1>1, <1>4, <1>5, <1>6, <1>7, <1>9, HoldCloses
<1> QED BY <1>2, <1>10 DEF RestOK

(* green_close.                                                            *)
LEMMA CloseRest ==
  ASSUME SharedInv, SharedTypes', NEW g \in Greenlets, NEW d \in Descs, Close(g, d)
  PROVE  RestOK'
<1>1. UNCHANGED <<inflight, call>>
  BY DEF Close
<1>2. CASE CloseUntracked(g, d)
  <2>1. UNCHANGED <<conn, freeConns, status>>
    BY <1>2 DEF CloseUntracked
  <2>2. PICK f : f = Sqe("rawclose", None, 0, d)
    OBVIOUS
  <2>3. f.op = ops + 1 /\ f.desc = d /\ (Queues(f) \/ UNCHANGED <<sq, ops>>)
    BY <1>2, <2>2 DEF CloseUntracked, Sqe
  <2>4. QueuesOne /\ sq' \subseteq sq \cup {f}
    BY <2>3 DEF QueuesOne, Queues
  <2>5. WaitersKept /\ \A b, fd : Cancelling(b, fd)' => Cancelling(b, fd)
    BY <2>1 DEF WaitersKept, Cancelling
  <2>6. SocketsOK'
    BY <1>1, <2>1, SocketsSame
  <2> QED BY <2>1, <2>3, <2>4, <2>5, <2>6, ClosedRest
<1>3. ASSUME fdToConn[d.fd] # None
      PROVE  \E c \in Conns : /\ c = fdToConn[d.fd] /\ conn[c].desc.fd = d.fd
                              /\ \A h \in Greenlets : call[h].kind = "connect" => call[h].conn # c
  BY <1>3, GivenConn
<1>4. ASSUME NEW c \in Conns, conn[c].desc.fd = d.fd,
             \A h \in Greenlets : call[h].kind = "connect" => call[h].conn # c,
             NEW r, r.desc = conn[c].desc, r.greenlet = conn[c].greenlet, SubmitClose(c, r)
      PROVE  RestOK'
  <2>1. /\ QueuesOne /\ WaitersKept
        /\ (UNCHANGED status) \/ \E v \in Greenlets : WaiterDropped(v)
        /\ \A b \in Conns \ {c} : conn'[b] = conn[b]
        /\ freeConns' \subseteq freeConns \cup {c}
        /\ \A b, fd : Cancelling(b, fd)' => Cancelling(b, fd) /\ b # c
        /\ \E f : sq' \subseteq sq \cup {f} /\ f.desc = conn[c].desc
    BY <1>4, SubmitCloseEffect
  <2>2. SocketsOK'
    BY <1>1, <1>4, <2>1, SocketsKept
  <2>3. \E f : sq' \subseteq sq \cup {f} /\ f.desc.fd = d.fd
    BY <1>4, <2>1
  <2>4. \A b, fd : Cancelling(b, fd)' => Cancelling(b, fd)
    BY <2>1
  <2> QED BY <2>1, <2>2, <2>3, <2>4, ClosedRest
<1>5. CASE CloseIdle(g, d)
  <2>1. PICK c \in Conns : /\ c = fdToConn[d.fd] /\ conn[c].desc.fd = d.fd
                           /\ \A h \in Greenlets : call[h].kind = "connect" => call[h].conn # c
    BY <1>3, <1>5 DEF CloseIdle
  <2>2. SubmitClose(c, conn[c])
    BY <1>5, <2>1 DEF CloseIdle
  <2> QED BY <1>4, <2>1, <2>2
<1>6. CASE CloseBusy(g, d)
  <2>1. PICK c \in Conns : /\ c = fdToConn[d.fd] /\ conn[c].desc.fd = d.fd
                           /\ \A h \in Greenlets : call[h].kind = "connect" => call[h].conn # c
    BY <1>3, <1>6 DEF CloseBusy
  <2>2. PICK r : r = [conn[c] EXCEPT !.state = "cancelling"]
    OBVIOUS
  <2>3. r.desc = conn[c].desc /\ r.greenlet = conn[c].greenlet
    BY <2>2 DEF SharedInv, SharedTypes, SharedConn
  <2>4. CASE SubmitClose(c, r)
    BY <1>4, <2>1, <2>3, <2>4
  <2>5. CASE /\ conn' = [conn EXCEPT ![c] = r]
             /\ Queues(Sqe("cancel", Conn0, 0, NoDesc))
             /\ UNCHANGED <<freeConns, status>>
    <3>1. PICK f : f = Sqe("cancel", Conn0, 0, NoDesc)
      OBVIOUS
    <3>2. f.op = ops + 1 /\ f.kind = "cancel" /\ Queues(f)
      BY <2>5, <3>1 DEF Sqe
    <3>3. QueuesOne /\ f.kind \notin Closes
      BY <3>2 DEF QueuesOne, Closes
    <3>4. \A x, fd : Closing(x, fd)' => Closing(x, fd)
      BY <1>1, <3>2, <3>3, NoNewClose
    <3>5. WaitersKept /\ \A b \in Conns : conn'[b] = IF b = c THEN r ELSE conn[b]
      BY <2>3, <2>5, ConnStep
    <3>6. \A b, fd : Cancelling(b, fd)' => Cancelling(b, fd) \/ (b = c /\ fd = d.fd)
      BY <2>1, <2>3, <3>5 DEF Cancelling
    <3>7. SocketsOK'
      BY <1>1, <2>1, <2>5, <3>5, SocketsKept
    <3> QED BY <2>5, <3>3, <3>4, <3>5, <3>6, <3>7, ClosedRest
  <2> QED BY <1>6, <2>1, <2>2, <2>4, <2>5 DEF CloseBusy
<1> QED BY <1>2, <1>5, <1>6 DEF Close

(* green_connect.                                                          *)
LEMMA ConnectRest ==
  ASSUME SharedInv, SharedTypes', NEW g \in Greenlets, NEW fd \in Fds, Connect(g, fd)
  PROVE  RestOK'
<1>0. [fd |-> fd, file |-> files + 1] \in Desc
  BY DEF SharedInv, SharedTypes, Desc
<1>1. PICK d \in Desc : d = [fd |-> fd, file |-> files + 1]
  BY <1>0
<1>2. d.fd = fd /\ d.file = files + 1 /\ d.file # 0
  BY <1>1 DEF SharedInv, SharedTypes
<1>3. /\ UNCHANGED <<ready, phase, inflight, accept, own>> /\ Running(g)
      /\ file[fd] = 0 /\ file' = [file EXCEPT ![fd] = files + 1]
  BY DEF Connect, Calls, Opens
<1>4. PICK c \in freeConns :
        Registers(c, d) /\ Queues(Sqe("connect", None, 0, d)) /\ Suspends(g, "connect", c, d)
  BY <1>1 DEF Connect
<1> DEFINE r == [desc |-> d, state |-> "idle", gen |-> conn[c].gen,
                 greenlet |-> conn[c].greenlet, pending |-> 0, result |-> 0]
<1>5. c \in Conns /\ conn' = [conn EXCEPT ![c] = r] /\ freeConns' = freeConns \ {c}
      /\ r.greenlet = conn[c].greenlet /\ r.state = "idle" /\ r.desc = d
  BY <1>4 DEF Registers, SharedInv, SharedTypes
<1> HIDE DEF r
<1>6. /\ \A b \in Conns : conn'[b] = IF b = c THEN r ELSE conn[b]
      /\ WaitersKept /\ \A b, x : Cancelling(b, x)' => Cancelling(b, x)
  BY <1>5, ConnStep
<1>7. PICK e : e = Sqe("connect", None, 0, d)
  OBVIOUS
<1>8. Queues(e) /\ e.op = ops + 1 /\ e.kind = "connect"
  BY <1>4, <1>7 DEF Sqe
<1>9. QueuesOne /\ ops' = ops + 1 /\ e.kind \notin Closes
  BY <1>8 DEF QueuesOne, Queues, Closes
<1>10. /\ call'[g].kind = "connect" /\ call'[g].conn = c /\ call'[g].desc = d /\ call'[g].op = ops + 1
       /\ \A h \in Greenlets \ {g} : call'[h] = call[h]
  BY <1>4 DEF Suspends, SharedInv, SharedTypes
<1>11. \A h \in Greenlets : call'[h].op = call[h].op \/ (call'[h].op = ops + 1 /\ ops' = ops + 1)
  BY <1>9, <1>10
<1>12. NumbersOK' /\ AwaitsLess
  BY <1>3, <1>9, <1>11, NumbersStep DEF AwaitsLess
<1>13. Takes(g) /\ call[g] = NoCall
  BY <1>3, RunningTakes
<1>14. /\ \A b \in Conns : conn'[b].greenlet \in {None, conn[b].greenlet}
       /\ accept'.greenlet = accept.greenlet /\ accept'.result = accept.result
  BY <1>3, <1>6 DEF WaitersKept
<1>15. QueueOK' /\ (\A h \in Greenlets : Fetching(h)' => Fetching(h)) /\ status' \in [Greenlets -> Statuses]
  BY <1>4, <1>5, <1>12, <1>13, <1>14, QueueSuspends
<1>16. LoopTypes'
  <2>1. file' \in [Fds -> Nat]
    BY <1>3 DEF SharedInv, SharedTypes, LoopTypes
  <2> QED BY <1>3, <1>15, <2>1 DEF LoopTypes, SharedInv
<1>17. ClosersLess
  BY <1>3, <1>6, <1>8, <1>9, NoNewClose DEF ClosersLess
<1>18. \A b \in Desc \ {d} : /\ Given(b)' => Given(b)
                             /\ Arrived(b)' => Arrived(b)
                             /\ \A h \in Greenlets : Connects(h, b)' => Connects(h, b)
  <2>1. Descs' = Descs
    BY <1>3 DEF Descs
  <2> QED BY <1>10, <1>14, <1>15, <2>1 DEF Given, Arrived, Connects
<1>19. ~Held(d)
  BY <1>2, <1>3, FreshDesc
<1>20. ~Given(d)' /\ ~Arrived(d)'
  <2>1. ~Given(d) /\ ~Arrived(d)
    BY <1>19 DEF Held
  <2>2. Descs' = Descs
    BY <1>3 DEF Descs
  <2> QED BY <1>14, <1>15, <2>1, <2>2 DEF Given, Arrived
<1>21. \A h \in Greenlets : Connects(h, d)' => h = g
  BY <1>10, <1>19 DEF Held, Connects
<1>22. HeldOnce' /\ \A b \in Desc : Held(b)' => Held(b) \/ b = d
  BY <1>18, <1>20, <1>21, OnceGains DEF SharedInv, HoldOK
<1>23. SocketsOK'
  <2>1. ASSUME NEW h \in Greenlets \ {g}, call'[h].kind = "connect"
        PROVE  /\ call'[h].conn # c
               /\ call'[h].conn \in Conns \ freeConns'
               /\ conn'[call'[h].conn].desc = call'[h].desc
               /\ conn'[call'[h].conn].state \notin {"cancelling", "closing"}
    <3>1. /\ call'[h] = call[h] /\ call[h].conn \in Conns \ freeConns
          /\ conn[call[h].conn].desc = call[h].desc
          /\ conn[call[h].conn].state \notin {"cancelling", "closing"}
      BY <1>10, <2>1 DEF SharedInv, HoldOK, SocketsOK, ConnectsOK
    <3> QED BY <1>5, <1>6, <3>1
  <2>2. /\ call'[g].conn \in Conns \ freeConns' /\ conn'[call'[g].conn].desc = call'[g].desc
        /\ conn'[call'[g].conn].state \notin {"cancelling", "closing"}
    BY <1>5, <1>6, <1>10
  <2>3. ConnectsOK' /\ \A h \in Greenlets : call'[h].kind = "connect" =>
          conn'[call'[h].conn].state \notin {"cancelling", "closing"}
    BY <2>1, <2>2 DEF ConnectsOK
  <2>4. ASSUME NEW h \in Greenlets, NEW k \in Greenlets, call'[h].kind = "connect",
               call'[k].kind = "connect", call'[h].conn = call'[k].conn
        PROVE  h = k
    <3>1. CASE h = g \/ k = g
      BY <1>10, <2>1, <2>4, <3>1
    <3>2. CASE h # g /\ k # g
      BY <1>10, <2>4, <3>2 DEF SharedInv, HoldOK, SocketsOK
    <3> QED BY <3>1, <3>2
  <2> QED BY <2>3, <2>4 DEF SocketsOK
<1>24. file[d.fd] = 0 /\ file' = [file EXCEPT ![d.fd] = d.file]
  BY <1>2, <1>3
<1>25. HoldOK'
  BY <1>2, <1>17, <1>22, <1>23, <1>24, HoldOpens
<1> QED BY <1>12, <1>15, <1>16, <1>25 DEF RestOK

(* A green_connect gives up its socket.                                    *)
LEMMA DisconnectsHold ==
  ASSUME SharedInv, NEW g \in Greenlets, call[g].kind = "connect", Disconnects(g),
         UNCHANGED <<sq, inflight, own, accept>>, call' = [call EXCEPT ![g] = NoCall],
         \A h \in Greenlets : Fetching(h)' => Fetching(h)
  PROVE  HoldOK'
<1>1. PICK d \in Desc : d = call[g].desc
  BY DEF SharedInv, SharedTypes, CallsTyped
<1>2. PICK c \in Conns : c = call[g].conn
  BY DEF SharedInv, HoldOK, SocketsOK, ConnectsOK
<1>3. Connects(g, d) /\ d.fd \in Fds
  BY <1>1 DEF Connects, Desc
<1>4. ~Given(d) /\ ~Arrived(d) /\ \A h \in Greenlets : Connects(h, d) => h = g
  BY <1>3 DEF SharedInv, HoldOK, HeldOnce
<1>5. Held(d) /\ ~Pending(d.fd)
  BY <1>3 DEF Held, SharedInv, HoldOK, HeldLive
<1>6. /\ call'[g] = NoCall /\ \A h \in Greenlets \ {g} : call'[h] = call[h]
      /\ NoCall.kind # "connect"
  BY DEF SharedInv, SharedTypes, NoCall
<1>7. RolesLess
  BY <1>6, RolesOf DEF Descs
<1>8. HeldOnce' /\ \A b \in Desc : Held(b)' => Held(b)
  BY <1>7, RolesStayOnce DEF SharedInv, HoldOK
<1>9. ~Held(d)'
  BY <1>4, <1>6, <1>7 DEF Held, RolesLess, Connects
<1>10. conn' = [conn EXCEPT ![c] = ReleasedConn(c)] /\ freeConns' = freeConns \cup {c}
       /\ file' = [file EXCEPT ![d.fd] = 0]
  BY <1>1, <1>2 DEF Disconnects
<1>11. ReleasedConn(c).state = "idle"
  BY DEF ReleasedConn
<1>12. /\ \A b \in Conns \ {c} : conn'[b] = conn[b]
       /\ \A b, fd : Cancelling(b, fd)' => Cancelling(b, fd)
  BY <1>10, <1>11, ConnStep
<1>13. ClosersLess
  BY <1>12 DEF ClosersLess, Closing, Sqes
<1>14. \A fd \in Fds : file'[fd] = IF fd = d.fd THEN 0 ELSE file[fd]
  BY <1>10 DEF SharedInv, LoopTypes
<1>15. ClosersOK' /\ \A fd \in Fds : Pending(fd)' => Pending(fd)
  BY <1>5, <1>13, <1>14, ClosersStay DEF SharedInv, HoldOK
<1>16. ASSUME NEW b \in Desc, Held(b)' PROVE Live(b)' /\ ~Pending(b.fd)'
  <2>1. Held(b) /\ b # d /\ b.fd \in Fds
    BY <1>8, <1>9, <1>16 DEF Desc
  <2>2. Live(b) /\ ~Pending(b.fd)
    BY <2>1 DEF SharedInv, HoldOK, HeldLive
  <2>3. b.fd # d.fd
    BY <1>5, <2>1, HeldFd
  <2> QED BY <1>14, <1>15, <2>1, <2>2, <2>3 DEF Live
<1>17. \A h \in Greenlets : call'[h].kind = "connect" => call'[h] = call[h] /\ call[h].conn # c
  BY <1>2, <1>6 DEF SharedInv, HoldOK, SocketsOK
<1>18. SocketsOK'
  BY <1>10, <1>12, <1>17, SocketsKept
<1> QED BY <1>8, <1>15, <1>16, <1>18 DEF HoldOK, HeldLive

(* What a throw that kills v does to the connections.                      *)
LEMMA ThrowRest ==
  ASSUME SharedInv, SharedTypes', Fates \subseteq {"dead"}, NEW k \in Greenlets, NEW v \in Greenlets,
         Throw(k, v)
  PROVE  RestOK'
<1>1. /\ ThrowsInto(k, v) /\ ThrowCleansUp(v) /\ call' = [call EXCEPT ![v] = NoCall]
      /\ UNCHANGED <<sq, inflight, accept, own, ops>> /\ phase' = phase
  BY DEF Throw, ThrowsInto
<1>2. /\ call'[v] = NoCall /\ \A h \in Greenlets \ {v} : call'[h] = call[h]
      /\ NoCall.kind # "connect" /\ NoCall.op = 0
  BY <1>1 DEF SharedInv, SharedTypes, NoCall
<1>3. QueuesOne /\ PhaseKept
  BY <1>1 DEF QueuesOne, PhaseKept
<1>4. NumbersOK' /\ AwaitsLess
  <2>1. \A h \in Greenlets : call'[h].op = call[h].op \/ call'[h].op = 0
    BY <1>2
  <2> QED BY <1>1, <1>3, <2>1, NumbersStep DEF AwaitsLess
<1>5. ASSUME WaitersKept, \A c \in Conns : conn'[c].greenlet # v, file' \in [Fds -> Nat]
      PROVE  LoopTypes' /\ QueueOK' /\ \A h \in Greenlets : Fetching(h)' => Fetching(h)
  <2>1. /\ QueueOK' /\ status' \in [Greenlets -> Statuses] /\ ready' \in Seq(Greenlets)
        /\ \A h \in Greenlets : Fetching(h)' => Fetching(h)
    BY <1>1, <1>4, <1>5, QueueThrows
  <2> QED BY <1>1, <1>5, <2>1 DEF LoopTypes, SharedInv
<1>6. \A h \in Greenlets : call'[h].kind = "connect" => call'[h] = call[h]
  BY <1>2
<1>7. \A b \in Conns : conn[b].greenlet = v => call[v].kind \in Transfers /\ call[v].conn = b
  BY DEF SharedInv, QueueOK
<1>8. ASSUME UNCHANGED file, \A b, fd : Cancelling(b, fd)' => Cancelling(b, fd), SocketsOK',
             \A h \in Greenlets : Fetching(h)' => Fetching(h)
      PROVE  HoldOK'
  <2>0. Descs' = Descs /\ accept'.result = accept.result
    BY <1>1 DEF Descs
  <2>1. RolesLess
    BY <1>6, <1>8, <2>0, RolesOf
  <2>2. ClosersLess
    BY <1>1, <1>8 DEF ClosersLess, Closing, Sqes
  <2>3. HeldOnce' /\ \A d \in Desc : Held(d)' => Held(d)
    BY <2>1, RolesStayOnce DEF SharedInv, HoldOK
  <2> QED BY <1>8, <2>2, <2>3, HoldSame
<1>9. CASE call[v].kind \in Transfers /\ conn[call[v].conn].greenlet # None
  <2>1. PICK c \in Conns : c = call[v].conn
    BY <1>9 DEF SharedInv, SharedTypes, CallsTyped
  <2>2. PICK r : r = With(conn[c], "idle", None, conn[c].pending - 1, conn[c].result)
    OBVIOUS
  <2>3. r.greenlet = None /\ r.state = "idle" /\ r.desc = conn[c].desc
    BY <2>2 DEF With
  <2>4. conn' = [conn EXCEPT ![c] = r] /\ UNCHANGED <<freeConns, file>>
    BY <1>1, <1>9, <2>1, <2>2 DEF ThrowCleansUp, Transfers
  <2>5. /\ \A b \in Conns : conn'[b] = IF b = c THEN r ELSE conn[b]
        /\ WaitersKept /\ \A b, fd : Cancelling(b, fd)' => Cancelling(b, fd)
    <3>1. conn' = [conn EXCEPT ![c] = r] /\ r.greenlet \in {None, conn[c].greenlet} /\ r.state # "cancelling"
      BY <2>3, <2>4
    <3> QED BY <3>1, ConnStep
  <2>6. \A b \in Conns : conn'[b].greenlet # v
    BY <1>7, <2>1, <2>3, <2>5, ConnsAssumption
  <2>7. file' \in [Fds -> Nat]
    BY <2>4 DEF SharedInv, LoopTypes
  <2>8. LoopTypes' /\ QueueOK' /\ \A h \in Greenlets : Fetching(h)' => Fetching(h)
    BY <1>5, <2>5, <2>6, <2>7
  <2>9. /\ \A b \in Conns \ {c} : conn'[b] = conn[b]
        /\ conn'[c].desc = conn[c].desc /\ conn'[c].state \notin {"cancelling", "closing"}
    BY <2>3, <2>5
  <2>10. SocketsOK'
    BY <1>6, <2>4, <2>9, SocketsKept
  <2>11. HoldOK'
    BY <1>8, <2>4, <2>5, <2>8, <2>10
  <2> QED BY <1>4, <2>8, <2>11 DEF RestOK
<1>10. CASE call[v].kind = "connect"
  <2>1. Disconnects(v)
    BY <1>1, <1>10 DEF ThrowCleansUp, Transfers
  <2>2. PICK c \in Conns : c = call[v].conn
    BY <1>10 DEF SharedInv, HoldOK, SocketsOK, ConnectsOK
  <2>3. conn' = [conn EXCEPT ![c] = ReleasedConn(c)] /\ ReleasedConn(c).greenlet = None
    BY <2>1, <2>2 DEF Disconnects, ReleasedConn
  <2>4. WaitersKept
    BY <2>3, ConnStep
  <2>5. \A b \in Conns : conn'[b].greenlet # v
    BY <1>7, <1>10, <2>4, ConnsAssumption DEF WaitersKept, Transfers
  <2>6. file' \in [Fds -> Nat]
    BY <2>1 DEF Disconnects, SharedInv, LoopTypes
  <2>7. LoopTypes' /\ QueueOK' /\ \A h \in Greenlets : Fetching(h)' => Fetching(h)
    BY <1>5, <2>4, <2>5, <2>6
  <2>8. HoldOK'
    BY <1>1, <1>10, <2>1, <2>7, DisconnectsHold
  <2> QED BY <1>4, <2>7, <2>8 DEF RestOK
<1>11. CASE ~(call[v].kind \in Transfers /\ conn[call[v].conn].greenlet # None) /\ call[v].kind # "connect"
  <2>1. UNCHANGED <<conn, freeConns, file>>
    BY <1>1, <1>11 DEF ThrowCleansUp
  <2>2. WaitersKept /\ \A b, fd : Cancelling(b, fd)' => Cancelling(b, fd)
    BY <2>1 DEF WaitersKept, Cancelling
  <2>3. \A b \in Conns : conn'[b].greenlet # v
    BY <1>7, <1>11, <2>1, ConnsAssumption
  <2>4. file' \in [Fds -> Nat]
    BY <2>1 DEF SharedInv, LoopTypes
  <2>5. LoopTypes' /\ QueueOK' /\ \A h \in Greenlets : Fetching(h)' => Fetching(h)
    BY <1>5, <2>2, <2>3, <2>4
  <2>6. SocketsOK'
    BY <1>6, <2>1, SocketsSame
  <2>7. HoldOK'
    BY <1>8, <2>1, <2>2, <2>5, <2>6
  <2> QED BY <1>4, <2>5, <2>7 DEF RestOK
<1> QED BY <1>9, <1>10, <1>11

(* What every completion has in common.                                    *)
LEMMA ReapsFacts ==
  ASSUME SharedInv, NEW e, Reaps(e)
  PROVE  /\ e \in inflight /\ e \in Sqes /\ e \notin sq /\ inflight' = inflight \ {e}
         /\ inflight' \subseteq inflight
         /\ phase \in {"wait", "reap"} /\ PhaseKept /\ phase' \in Phases
         /\ UNCHANGED <<call, own>> /\ Descs' = Descs
         /\ \A h \in Greenlets : call'[h].kind = "connect" => call'[h] = call[h]
BY DEF Reaps, PhaseKept, Phases, Descs, Sqes, SharedInv, NumbersOK

(* One that queues nothing.                                                *)
LEMMA ReapClosers ==
  ASSUME SharedInv, NEW e, Reaps(e), UNCHANGED sq
  PROVE  \A x, fd : Closing(x, fd)' => Closing(x, fd) /\ x # e
BY ReapsFacts DEF Closing, Sqes

(* The fd it may close.                                                    *)
LEMMA ExecutesFile ==
  ASSUME SharedInv, NEW e, Executes(e)
  PROVE  /\ file' = (IF e.kind \in Closes THEN [file EXCEPT ![e.desc.fd] = 0] ELSE file)
         /\ file' \in [Fds -> Nat]
<1>1. file' = (IF e.kind \in Closes THEN [file EXCEPT ![e.desc.fd] = 0] ELSE file)
  BY DEF Executes, Closes
<1>2. file \in [Fds -> Nat]
  BY DEF SharedInv, LoopTypes
<1>3. CASE e.kind \in Closes
  BY <1>1, <1>2, <1>3
<1>4. CASE e.kind \notin Closes
  BY <1>1, <1>2, <1>4
<1> QED BY <1>1, <1>3, <1>4

(* Nobody is queued, or the acceptor is.                                   *)
LEMMA ReapAcceptQueue ==
  ASSUME SharedInv, SharedTypes', NEW e, ReapAccept(e), file' \in [Fds -> Nat]
  PROVE  /\ LoopTypes' /\ QueueOK' /\ NumbersOK'
<1>1. Reaps(e) /\ UNCHANGED <<status, sq, ops, conn>> /\ accept'.greenlet = None
      /\ ready' = IF accept.greenlet # None THEN Append(ready, accept.greenlet) ELSE ready
  BY DEF ReapAccept
<1>2. /\ inflight' \subseteq inflight /\ PhaseKept /\ phase' \in Phases /\ UNCHANGED call
      /\ phase \in {"wait", "reap"}
  BY <1>1, ReapsFacts
<1>3. QueuesOne /\ WaitersKept
  BY <1>1 DEF QueuesOne, WaitersKept
<1>4. NumbersOK' /\ AwaitsLess
  BY <1>2, <1>3, NumbersStep DEF AwaitsLess
<1>5. QueueOK /\ status \in [Greenlets -> Statuses] /\ accept.greenlet \in Greenlets \cup {None}
      /\ ready \in Seq(Greenlets)
  BY DEF SharedInv, LoopTypes, SharedTypes, AcceptRecord
<1>6. CASE accept.greenlet = None
  <2>1. \A h \in Greenlets : (InReady(h)' <=> InReady(h)) /\ (Blocked(h)' <=> Blocked(h))
    BY <1>1, <1>6 DEF InReady, Blocked
  <2>2. \A h \in Greenlets : (Fetching(h)' => Fetching(h)) /\ (Awaits(h)' => Awaits(h))
    BY <1>2, <1>4, <2>1 DEF Fetching, AwaitsLess
  <2>3. \A h \in Greenlets : InReady(h)' => status'[h] \in {"scheduled", "dead", "blocked"}
    BY <1>1, <1>5, <2>1 DEF QueueOK
  <2>4. /\ \A h \in Greenlets : status'[h] \notin {"blocked", "dead"} => call'[h] = NoCall
        /\ \A h \in Greenlets : call'[h].kind = "connect" => Blocked(h)'
        /\ \A h \in Greenlets : InReady(h)' /\ call'[h].kind = "connect" => ~Awaits(h)'
    BY <1>1, <1>2, <1>5, <2>1, <2>2 DEF QueueOK
  <2>5. \A c \in Conns : \A v \in Greenlets : conn'[c].greenlet = v =>
          ~InReady(v)' /\ Blocked(v)' /\ call'[v].kind \in Transfers /\ call'[v].conn = c
    BY <1>1, <1>2, <1>5, <2>1 DEF QueueOK
  <2>6. \A a \in Greenlets : accept'.greenlet = a =>
          ~InReady(a)' /\ (status'[a] = "dead" \/ (Blocked(a)' /\ call'[a].kind = "accept"))
    BY <1>1, ConnsAssumption
  <2>7. \A h, k \in Greenlets : Fetching(h)' /\ Fetching(k)' => h = k
    BY <1>5, <2>2 DEF QueueOK
  <2>8. Distinct(ready)'
    BY <1>1, <1>5, <1>6 DEF QueueOK, Distinct
  <2>9. QueueOK'
    BY <1>1, <2>3, <2>4, <2>5, <2>6, <2>7, <2>8 DEF QueueOK
  <2> QED BY <1>1, <1>2, <1>4, <1>5, <1>6, <2>9 DEF LoopTypes
<1>7. CASE accept.greenlet # None
  <2>1. PICK v \in Greenlets : v = accept.greenlet
    BY <1>5, <1>7
  <2>2. ~InReady(v) /\ (status[v] = "dead" \/ (Blocked(v) /\ call[v].kind = "accept"))
        /\ \A h \in Greenlets : ~Fetching(h)
    BY <1>2, <1>5, <1>7, <2>1 DEF QueueOK
  <2>3. status[v] \in {"blocked", "dead"} /\ call[v].kind # "connect"
    BY <1>5, <2>2 DEF QueueOK, Blocked
  <2>4. \A c \in Conns : conn'[c].greenlet # v
    BY <1>1, <1>5, <2>2 DEF QueueOK, Blocked, Transfers
  <2>5. accept'.greenlet \in {None, accept.greenlet} /\ accept'.greenlet # v /\ accept'.greenlet = None
    BY <1>1, ConnsAssumption
  <2>6. ready' = Append(ready, v)
    BY <1>1, <1>7, <2>1
  <2>7. QueueOK' /\ ready' \in Seq(Greenlets)
    BY <1>1, <1>2, <1>3, <1>4, <2>2, <2>3, <2>4, <2>5, <2>6, QueueWakes
  <2> QED BY <1>1, <1>2, <1>4, <1>5, <2>7 DEF LoopTypes
<1> QED BY <1>6, <1>7

(* The completion of an accept.                                            *)
LEMMA ReapAcceptRest ==
  ASSUME SharedInv, SharedTypes', NEW e, ReapAccept(e)
  PROVE  RestOK'
<1>1. Reaps(e) /\ UNCHANGED <<status, sq, ops, conn, freeConns>>
  BY DEF ReapAccept
<1>2. Descs' = Descs /\ UNCHANGED call
      /\ \A h \in Greenlets : call'[h].kind = "connect" => call'[h] = call[h]
  BY <1>1, ReapsFacts
<1>3. ClosersLess
  BY <1>1, ReapClosers DEF ClosersLess, Cancelling
<1>4. SocketsOK'
  BY <1>1, <1>2, SocketsSame
<1>5. CASE accept'.result = NoDesc /\ UNCHANGED file
  <2>1. file' \in [Fds -> Nat]
    BY <1>5 DEF SharedInv, LoopTypes
  <2>2. RolesLess
    BY <1>2, <1>5 DEF RolesLess, Given, Arrived, Connects
  <2>3. HoldOK'
    BY <1>3, <1>4, <1>5, <2>2, HoldSame, RolesStayOnce DEF SharedInv, HoldOK
  <2> QED BY <2>1, <2>3, ReapAcceptQueue DEF RestOK
<1>6. ASSUME NEW fd \in Fds, Opens(fd), accept'.result = [fd |-> fd, file |-> files + 1]
      PROVE  RestOK'
  <2>0. [fd |-> fd, file |-> files + 1] \in Desc
    BY DEF SharedInv, SharedTypes, Desc
  <2>1. PICK d \in Desc : d = [fd |-> fd, file |-> files + 1]
    BY <2>0
  <2>2. d.fd = fd /\ d.file = files + 1 /\ d.file # 0
    BY <2>1 DEF SharedInv, SharedTypes
  <2>3. file[d.fd] = 0 /\ file' = [file EXCEPT ![d.fd] = d.file] /\ accept'.result = d
    BY <1>6, <2>1, <2>2 DEF Opens
  <2>4. file' \in [Fds -> Nat]
    BY <2>2, <2>3 DEF SharedInv, SharedTypes, LoopTypes
  <2>5. LoopTypes' /\ QueueOK' /\ NumbersOK'
    BY <2>4, ReapAcceptQueue
  <2>6. \A b \in Desc \ {d} : /\ Given(b)' => Given(b)
                              /\ Arrived(b)' => Arrived(b)
                              /\ \A h \in Greenlets : Connects(h, b)' => Connects(h, b)
    BY <1>2, <2>3 DEF Given, Arrived, Connects
  <2>7. ~Held(d)
    BY <2>3, FreshDesc
  <2>8. ~Given(d)' /\ \A h \in Greenlets : ~Connects(h, d)'
    BY <1>2, <2>7 DEF Held, Given, Connects
  <2>9. HeldOnce' /\ \A b \in Desc : Held(b)' => Held(b) \/ b = d
    BY <2>6, <2>8, OnceGains DEF SharedInv, HoldOK
  <2>10. HoldOK'
    BY <1>3, <1>4, <2>2, <2>3, <2>9, HoldOpens
  <2> QED BY <2>5, <2>10 DEF RestOK
<1> QED BY <1>5, <1>6 DEF ReapAccept

(* The completion of a connect that finds its slot.                        *)
LEMMA ReapConnectRest ==
  ASSUME SharedInv, SharedTypes', NEW e, ReapConnect(e)
  PROVE  RestOK'
<1>1. Reaps(e) /\ UNCHANGED <<status, sq, ops, conn, freeConns, accept, file>>
      /\ accept'.greenlet = accept.greenlet /\ accept'.result = accept.result
  BY DEF ReapConnect
<1>2. /\ inflight' \subseteq inflight /\ PhaseKept /\ phase' \in Phases /\ UNCHANGED call
      /\ Descs' = Descs /\ e \in Sqes /\ inflight' = inflight \ {e} /\ e \notin sq
      /\ \A h \in Greenlets : call'[h].kind = "connect" => call'[h] = call[h]
  BY <1>1, ReapsFacts
<1>3. PICK v \in Greenlets : call[v].kind = "connect" /\ call[v].op = e.op /\ ready' = Append(ready, v)
  BY DEF ReapConnect
<1>4. QueuesOne /\ WaitersKept
  BY <1>1 DEF QueuesOne, WaitersKept
<1>5. NumbersOK' /\ AwaitsLess
  BY <1>2, <1>4, NumbersStep DEF AwaitsLess
<1>6. QueueOK /\ status \in [Greenlets -> Statuses]
  BY DEF SharedInv, LoopTypes
<1>7. Blocked(v) /\ ~InReady(v) /\ status[v] \in {"blocked", "dead"}
  BY <1>2, <1>3, <1>6 DEF QueueOK, Awaits, Blocked
<1>8. ~Awaits(v)'
  <2>1. \A f \in Sqes' : f \in Sqes /\ f # e
    BY <1>1, <1>2 DEF Sqes
  <2>2. \A f \in Sqes : f.op = e.op => f = e
    BY <1>2 DEF SharedInv, NumbersOK
  <2> QED BY <1>2, <1>3, <2>1, <2>2 DEF Awaits
<1>9. \A c \in Conns : conn'[c].greenlet # v
  BY <1>1, <1>3, <1>6 DEF QueueOK, Transfers
<1>10. accept'.greenlet \in {None, accept.greenlet} /\ accept'.greenlet # v
  BY <1>1, <1>3, <1>6, <1>7 DEF QueueOK, Blocked
<1>11. call[v].kind # "accept"
  BY <1>3
<1>12. /\ QueueOK' /\ ready' \in Seq(Greenlets)
       /\ \A h \in Greenlets : Fetching(h)' => Fetching(h)
  BY <1>1, <1>2, <1>3, <1>4, <1>5, <1>7, <1>8, <1>9, <1>10, <1>11, QueueWakes
<1>13. LoopTypes'
  BY <1>1, <1>2, <1>6, <1>12 DEF LoopTypes, SharedInv
<1>14. ClosersLess
  BY <1>1, ReapClosers DEF ClosersLess, Cancelling
<1>15. SocketsOK'
  BY <1>1, <1>2, SocketsSame
<1>16. RolesLess
  BY <1>1, <1>2, <1>12, RolesOf
<1>17. HoldOK'
  BY <1>1, <1>14, <1>15, <1>16, HoldSame, RolesStayOnce DEF SharedInv, HoldOK
<1> QED BY <1>5, <1>12, <1>13, <1>17 DEF RestOK

(* A completion after which everybody is queued as before.                 *)
LEMMA QuietReapRest ==
  ASSUME SharedInv, SharedTypes', NEW e, NEW c, NEW f, Reaps(e), Executes(e),
         UNCHANGED <<ready, accept>>, QueuesOne, WaitersKept,
         (UNCHANGED status) \/ \E v \in Greenlets : WaiterDropped(v),
         \A fd \in Fds : \A x : Closing(x, fd)' =>
           (Closing(x, fd) /\ x # e) \/ (x = f /\ Cancelling(c, fd) /\ ~Cancelling(c, fd)'),
         \A b, fd : Cancelling(b, fd)' => Cancelling(b, fd),
         SocketsOK'
  PROVE  RestOK'
<1>1. /\ e \in inflight /\ inflight' \subseteq inflight /\ PhaseKept /\ phase' \in Phases
      /\ UNCHANGED <<call, own>> /\ Descs' = Descs
      /\ \A h \in Greenlets : call'[h].kind = "connect" => call'[h] = call[h]
  BY ReapsFacts
<1>2. /\ file' = (IF e.kind \in Closes THEN [file EXCEPT ![e.desc.fd] = 0] ELSE file)
      /\ file' \in [Fds -> Nat]
  BY ExecutesFile
<1>3. /\ LoopTypes' /\ QueueOK' /\ NumbersOK'
      /\ \A h \in Greenlets : Fetching(h)' => Fetching(h)
  BY <1>1, <1>2, SameRest
<1>4. accept'.result = accept.result
  OBVIOUS
<1>5. RolesLess
  BY <1>1, <1>3, <1>4, RolesOf
<1>6. HoldOK'
  BY <1>1, <1>2, <1>5, HoldReaps
<1> QED BY <1>3, <1>6 DEF RestOK

(* One that changes nothing but the file it may close.                     *)
LEMMA ReapIgnoredRest ==
  ASSUME SharedInv, SharedTypes', NEW e, ReapIgnored(e)
  PROVE  RestOK'
<1>1. Reaps(e) /\ Executes(e) /\ UNCHANGED <<ready, accept, status, sq, ops, conn, freeConns>>
  BY DEF ReapIgnored
<1>2. QueuesOne /\ WaitersKept /\ \A b, fd : Cancelling(b, fd)' => Cancelling(b, fd)
  BY <1>1 DEF QueuesOne, WaitersKept, Cancelling
<1>3. \A x, fd : Closing(x, fd)' => Closing(x, fd) /\ x # e
  BY <1>1, ReapClosers
<1>4. SocketsOK'
  BY <1>1, ReapsFacts, SocketsSame
<1> QED BY <1>1, <1>2, <1>3, <1>4, QuietReapRest

(* The connection whose operation completed.                               *)
LEMMA ReapsConnFacts ==
  ASSUME SharedInv, NEW e, ReapsConn(e)
  PROVE  /\ Reaps(e) /\ Executes(e) /\ UNCHANGED accept /\ e.conn \in Conns
         /\ Completed(e).desc = conn[e.conn].desc /\ Completed(e).state = conn[e.conn].state
         /\ Completed(e).greenlet = conn[e.conn].greenlet
<1>1. Reaps(e) /\ Executes(e) /\ Lookup(e) /\ UNCHANGED accept
  BY DEF ReapsConn
<1>2. e \in inflight
  BY <1>1 DEF Reaps
<1>3. e.conn \in Conns
  BY <1>1, <1>2 DEF Lookup, SharedInv, SharedTypes, SharedSqe
<1> QED BY <1>1, <1>3 DEF Completed, With

(* A connection that is released by the completion of its close.           *)
LEMMA ReapClosingRest ==
  ASSUME SharedInv, SharedTypes', NEW e, ReapClosing(e)
  PROVE  RestOK'
<1>1. ReapsConn(e) /\ conn[e.conn].state = "closing" /\ Release(e.conn) /\ UNCHANGED <<ready, sq, ops>>
  BY DEF ReapClosing
<1>2. PICK c \in Conns : c = e.conn
  BY <1>1, ReapsConnFacts
<1>3. Reaps(e) /\ Executes(e) /\ UNCHANGED accept
  BY <1>1, ReapsConnFacts
<1>4. Release(c) /\ conn[c].state = "closing"
  BY <1>1, <1>2
<1>5. /\ (UNCHANGED status) \/ \E v \in Greenlets : WaiterDropped(v)
      /\ WaitersKept /\ \A b, fd : Cancelling(b, fd)' => Cancelling(b, fd)
  BY <1>4, ReleaseWaiter
<1>6. conn' = [conn EXCEPT ![c] = ReleasedConn(c)] /\ freeConns' \subseteq freeConns \cup {c}
  BY <1>4 DEF Release
<1>7. \A b \in Conns \ {c} : conn'[b] = conn[b]
  BY <1>6, ConnStep
<1>8. \A h \in Greenlets : call[h].kind = "connect" => call[h].conn # c
  BY <1>4 DEF SharedInv, HoldOK, SocketsOK
<1>9. SocketsOK'
  BY <1>3, <1>6, <1>7, <1>8, ReapsFacts, SocketsKept
<1>10. \A x, fd : Closing(x, fd)' => Closing(x, fd) /\ x # e
  BY <1>1, <1>3, ReapClosers
<1>11. QueuesOne
  BY <1>1 DEF QueuesOne
<1> QED BY <1>1, <1>3, <1>5, <1>9, <1>10, <1>11, QuietReapRest

(* A completion for a connection that waits for all of its own to close.   *)
LEMMA ReapCancellingRest ==
  ASSUME SharedInv, SharedTypes', NEW e, ReapCancelling(e)
  PROVE  RestOK'
<1>1. ReapsConn(e) /\ conn[e.conn].state = "cancelling" /\ UNCHANGED ready
  BY DEF ReapCancelling
<1>2. PICK c \in Conns : c = e.conn
  BY <1>1, ReapsConnFacts
<1>3. PICK r : r = Completed(e)
  OBVIOUS
<1>4. Reaps(e) /\ Executes(e) /\ UNCHANGED accept /\ conn[c].state = "cancelling"
      /\ r.desc = conn[c].desc /\ r.state = "cancelling" /\ r.greenlet = conn[c].greenlet
  BY <1>1, <1>2, <1>3, ReapsConnFacts
<1>5. \A h \in Greenlets : call[h].kind = "connect" => call[h].conn # c
  BY <1>4 DEF SharedInv, HoldOK, SocketsOK
<1>6. CASE SubmitClose(c, r)
  <2>1. /\ QueuesOne /\ WaitersKept
        /\ (UNCHANGED status) \/ \E v \in Greenlets : WaiterDropped(v)
        /\ \A b \in Conns \ {c} : conn'[b] = conn[b]
        /\ freeConns' \subseteq freeConns \cup {c}
        /\ \A b, fd : Cancelling(b, fd)' => Cancelling(b, fd) /\ b # c
        /\ \E f : sq' \subseteq sq \cup {f} /\ f.desc = conn[c].desc
    BY <1>4, <1>6, SubmitCloseEffect
  <2>2. PICK f : sq' \subseteq sq \cup {f} /\ f.desc = conn[c].desc
    BY <2>1
  <2>3. e \notin sq /\ inflight' = inflight \ {e}
    BY <1>4, ReapsFacts
  <2>4. \A fd \in Fds : \A x : Closing(x, fd)' =>
           (Closing(x, fd) /\ x # e) \/ (x = f /\ Cancelling(c, fd) /\ ~Cancelling(c, fd)')
    <3> SUFFICES ASSUME NEW fd \in Fds, NEW x, Closing(x, fd)'
                 PROVE  (Closing(x, fd) /\ x # e) \/ (x = f /\ Cancelling(c, fd) /\ ~Cancelling(c, fd)')
      OBVIOUS
    <3>1. x.kind \in Closes /\ x.desc.fd = fd /\ (x \in sq \/ x = f \/ (x \in inflight /\ x # e))
      BY <2>2, <2>3 DEF Closing, Sqes
    <3>2. CASE x \in sq \/ (x \in inflight /\ x # e)
      BY <2>3, <3>1, <3>2 DEF Closing, Sqes
    <3>3. CASE x = f
      <4>1. Cancelling(c, fd)
        BY <1>4, <2>2, <3>1, <3>3 DEF Cancelling
      <4> QED BY <2>1, <3>3, <4>1
    <3> QED BY <3>1, <3>2, <3>3
  <2>5. SocketsOK'
    BY <1>4, <1>5, <2>1, ReapsFacts, SocketsKept
  <2> QED BY <1>1, <1>4, <2>1, <2>4, <2>5, QuietReapRest
<1>7. CASE conn' = [conn EXCEPT ![c] = r] /\ UNCHANGED <<freeConns, fdToConn, status, activeWaits, sq, ops>>
  <2>1. \A b \in Conns : conn'[b] = IF b = c THEN r ELSE conn[b]
    BY <1>7, ConnStep
  <2>2. WaitersKept /\ \A b, fd : Cancelling(b, fd)' => Cancelling(b, fd)
    BY <1>4, <2>1 DEF WaitersKept, Cancelling
  <2>3. \A x, fd : Closing(x, fd)' => Closing(x, fd) /\ x # e
    BY <1>4, <1>7, ReapClosers
  <2>4. \A b \in Conns \ {c} : conn'[b] = conn[b]
    BY <2>1
  <2>5. SocketsOK'
    BY <1>4, <1>5, <1>7, <2>4, ReapsFacts, SocketsKept
  <2>6. QueuesOne
    BY <1>7 DEF QueuesOne
  <2> QED BY <1>1, <1>4, <1>7, <2>2, <2>3, <2>5, <2>6, QuietReapRest
<1> QED BY <1>2, <1>3, <1>6, <1>7 DEF ReapCancelling

(* The completion of a transfer.                                           *)
LEMMA ReapTransferRest ==
  ASSUME SharedInv, SharedTypes', NEW e, ReapTransfer(e)
  PROVE  RestOK'
<1>1. ReapsConn(e) /\ UNCHANGED <<status, sq, freeConns, ops>>
  BY DEF ReapTransfer
<1>2. PICK c \in Conns : c = e.conn
  BY <1>1, ReapsConnFacts
<1>3. Reaps(e) /\ Executes(e) /\ UNCHANGED accept /\ accept'.greenlet = accept.greenlet
      /\ accept'.result = accept.result
  BY <1>1, ReapsConnFacts
<1>4. /\ e \in inflight /\ inflight' \subseteq inflight /\ PhaseKept /\ phase' \in Phases
      /\ UNCHANGED <<call, own>> /\ Descs' = Descs
      /\ \A h \in Greenlets : call'[h].kind = "connect" => call'[h] = call[h]
  BY <1>3, ReapsFacts
<1>5. PICK r : r = With(conn[c], "idle", None, Completed(e).pending, e.op)
  OBVIOUS
<1>6. conn' = [conn EXCEPT ![c] = r]
  BY <1>2, <1>5 DEF ReapTransfer
<1>7. r.greenlet = None /\ r.state = "idle" /\ r.desc = conn[c].desc
  BY <1>5 DEF With
<1>8. /\ \A b \in Conns : conn'[b] = IF b = c THEN r ELSE conn[b]
      /\ WaitersKept /\ \A b, fd : Cancelling(b, fd)' => Cancelling(b, fd)
  <2>1. r.greenlet \in {None, conn[c].greenlet} /\ r.state # "cancelling"
    BY <1>7
  <2> QED BY <1>6, <2>1, ConnStep
<1>9. \A x, fd : Closing(x, fd)' => Closing(x, fd) /\ x # e
  BY <1>1, <1>3, ReapClosers
<1>10. /\ \A b \in Conns \ {c} : conn'[b] = conn[b]
       /\ conn'[c].desc = conn[c].desc /\ conn'[c].state \notin {"cancelling", "closing"}
  BY <1>7, <1>8
<1>11. SocketsOK'
  BY <1>1, <1>4, <1>10, SocketsKept
<1>12. QueuesOne
  BY <1>1 DEF QueuesOne
<1>13. CASE conn[c].greenlet = None
  <2>1. UNCHANGED ready
    BY <1>2, <1>13 DEF ReapTransfer
  <2> QED BY <1>1, <1>3, <1>8, <1>9, <1>11, <1>12, <2>1, QuietReapRest
<1>14. CASE conn[c].greenlet # None
  <2>1. PICK v \in Greenlets : v = conn[c].greenlet
    BY <1>14 DEF SharedInv, SharedTypes, SharedConn
  <2>2. ready' = Append(ready, v)
    BY <1>2, <1>14, <2>1 DEF ReapTransfer
  <2>3. QueueOK /\ status \in [Greenlets -> Statuses]
    BY DEF SharedInv, LoopTypes
  <2>4. ~InReady(v) /\ Blocked(v) /\ call[v].kind \in Transfers /\ call[v].conn = c
    BY <2>1, <2>3 DEF QueueOK
  <2>5. status[v] \in {"blocked", "dead"} /\ call[v].kind \notin {"connect", "accept"}
    BY <2>4 DEF Blocked, Transfers
  <2>6. \A b \in Conns : conn'[b].greenlet # v
    <3> SUFFICES ASSUME NEW b \in Conns, conn'[b].greenlet = v PROVE FALSE
      OBVIOUS
    <3>1. b # c
      BY <1>7, <1>8, ConnsAssumption
    <3>2. conn[b].greenlet = v
      BY <1>8, <3>1
    <3> QED BY <2>3, <2>4, <3>1, <3>2 DEF QueueOK
  <2>7. accept'.greenlet \in {None, accept.greenlet} /\ accept'.greenlet # v
    BY <1>3, <2>3, <2>4, <2>5 DEF QueueOK, Blocked
  <2>8. NumbersOK' /\ AwaitsLess
    BY <1>4, <1>12, NumbersStep DEF AwaitsLess
  <2>9. UNCHANGED <<status, call>>
    BY <1>1, <1>4
  <2>10. /\ QueueOK' /\ ready' \in Seq(Greenlets)
         /\ \A h \in Greenlets : Fetching(h)' => Fetching(h)
    BY <1>4, <1>8, <2>2, <2>4, <2>5, <2>6, <2>7, <2>8, <2>9, QueueWakes
  <2>11. /\ file' = (IF e.kind \in Closes THEN [file EXCEPT ![e.desc.fd] = 0] ELSE file)
         /\ file' \in [Fds -> Nat]
    BY <1>3, ExecutesFile
  <2>12. LoopTypes'
    BY <1>4, <2>3, <2>9, <2>10, <2>11 DEF LoopTypes
  <2>13. RolesLess
    BY <1>3, <1>4, <2>10, RolesOf
  <2>14. HoldOK'
    BY <1>4, <1>8, <1>9, <1>11, <2>11, <2>13, HoldReaps
  <2> QED BY <2>8, <2>10, <2>12, <2>14 DEF RestOK
<1> QED BY <1>13, <1>14

(* A suspended greenlet whose call returns.                                *)
LEMMA ReturnsQueue ==
  ASSUME SharedInv, SharedTypes', NEW g \in Greenlets, Resumes(g), Returns(g), WaitersKept,
         file' \in [Fds -> Nat]
  PROVE  /\ LoopTypes' /\ QueueOK' /\ NumbersOK'
         /\ \A h \in Greenlets : Fetching(h)' => Fetching(h) /\ h # g
         /\ InReady(g) /\ Blocked(g) /\ UNCHANGED <<sq, inflight>> /\ accept'.result = accept.result
         /\ call'[g].kind = "none" /\ \A h \in Greenlets \ {g} : call'[h] = call[h]
<1>1. /\ Drains(g) /\ ready' = Tail(ready) /\ UNCHANGED <<phase, inflight, accept, sq, ops>>
      /\ status[g] = "blocked" /\ call' = [call EXCEPT ![g] = NoCall]
  BY DEF Resumes, Returns
<1>2. Takes(g) /\ InReady(g) /\ Blocked(g)
  BY <1>1, DrainedTakes DEF Blocked
<1>3. /\ call'[g].kind = "none" /\ call'[g].op = 0 /\ \A h \in Greenlets \ {g} : call'[h] = call[h]
  BY <1>1 DEF SharedInv, SharedTypes, NoCall
<1>4. NumbersOK' /\ AwaitsLess
  <2>1. QueuesOne /\ inflight' \subseteq inflight
    BY <1>1 DEF QueuesOne
  <2>2. \A h \in Greenlets : call'[h].op = call[h].op \/ call'[h].op = 0
    BY <1>3
  <2> QED BY <2>1, <2>2, NumbersStep DEF AwaitsLess
<1>5. /\ QueueOK' /\ status' \in [Greenlets -> Statuses]
      /\ \A h \in Greenlets : Fetching(h)' => Fetching(h) /\ h # g
  BY <1>1, <1>2, <1>4, QueueReturns
<1>6. LoopTypes'
  BY <1>1, <1>2, <1>5 DEF LoopTypes, SharedInv, Takes
<1> QED BY <1>1, <1>2, <1>3, <1>4, <1>5, <1>6

(* green_accept returns, and has not had to reject what it accepted.       *)
LEMMA ResumeAcceptRest ==
  ASSUME SharedInv, SharedTypes', NEW g \in Greenlets, ResumeAccept(g),
         ~(accept.result # NoDesc /\ freeConns = {})
  PROVE  RestOK'
<1>1. PICK d \in Desc \cup {NoDesc} : d = accept.result
  BY DEF SharedInv, SharedTypes, AcceptRecord
<1>2. /\ Resumes(g) /\ Returns(g) /\ call[g].kind = "accept"
      /\ own' = [own EXCEPT ![g] = IF d = NoDesc THEN @ ELSE @ \cup {d}]
  BY <1>1 DEF ResumeAccept
<1>3. ASSUME WaitersKept, UNCHANGED file
      PROVE  /\ LoopTypes' /\ QueueOK' /\ NumbersOK' /\ UNCHANGED <<sq, inflight>>
             /\ Fetching(g) /\ \A h \in Greenlets : ~Fetching(h)'
             /\ \A h \in Greenlets : call'[h].kind = "connect" => call'[h] = call[h]
  <2>1. file' \in [Fds -> Nat]
    BY <1>3 DEF SharedInv, LoopTypes
  <2>2. /\ LoopTypes' /\ QueueOK' /\ NumbersOK' /\ UNCHANGED <<sq, inflight>>
        /\ \A h \in Greenlets : Fetching(h)' => Fetching(h) /\ h # g
        /\ InReady(g) /\ Blocked(g)
        /\ call'[g].kind = "none" /\ \A h \in Greenlets \ {g} : call'[h] = call[h]
    BY <1>2, <1>3, <2>1, ReturnsQueue
  <2>3. Fetching(g)
    BY <1>2, <2>2 DEF Fetching
  <2>4. \A h \in Greenlets : Fetching(h) => h = g
    BY <2>3 DEF SharedInv, QueueOK
  <2> QED BY <2>2, <2>3, <2>4
<1>4. CASE d = NoDesc
  <2>1. UNCHANGED <<conn, freeConns, file>>
    BY <1>1, <1>4 DEF ResumeAccept
  <2>2. WaitersKept /\ \A b, fd : Cancelling(b, fd)' => Cancelling(b, fd)
    BY <2>1 DEF WaitersKept, Cancelling
  <2>3. /\ LoopTypes' /\ QueueOK' /\ NumbersOK' /\ UNCHANGED <<sq, inflight>>
        /\ \A h \in Greenlets : ~Fetching(h)'
        /\ \A h \in Greenlets : call'[h].kind = "connect" => call'[h] = call[h]
    BY <1>3, <2>1, <2>2
  <2>4. Descs' = Descs
    BY <1>2, <1>4 DEF Descs, SharedInv, SharedTypes
  <2>5. RolesLess
    BY <2>3, <2>4 DEF RolesLess, Given, Arrived, Connects
  <2>6. ClosersLess
    BY <2>2, <2>3 DEF ClosersLess, Closing, Sqes
  <2>7. SocketsOK'
    BY <2>1, <2>3, SocketsSame
  <2>8. HoldOK'
    BY <2>1, <2>5, <2>6, <2>7, HoldSame, RolesStayOnce DEF SharedInv, HoldOK
  <2> QED BY <2>3, <2>8 DEF RestOK
<1>5. CASE d # NoDesc
  <2>1. PICK c \in freeConns : Registers(c, d) /\ UNCHANGED file
    BY <1>1, <1>5 DEF ResumeAccept
  <2> DEFINE r == [desc |-> d, state |-> "idle", gen |-> conn[c].gen,
                   greenlet |-> conn[c].greenlet, pending |-> 0, result |-> 0]
  <2>2. c \in Conns /\ conn' = [conn EXCEPT ![c] = r] /\ freeConns' = freeConns \ {c}
        /\ r.greenlet = conn[c].greenlet /\ r.state = "idle"
    BY <2>1 DEF Registers, SharedInv, SharedTypes
  <2> HIDE DEF r
  <2>3. /\ \A b \in Conns \ {c} : conn'[b] = conn[b]
        /\ WaitersKept /\ \A b, fd : Cancelling(b, fd)' => Cancelling(b, fd)
    BY <2>2, ConnStep
  <2>4. /\ LoopTypes' /\ QueueOK' /\ NumbersOK' /\ UNCHANGED <<sq, inflight>>
        /\ Fetching(g) /\ \A h \in Greenlets : ~Fetching(h)'
        /\ \A h \in Greenlets : call'[h].kind = "connect" => call'[h] = call[h]
    BY <1>3, <2>1, <2>3
  <2>5. \A h \in Greenlets : call[h].kind = "connect" => call[h].conn # c
    BY DEF SharedInv, HoldOK, SocketsOK, ConnectsOK
  <2>6. freeConns' \subseteq freeConns \cup {c}
    BY <2>2
  <2>7. SocketsOK'
    BY <2>2, <2>3, <2>4, <2>5, <2>6, SocketsKept
  <2>8. ClosersLess
    BY <2>3, <2>4 DEF ClosersLess, Closing, Sqes
  <2>9. d \in Desc /\ Arrived(d)
    BY <1>1, <1>5, <2>4 DEF Arrived
  <2>10. Held(d) /\ \A h \in Greenlets : ~Connects(h, d)
    BY <2>9 DEF Held, SharedInv, HoldOK, HeldOnce
  <2>11. \A b \in Desc \ {d} : /\ Given(b)' => Given(b)
                               /\ Arrived(b)' => Arrived(b)
                               /\ \A h \in Greenlets : Connects(h, b)' => Connects(h, b)
    <3>1. \A h \in Greenlets : own'[h] \subseteq own[h] \cup {d}
      BY <1>2, <1>5 DEF SharedInv, SharedTypes
    <3>2. \A b \in Desc \ {d} : Given(b)' => Given(b)
      BY <3>1 DEF Given, Descs
    <3> QED BY <2>4, <3>2 DEF Arrived, Connects
  <2>12. ~Arrived(d)' /\ \A h \in Greenlets : ~Connects(h, d)'
    BY <2>4, <2>10 DEF Arrived, Connects
  <2>13. HeldOnce' /\ \A b \in Desc : Held(b)' => Held(b)
    BY <2>9, <2>10, <2>11, <2>12, OnceGains DEF SharedInv, HoldOK
  <2>14. HoldOK'
    BY <2>1, <2>7, <2>8, <2>13, HoldSame
  <2> QED BY <2>4, <2>14 DEF RestOK
<1> QED BY <1>4, <1>5

(* green_connect returns.                                                  *)
LEMMA ResumeConnectRest ==
  ASSUME SharedInv, SharedTypes', NEW g \in Greenlets, ResumeConnect(g)
  PROVE  RestOK'
<1>1. /\ Resumes(g) /\ Returns(g) /\ call[g].kind = "connect" /\ call' = [call EXCEPT ![g] = NoCall]
      /\ UNCHANGED <<sq, inflight, accept>>
  BY DEF ResumeConnect, Resumes, Returns
<1>2. PICK d \in Desc : d = call[g].desc
  BY <1>1 DEF SharedInv, SharedTypes, CallsTyped
<1>3. PICK c \in Conns : c = call[g].conn
  BY <1>1 DEF SharedInv, HoldOK, SocketsOK, ConnectsOK
<1>4. ASSUME WaitersKept, file' \in [Fds -> Nat]
      PROVE  /\ LoopTypes' /\ QueueOK' /\ NumbersOK'
             /\ \A h \in Greenlets : Fetching(h)' => Fetching(h)
             /\ accept'.result = accept.result
             /\ call'[g].kind = "none" /\ \A h \in Greenlets \ {g} : call'[h] = call[h]
  BY <1>1, <1>4, ReturnsQueue
<1>5. CASE Disconnects(g) /\ UNCHANGED own
  <2>1. conn' = [conn EXCEPT ![c] = ReleasedConn(c)] /\ ReleasedConn(c).greenlet = None
    BY <1>3, <1>5 DEF Disconnects, ReleasedConn
  <2>2. WaitersKept
    BY <2>1, ConnStep
  <2>3. file' \in [Fds -> Nat]
    BY <1>5 DEF Disconnects, SharedInv, LoopTypes
  <2>4. /\ LoopTypes' /\ QueueOK' /\ NumbersOK'
        /\ \A h \in Greenlets : Fetching(h)' => Fetching(h)
    BY <1>4, <2>2, <2>3
  <2>5. HoldOK'
    BY <1>1, <1>5, <2>4, DisconnectsHold
  <2> QED BY <2>4, <2>5 DEF RestOK
<1>6. CASE own' = [own EXCEPT ![g] = @ \cup {d}] /\ UNCHANGED <<conn, freeConns, file>>
  <2>1. WaitersKept /\ file' \in [Fds -> Nat]
    BY <1>6 DEF WaitersKept, SharedInv, LoopTypes
  <2>2. /\ LoopTypes' /\ QueueOK' /\ NumbersOK'
        /\ \A h \in Greenlets : Fetching(h)' => Fetching(h)
        /\ accept'.result = accept.result
        /\ call'[g].kind = "none" /\ \A h \in Greenlets \ {g} : call'[h] = call[h]
    BY <1>4, <2>1
  <2>3. \A h \in Greenlets : call'[h].kind = "connect" => call'[h] = call[h]
    BY <2>2
  <2>4. ClosersLess
    BY <1>1, <1>6 DEF ClosersLess, Closing, Cancelling, Sqes
  <2>5. SocketsOK'
    BY <1>6, <2>3, SocketsSame
  <2>6. Connects(g, d)
    BY <1>1, <1>2 DEF Connects
  <2>7. Held(d) /\ ~Arrived(d) /\ \A h \in Greenlets : Connects(h, d) => h = g
    BY <2>6 DEF Held, SharedInv, HoldOK, HeldOnce
  <2>8. ~Arrived(d)' /\ \A h \in Greenlets : ~Connects(h, d)'
    BY <2>2, <2>7 DEF Arrived, Connects
  <2>9. \A b \in Desc \ {d} : /\ Given(b)' => Given(b)
                              /\ Arrived(b)' => Arrived(b)
                              /\ \A h \in Greenlets : Connects(h, b)' => Connects(h, b)
    <3>1. \A h \in Greenlets : own'[h] \subseteq own[h] \cup {d}
      BY <1>6 DEF SharedInv, SharedTypes
    <3>2. \A b \in Desc \ {d} : Given(b)' => Given(b)
      BY <3>1 DEF Given, Descs
    <3> QED BY <2>2, <3>2 DEF Arrived, Connects
  <2>10. HeldOnce' /\ \A b \in Desc : Held(b)' => Held(b)
    BY <2>7, <2>8, <2>9, OnceGains DEF SharedInv, HoldOK
  <2>11. HoldOK'
    BY <1>6, <2>4, <2>5, <2>10, HoldSame
  <2> QED BY <2>2, <2>11 DEF RestOK
<1> QED BY <1>2, <1>5, <1>6 DEF ResumeConnect

(* A transfer returns.                                                     *)
LEMMA TransferReturnsRest ==
  ASSUME SharedInv, SharedTypes', NEW g \in Greenlets, TransferReturns(g)
  PROVE  RestOK'
<1>1. Resumes(g) /\ Returns(g) /\ UNCHANGED <<conn, freeConns, own, file>>
  BY DEF TransferReturns, envVars
<1>2. WaitersKept /\ file' \in [Fds -> Nat]
  BY <1>1 DEF WaitersKept, SharedInv, LoopTypes
<1>3. /\ LoopTypes' /\ QueueOK' /\ NumbersOK' /\ UNCHANGED <<sq, inflight>>
      /\ \A h \in Greenlets : Fetching(h)' => Fetching(h)
      /\ accept'.result = accept.result
      /\ \A h \in Greenlets : call'[h].kind = "connect" => call'[h] = call[h]
  <2>1. /\ LoopTypes' /\ QueueOK' /\ NumbersOK' /\ UNCHANGED <<sq, inflight>>
        /\ \A h \in Greenlets : Fetching(h)' => Fetching(h) /\ h # g
        /\ accept'.result = accept.result
        /\ call'[g].kind = "none" /\ \A h \in Greenlets \ {g} : call'[h] = call[h]
    BY <1>1, <1>2, ReturnsQueue
  <2> QED BY <2>1
<1>4. Descs' \subseteq Descs
  BY <1>1 DEF Descs
<1>5. RolesLess
  BY <1>3, <1>4, RolesOf
<1>6. ClosersLess
  BY <1>1, <1>3 DEF ClosersLess, Closing, Cancelling, Sqes
<1>7. SocketsOK'
  BY <1>1, <1>3, SocketsSame
<1>8. HoldOK'
  BY <1>1, <1>5, <1>6, <1>7, HoldSame, RolesStayOnce DEF SharedInv, HoldOK
<1> QED BY <1>3, <1>8 DEF RestOK

(* The rest of a partial send is sent.                                     *)
LEMMA SendsRestRest ==
  ASSUME SharedInv, SharedTypes', NEW g \in Greenlets, SendsRest(g)
  PROVE  RestOK'
<1>1. /\ Drains(g) /\ ready' = Tail(ready) /\ UNCHANGED <<phase, inflight, accept, own, file, freeConns>>
      /\ call[g].kind = "send" /\ Transfer(g, "send", call[g].conn, call[g].desc)
  BY DEF SendsRest, Resumes, envVars
<1>2. PICK c \in Conns : c = call[g].conn
  BY <1>1 DEF SharedInv, SharedTypes, CallsTyped, Transfers
<1>3. Takes(g)
  BY <1>1, DrainedTakes
<1>4. PICK d : d = call[g].desc
  OBVIOUS
<1>5. Transfer(g, "send", c, d) /\ "send" \in Transfers
  BY <1>1, <1>2, <1>4 DEF Transfers
<1> QED BY <1>1, <1>3, <1>5, TransferRest

(* No green_accept finds the pool exhausted.                               *)
NeverRejects ==
  [][~\E g \in Greenlets : ResumeAccept(g) /\ accept.result # NoDesc /\ freeConns = {}]_vars

(* Every step of the program and of the loop.                              *)
LEMMA RestNext ==
  ASSUME SharedInv, SharedTypes', Fates \subseteq {"dead"}, [Next]_vars,
         [~\E g \in Greenlets : ResumeAccept(g) /\ accept.result # NoDesc /\ freeConns = {}]_vars
  PROVE  RestOK'
<1>1. CASE UNCHANGED vars
  <2>1. /\ UNCHANGED <<status, ready, phase, sq, inflight, conn, freeConns, accept, call, own, file, ops>>
    BY <1>1 DEF vars, loopVars, connVars, envVars
  <2>2. LoopTypes' /\ NumbersOK'
    BY <2>1 DEF SharedInv, LoopTypes, NumbersOK, Sqes
  <2>3. \A h \in Greenlets : /\ InReady(h)' <=> InReady(h)
                             /\ Blocked(h)' <=> Blocked(h)
                             /\ Fetching(h)' <=> Fetching(h)
                             /\ Awaits(h)' <=> Awaits(h)
    BY <2>1 DEF InReady, Blocked, Fetching, Awaits, Sqes
  <2>4. Distinct(ready)'
    BY <2>1 DEF SharedInv, QueueOK, Distinct
  <2>5. QueueOK'
    BY <2>1, <2>3, <2>4 DEF SharedInv, QueueOK
  <2>6. RolesLess /\ ClosersLess
    BY <2>1, <2>3 DEF RolesLess, ClosersLess, Given, Descs, Arrived, Connects, Closing, Cancelling, Sqes
  <2>7. SocketsOK'
    BY <2>1, SocketsSame
  <2>8. HoldOK'
    BY <2>1, <2>6, <2>7, HoldSame, RolesStayOnce DEF SharedInv, HoldOK
  <2> QED BY <2>2, <2>5, <2>8 DEF RestOK
<1>2. CASE (GreenletStep \/ LoopStep \/ LoopFails \/ RequestStop \/ ReapStop) /\ UNCHANGED <<connVars, envVars, ops>>
  <2>1. UNCHANGED <<connVars, file, ops>> /\ UNCHANGED <<conn, freeConns, accept, call, own, file>>
    BY <1>2 DEF connVars, envVars
  <2>2. /\ LoopTypes' /\ QueueOK' /\ NumbersOK' /\ Sqes' = Sqes
        /\ \A h \in Greenlets : Fetching(h)' => Fetching(h)
    BY <1>2, <2>1, LoopQueue
  <2>3. RolesLess /\ ClosersLess
    BY <2>1, <2>2 DEF RolesLess, ClosersLess, Given, Descs, Arrived, Connects, Closing, Cancelling
  <2>4. SocketsOK'
    BY <2>1, SocketsSame
  <2>5. HoldOK'
    BY <2>1, <2>3, <2>4, HoldSame, RolesStayOnce DEF SharedInv, HoldOK
  <2> QED BY <2>2, <2>5 DEF RestOK
<1>3. CASE CallStep
  <2>1. PICK g \in Greenlets :
          \/ Accept(g)
          \/ \E fd \in Fds : OpenFile(g, fd) \/ Connect(g, fd)
          \/ ConnectFails(g)
          \/ \E d \in Descs :
               \/ \E h \in Greenlets : Spawn(g, h, d)
               \/ \E kind \in Transfers : RecvOrSend(g, kind, d)
               \/ RegisterFd(g, d)
               \/ UnregisterFd(g, d)
               \/ Close(g, d)
          \/ \E v \in Greenlets : Throw(g, v)
    BY <1>3 DEF CallStep
  <2>2. CASE Accept(g) \/ ConnectFails(g)
    BY <2>2, AcceptRest, ConnectFailsRest
  <2>3. CASE \E fd \in Fds : OpenFile(g, fd) \/ Connect(g, fd)
    BY <2>3, OpenFileRest, ConnectRest
  <2>4. CASE \E d \in Descs : \/ \E h \in Greenlets : Spawn(g, h, d)
                              \/ \E kind \in Transfers : RecvOrSend(g, kind, d)
    BY <2>4, SpawnRest, RecvOrSendRest
  <2>5. CASE \E d \in Descs : RegisterFd(g, d) \/ UnregisterFd(g, d) \/ Close(g, d)
    BY <2>5, RegisterFdRest, UnregisterFdRest, CloseRest
  <2>6. CASE \E v \in Greenlets : Throw(g, v)
    BY <2>6, ThrowRest
  <2> QED BY <2>1, <2>2, <2>3, <2>4, <2>5, <2>6
<1>4. CASE ReapStep
  BY <1>4, ReapAcceptRest, ReapConnectRest, ReapIgnoredRest, ReapCancellingRest, ReapClosingRest,
     ReapTransferRest DEF ReapStep
<1>5. CASE ResumeStep
  <2>1. PICK g \in Greenlets :
          ResumeAccept(g) \/ ResumeConnect(g) \/ TransferReturns(g) \/ SendsRest(g)
    BY <1>5 DEF ResumeStep
  <2>2. CASE ResumeAccept(g)
    <3>1. CASE ~(accept.result # NoDesc /\ freeConns = {})
      BY <2>2, <3>1, ResumeAcceptRest
    <3>2. CASE accept.result # NoDesc /\ freeConns = {}
      BY <1>1, <2>2, <3>2
    <3> QED BY <3>1, <3>2
  <2> QED BY <2>1, <2>2, ResumeConnectRest, TransferReturnsRest, SendsRestRest
<1> QED BY <1>1, <1>2, <1>3, <1>4, <1>5 DEF Next

(* The initial state.                                                      *)
LEMMA SharedInvInit ==
  ASSUME ConnsInit
  PROVE  SharedInv
<1>1. SharedTypes /\ MapOK /\ \A g \in Greenlets : call[g].kind = "none"
  BY MapInit
<1>2. PICK root \in Greenlets :
        status = [g \in Greenlets |-> IF g = root THEN "scheduled" ELSE "unborn"] /\ ready = <<root>>
  BY DEF ConnsInit, LoopInit
<1>3. /\ phase = "drain" /\ sq = {} /\ inflight = {} /\ file = [fd \in Fds |-> 0] /\ ops = 0
      /\ accept = [greenlet |-> None, pending |-> FALSE, result |-> NoDesc]
      /\ \A c \in Conns : conn[c].greenlet = None /\ conn[c].state = "idle"
      /\ \A g \in Greenlets : call[g] = NoCall /\ own[g] = {}
  BY DEF ConnsInit, LoopInit
<1>4. LoopTypes
  BY <1>2, <1>3 DEF LoopTypes, Statuses, Phases
<1>5. NumbersOK /\ Sqes = {}
  BY <1>3 DEF NumbersOK, Sqes, NoCall
<1>6. Distinct(ready) /\ \A g \in Greenlets : InReady(g) => g = root
  BY <1>2 DEF Distinct, InReady
<1>7. \A g \in Greenlets : ~Fetching(g)
  BY <1>1 DEF Fetching
<1>8. QueueOK
  <2>1. \A g \in Greenlets : InReady(g) => status[g] \in {"scheduled", "dead", "blocked"}
    BY <1>2, <1>6
  <2>2. /\ \A c \in Conns : \A v \in Greenlets : conn[c].greenlet # v
        /\ \A a \in Greenlets : accept.greenlet # a
    BY <1>3, ConnsAssumption
  <2>3. /\ \A g \in Greenlets : status[g] \notin {"blocked", "dead"} => call[g] = NoCall
        /\ \A g \in Greenlets : call[g].kind # "connect"
    BY <1>1, <1>3
  <2> QED BY <1>6, <1>7, <2>1, <2>2, <2>3 DEF QueueOK
<1>9. \A d \in Desc : ~Given(d) /\ ~Arrived(d) /\ \A g \in Greenlets : ~Connects(g, d)
  BY <1>1, <1>3, <1>7 DEF Given, Descs, Arrived, Connects
<1>10. HeldOnce /\ HeldLive
  BY <1>9 DEF HeldOnce, HeldLive, Held
<1>11. ClosersOK
  BY <1>3, <1>5 DEF ClosersOK, Pending, Closing, Cancelling
<1>12. SocketsOK
  BY <1>1 DEF SocketsOK, ConnectsOK
<1> QED BY <1>1, <1>4, <1>5, <1>8, <1>10, <1>11, <1>12 DEF SharedInv, HoldOK

(* The invariant, when a throw ends its greenlet and nothing is rejected.  *)
LEMMA SharedInvAlways ==
  ASSUME Fates \subseteq {"dead"}
  PROVE  Spec /\ NeverRejects => []SharedInv
<1>1. ConnsInit => SharedInv
  BY SharedInvInit
<1>2. SharedInv /\ [Next]_vars
      /\ [~\E g \in Greenlets : ResumeAccept(g) /\ accept.result # NoDesc /\ freeConns = {}]_vars
      => SharedInv'
  <2> SUFFICES ASSUME SharedInv, [Next]_vars,
                 [~\E g \in Greenlets : ResumeAccept(g) /\ accept.result # NoDesc /\ freeConns = {}]_vars
               PROVE  SharedInv'
    OBVIOUS
  <2>1. SharedTypes /\ MapOK /\ ConnectsOK
    BY DEF SharedInv, HoldOK, SocketsOK
  <2>2. SharedTypes' /\ MapOK'
    BY <2>1, MapNext DEF StepKeepsMap
  <2>3. RestOK'
    BY <2>2, RestNext
  <2> QED BY <2>2, <2>3 DEF SharedInv, RestOK
<1> QED BY <1>1, <1>2, PTL DEF Spec, NeverRejects

(* FdMapSound with green_connect, which releases what it registered before *)
(* it waited without looking again: a throw ends the greenlet it reaches,  *)
(* and green_accept rejects nothing.                                       *)
THEOREM ConnectingFdMapSound ==
  ASSUME Fates \subseteq {"dead"}
  PROVE  Spec /\ NeverRejects => []FdMapSound
<1>1. SharedInv => FdMapSound
  BY DEF SharedInv, MapOK
<1> QED BY <1>1, SharedInvAlways, PTL

(* ReleasedOnce for the same programs: the connection green_connect gives  *)
(* back is still taken, though others close, unregister and throw.         *)
THEOREM ConnectingReleasedOnce ==
  ASSUME Fates \subseteq {"dead"}
  PROVE  Spec /\ NeverRejects => ReleasedOnce
<1> DEFINE Once == \A c \in Conns : conn'[c].gen # conn[c].gen =>
                     c \notin freeConns \/ \E g \in Greenlets : ConnectFails(g)
<1>1. SharedInv /\ [Next]_vars => [Once]_vars
  BY MapNext DEF SharedInv, StepKeepsMap, Steady, HoldOK, SocketsOK
<1> QED BY <1>1, SharedInvAlways, PTL DEF Spec, ReleasedOnce
=============================================================================
