------------------------------ MODULE HubConns ------------------------------
(***************************************************************************)
(* Waits that use a connection (src/src/hub.zig, src/src/connection.zig):  *)
(* green_accept, green_recv and http_read_request's doRecv, green_send and *)
(* http_send_response, green_close, green_register_fd, green_unregister_fd,*)
(* green_connect (which waits on an operation slot of its own), the loop's *)
(* handling of their completions, and the clean-up when another greenlet   *)
(* throws into the waiter.                                                 *)
(*                                                                         *)
(* The bytes do not matter, whose completion a greenlet is woken by does:  *)
(* every SQE has a number, and "result" is the number of the SQE whose     *)
(* completion it came from.  A descriptor is an fd together with the file  *)
(* its owner believes it to be; "file" is what the fd really names.        *)
(*                                                                         *)
(* The kernel executes an operation in the step that reaps its completion: *)
(* the ring keeps the order of execution, SQEs of connections are submitted*)
(* when the loop waits, and the batch that follows takes what is complete. *)
(* (green_poll_multi's own submit, which may execute a close while a       *)
(* greenlet runs, is not part of this module.)                             *)
(***************************************************************************)
EXTENDS HubLoop

CONSTANTS
  Conns,     \* the connections of the pool (max_connections of them)
  Conn0,     \* the one with pool_index 0
  Fds,       \* the fds of the process
  None,      \* null
  MaxOps,    \* bound: the SQEs greenlets prepare
  MaxFiles,  \* bound: the files opened or accepted
  MaxGen,    \* bound: the generation up to which a connection is registered
  Shared     \* what greenlets share: each other's descriptors ("fd"), the
             \* hub's one accept ("accept").  The server's share neither: it
             \* has one acceptor, and one greenlet uses and closes an fd

ASSUME ConnsAssumption ==
  /\ Conn0 \in Conns
  /\ None \notin Greenlets /\ None \notin Conns /\ None \notin Fds
  /\ MaxOps \in Nat /\ MaxFiles \in Nat /\ MaxGen \in Nat
  /\ Shared \subseteq {"fd", "accept"}

VARIABLES
  conn,       \* ConnectionPool.connections
  freeConns,  \* ConnectionPool.free_list, as a set
  fdToConn,   \* Hub.fd_to_conn
  accept,     \* Hub.accept_greenlet, accept_pending, accept_result
  call,       \* what each suspended greenlet waits for
  own,        \* the descriptors each greenlet was given and has not closed
  file,       \* kernel: the file an fd names, 0 when it is closed
  files,      \* files opened so far
  ops         \* SQEs prepared so far

connVars == <<conn, freeConns, fdToConn, accept, call>>
envVars  == <<own, file, files>>
vars == <<loopVars, connVars, envVars, ops>>

Desc == [fd : Fds, file : Nat]
NoDesc == [fd |-> None, file |-> 0]
NoCall == [kind |-> "none", conn |-> None, op |-> 0, desc |-> NoDesc]

ConnStates == {"idle", "reading", "writing", "cancelling", "closing"}
Transfers  == {"recv", "send"}

ConnsInit ==
  /\ LoopInit
  /\ conn = [c \in Conns |-> [desc |-> NoDesc, state |-> "idle", gen |-> 0,
                              greenlet |-> None, pending |-> 0, result |-> 0]]
  /\ freeConns = Conns
  /\ fdToConn = [fd \in Fds |-> None]
  /\ accept = [greenlet |-> None, pending |-> FALSE, result |-> NoDesc]
  /\ call = [g \in Greenlets |-> NoCall]
  /\ own  = [g \in Greenlets |-> {}]
  /\ file = [fd \in Fds |-> 0]
  /\ files = 0
  /\ ops = 0

-----------------------------------------------------------------------------
(* The program that uses the hub.                                          *)

CanUse(g, d) == \E h \in Greenlets : d \in own[h] /\ (h = g \/ "fd" \in Shared)

Descs == UNION {own[g] : g \in Greenlets}

(* The kernel gives a new file any fd that is closed.                      *)
Opens(fd) ==
  /\ files < MaxFiles
  /\ file[fd] = 0
  /\ files' = files + 1
  /\ file' = [file EXCEPT ![fd] = files + 1]

(* External: a greenlet creates a socket or a pipe.                        *)
OpenFile(g, fd) ==
  /\ Running(g)
  /\ Opens(fd)
  /\ own' = [own EXCEPT ![g] = @ \cup {[fd |-> fd, file |-> files + 1]}]
  /\ UNCHANGED <<loopVars, connVars, ops>>

(* The acceptor hands an accepted descriptor to the greenlet it creates.   *)
Spawn(g, h, d) ==
  /\ d \in own[g]
  /\ Schedule(g, h)
  /\ own' = [own EXCEPT ![g] = @ \ {d}, ![h] = {d}]
  /\ UNCHANGED <<connVars, file, files, ops>>

-----------------------------------------------------------------------------
(* The connection pool.                                                    *)

ReleasedConn(c) == [desc |-> NoDesc, state |-> "idle", gen |-> conn[c].gen + 1,
                    greenlet |-> None, pending |-> 0, result |-> 0]

(* The connection user_data names has not been released since.             *)
Lookup(e) == e.conn # None /\ conn[e.conn].gen = e.gen

(* The reference the connection held to a suspended greenlet is dropped.   *)
(* Was it the last one, the greenlet is deallocated: GreenletExit is thrown*)
(* into its call, whose cleanupConnSwitch still finds conn.greenlet set.   *)
DropsWaiter(v) ==
  \E freed \in (IF v = None \/ InReady(v) THEN {FALSE} ELSE BOOLEAN) :
    IF freed THEN /\ status' = [status EXCEPT ![v] = "dead"]
                  /\ activeWaits' = activeWaits - 1
             ELSE UNCHANGED <<status, activeWaits>>

(* Mutant: releaseConnection leaves the fd mapped.                         *)
ReleaseKeepsFd(c) ==
  /\ DropsWaiter(conn[c].greenlet)
  /\ conn' = [conn EXCEPT ![c] = ReleasedConn(c)]
  /\ freeConns' = freeConns \cup {c}
  /\ UNCHANGED fdToConn

(* releaseConnection, and green_unregister_fd's own copy of it.            *)
Release(c) ==
  /\ DropsWaiter(conn[c].greenlet)
  /\ conn' = [conn EXCEPT ![c] = ReleasedConn(c)]
  /\ freeConns' = freeConns \cup {c}
  /\ fdToConn' = [fdToConn EXCEPT ![conn[c].desc.fd] = None]

(* Connection r, still registered, in the course of an operation.          *)
With(r, state, g, pending, result) ==
  [desc |-> r.desc, state |-> state, gen |-> r.gen, greenlet |-> g,
   pending |-> pending, result |-> result]

(* pool.acquire and the registration of a descriptor.                      *)
Registers(c, d) ==
  /\ conn' = [conn EXCEPT ![c] = [desc |-> d, state |-> "idle", gen |-> @.gen,
                                  greenlet |-> @.greenlet, pending |-> 0, result |-> 0]]
  /\ freeConns' = freeConns \ {c}
  /\ fdToConn' = [fdToConn EXCEPT ![d.fd] = c]

-----------------------------------------------------------------------------
(* SQEs.  user_data names the connection and its generation; a cancel      *)
(* request carries 0, which reads as generation 0 of pool index 0; the raw *)
(* close of an untracked fd carries IGNORE_SENTINEL.                       *)

Sqe(kind, c, gen, d) ==
  [kind |-> kind, conn |-> c, gen |-> gen, desc |-> d, op |-> ops + 1, link |-> FALSE]

ForConn(kind, c, d) == Sqe(kind, c, conn[c].gen, d)

Queues(e) == sq' = sq \cup {e} /\ ops' = ops + 1

(* Mutant: the close request carries user_data 0.                          *)
SubmitCloseUnnamed(c, r) ==
  IF HasRoom(1)
    THEN /\ conn' = [conn EXCEPT ![c] = With(r, "closing", r.greenlet, r.pending + 1, r.result)]
         /\ Queues(Sqe("close", Conn0, 0, r.desc))
         /\ UNCHANGED <<freeConns, fdToConn, status, activeWaits>>
    ELSE Release(c) /\ UNCHANGED <<sq, ops>>

(* submitClose, on a connection whose other fields became r.               *)
SubmitClose(c, r) ==
  IF HasRoom(1)
    THEN /\ conn' = [conn EXCEPT ![c] = With(r, "closing", r.greenlet, r.pending + 1, r.result)]
         /\ Queues(ForConn("close", c, r.desc))
         /\ UNCHANGED <<freeConns, fdToConn, status, activeWaits>>
    ELSE Release(c) /\ UNCHANGED <<sq, ops>>

-----------------------------------------------------------------------------
(* Calls of a running greenlet.                                            *)

Calls(g) == Running(g) /\ ops < MaxOps

Suspends(g, kind, c, d) ==
  /\ status' = [status EXCEPT ![g] = "blocked"]
  /\ call' = [call EXCEPT ![g] = [kind |-> kind, conn |-> c, op |-> ops + 1, desc |-> d]]
  /\ activeWaits' = activeWaits + 1

Accept(g) ==
  /\ Calls(g)
  /\ accept.pending => "accept" \in Shared
  /\ HasRoom(1)
  /\ Queues(Sqe("accept", None, 0, NoDesc))
  /\ accept' = [greenlet |-> g, pending |-> TRUE, result |-> accept.result]
  /\ Suspends(g, "accept", None, NoDesc)
  /\ UNCHANGED <<ready, phase, stop, inflight, conn, freeConns, fdToConn, envVars>>

(* Mutant: the connection does not remember who waits.                     *)
TransferAnonymous(g, kind, c, d) ==
  /\ HasRoom(1)
  /\ Queues(ForConn(kind, c, d))
  /\ conn' = [conn EXCEPT ![c] = [@ EXCEPT
                !.pending = @ + 1,
                !.state = IF kind = "recv" THEN "reading" ELSE "writing"]]
  /\ Suspends(g, kind, c, d)

(* What green_recv and green_send have in common: the SQE is queued and    *)
(* the connection waits for it.                                            *)
Transfer(g, kind, c, d) ==
  /\ HasRoom(1)
  /\ Queues(ForConn(kind, c, d))
  /\ conn' = [conn EXCEPT ![c] =
                With(@, IF kind = "recv" THEN "reading" ELSE "writing", g, @.pending + 1, @.result)]
  /\ Suspends(g, kind, c, d)

RecvOrSend(g, kind, d) ==
  /\ Calls(g)
  /\ CanUse(g, d)
  /\ fdToConn[d.fd] # None
  /\ Transfer(g, kind, fdToConn[d.fd], d)
  /\ UNCHANGED <<ready, phase, stop, inflight, freeConns, fdToConn, accept, envVars>>

(* Mutant: an fd may be registered a second time.                          *)
RegisterFdAgain(g, d) ==
  /\ Running(g)
  /\ CanUse(g, d)
  /\ \E c \in freeConns : conn[c].gen <= MaxGen /\ Registers(c, d)
  /\ UNCHANGED <<loopVars, accept, call, envVars, ops>>

RegisterFd(g, d) ==
  /\ Running(g)
  /\ CanUse(g, d)
  /\ fdToConn[d.fd] = None
  /\ \E c \in freeConns : conn[c].gen <= MaxGen /\ Registers(c, d)
  /\ UNCHANGED <<loopVars, accept, call, envVars, ops>>

UnregisterFd(g, d) ==
  /\ Running(g)
  /\ CanUse(g, d)
  /\ fdToConn[d.fd] # None
  /\ Release(fdToConn[d.fd])
  /\ UNCHANGED <<ready, phase, stop, sq, inflight, accept, call, envVars, ops>>

(* green_close: the three cases of the code, then the caller forgets the   *)
(* descriptor.                                                             *)
CloseUntracked(g, d) ==
  /\ fdToConn[d.fd] = None
  /\ IF HasRoom(1) THEN Queues(Sqe("rawclose", None, 0, d)) ELSE UNCHANGED <<sq, ops>>
  /\ UNCHANGED <<conn, freeConns, fdToConn, status, activeWaits>>

CloseIdle(g, d) ==
  LET c == fdToConn[d.fd] IN
  /\ c # None
  /\ conn[c].pending = 0
  /\ SubmitClose(c, conn[c])

CloseBusy(g, d) ==
  LET c == fdToConn[d.fd]
      r == [conn[c] EXCEPT !.state = "cancelling"]
  IN
  /\ c # None
  /\ conn[c].pending > 0
  /\ IF HasRoom(1)
       THEN /\ conn' = [conn EXCEPT ![c] = r]
            /\ Queues(Sqe("cancel", Conn0, 0, NoDesc))
            /\ UNCHANGED <<freeConns, fdToConn, status, activeWaits>>
       ELSE SubmitClose(c, r)

Close(g, d) ==
  /\ Calls(g)
  /\ CanUse(g, d)
  /\ CloseUntracked(g, d) \/ CloseIdle(g, d) \/ CloseBusy(g, d)
  /\ own' = [h \in Greenlets |-> own[h] \ {d}]
  /\ UNCHANGED <<ready, phase, stop, inflight, accept, call, file, files>>

(* green_connect opens a socket and registers it before it is connected;   *)
(* the descriptor is its own until it returns.                             *)
Connect(g, fd) ==
  LET d == [fd |-> fd, file |-> files + 1] IN
  /\ Calls(g)
  /\ Opens(fd)
  /\ HasRoom(1)
  /\ \E c \in freeConns :
       /\ conn[c].gen <= MaxGen
       /\ Registers(c, d)
       /\ Queues(Sqe("connect", None, 0, d))
       /\ Suspends(g, "connect", c, d)
  /\ UNCHANGED <<ready, phase, stop, inflight, accept, own>>

(* Without a slot or room for its SQE it undoes what it has done.          *)
ConnectFails(g) ==
  /\ Running(g)
  /\ \E fd \in Fds : file[fd] = 0
  /\ \E c \in freeConns :
       /\ conn[c].gen <= MaxGen
       /\ conn' = [conn EXCEPT ![c] = ReleasedConn(c)]
  /\ UNCHANGED <<loopVars, freeConns, fdToConn, accept, call, envVars, ops>>

(* The slot of g's green_connect has not had its completion.               *)
Connecting(g) ==
  call[g].kind = "connect" /\ \E e \in sq \cup inflight : e.op = call[g].op

(* green_connect gives up the socket it has registered.                    *)
Disconnects(g) ==
  LET c == call[g].conn
      fd == call[g].desc.fd
  IN /\ conn' = [conn EXCEPT ![c] = ReleasedConn(c)]
     /\ freeConns' = freeConns \cup {c}
     /\ fdToConn' = [fdToConn EXCEPT ![fd] = None]
     /\ file' = [file EXCEPT ![fd] = 0]

(* A throw into green_accept touches nothing; in a transfer it is          *)
(* cleanupConnSwitch, in green_connect cleanupSlotSwitch.                  *)
ThrowCleansUp(v) ==
  LET c == call[v].conn IN
  CASE call[v].kind \in Transfers /\ conn[c].greenlet # None ->
         /\ conn' = [conn EXCEPT ![c] = With(@, "idle", None, @.pending - 1, @.result)]
         /\ activeWaits' = activeWaits - 1
         /\ UNCHANGED <<freeConns, fdToConn, file>>
    [] call[v].kind = "connect" ->
         /\ Disconnects(v)
         /\ activeWaits' = IF Connecting(v) THEN activeWaits - 1 ELSE activeWaits
    [] OTHER -> UNCHANGED <<conn, activeWaits, freeConns, fdToConn, file>>

Throw(k, v) ==
  /\ ThrowsInto(k, v)
  /\ ThrowCleansUp(v)
  /\ call' = [call EXCEPT ![v] = NoCall]
  /\ UNCHANGED <<sq, inflight, accept, own, files, ops>>

-----------------------------------------------------------------------------
(* The loop reaps the completion of e.                                     *)

Reaps(e) ==
  /\ phase \in {"wait", "reap"}
  /\ e \in inflight
  /\ inflight' = inflight \ {e}
  /\ phase' = "reap"
  /\ UNCHANGED <<stop, call, own>>

Executes(e) ==
  /\ file' = IF e.kind \in {"close", "rawclose"}
               THEN [file EXCEPT ![e.desc.fd] = 0] ELSE file
  /\ UNCHANGED files

(* An accept yields a new file, or fails.                                  *)
ReapAccept(e) ==
  /\ Reaps(e)
  /\ e.kind = "accept"
  /\ \/ \E fd \in Fds :
          /\ Opens(fd)
          /\ accept' = [greenlet |-> None, pending |-> FALSE,
                        result |-> [fd |-> fd, file |-> files + 1]]
     \/ /\ accept' = [greenlet |-> None, pending |-> FALSE, result |-> NoDesc]
        /\ UNCHANGED <<file, files>>
  /\ activeWaits' = activeWaits - 1
  /\ ready' = IF accept.greenlet # None THEN Append(ready, accept.greenlet) ELSE ready
  /\ UNCHANGED <<status, sq, conn, freeConns, fdToConn, ops>>

(* The completion of a connect finds its slot, unless that was released.   *)
ReapConnect(e) ==
  /\ Reaps(e)
  /\ \E g \in Greenlets :
       /\ call[g].kind = "connect" /\ call[g].op = e.op
       /\ ready' = Append(ready, g)
  /\ activeWaits' = activeWaits - 1
  /\ UNCHANGED <<status, sq, conn, freeConns, fdToConn, accept, file, files, ops>>

(* Nothing to do with a completion that carries IGNORE_SENTINEL or names a *)
(* connection, or a slot, that was released since.                         *)
ReapIgnored(e) ==
  /\ Reaps(e)
  /\ e.kind # "accept"
  /\ ~Lookup(e)
  /\ e.kind = "connect" => \A g \in Greenlets : call[g].op # e.op
  /\ Executes(e)
  /\ UNCHANGED <<status, ready, activeWaits, sq, conn, freeConns, fdToConn, accept, ops>>

(* The connection after conn.result and conn.pending_ops were updated.     *)
Completed(e) ==
  LET r == conn[e.conn]
  IN  With(r, r.state, r.greenlet, IF r.pending > 0 THEN r.pending - 1 ELSE 0, e.op)

ReapsConn(e) ==
  /\ Reaps(e)
  /\ Lookup(e)
  /\ Executes(e)
  /\ UNCHANGED accept

ReapCancelling(e) ==
  /\ ReapsConn(e)
  /\ conn[e.conn].state = "cancelling"
  /\ IF Completed(e).pending = 0
       THEN SubmitClose(e.conn, Completed(e))
       ELSE /\ conn' = [conn EXCEPT ![e.conn] = Completed(e)]
            /\ UNCHANGED <<freeConns, fdToConn, status, activeWaits, sq, ops>>
  /\ UNCHANGED ready

ReapClosing(e) ==
  /\ ReapsConn(e)
  /\ conn[e.conn].state = "closing"
  /\ Release(e.conn)
  /\ UNCHANGED <<ready, sq, ops>>

(* Mutant: conn.greenlet is not cleared when the greenlet is queued.       *)
ReapTransferKeeps(e) ==
  LET r == conn[e.conn] IN
  /\ ReapsConn(e)
  /\ r.state \notin {"cancelling", "closing"}
  /\ conn' = [conn EXCEPT ![e.conn] = [Completed(e) EXCEPT !.state = "idle"]]
  /\ IF r.greenlet # None
       THEN /\ ready' = Append(ready, r.greenlet)
            /\ activeWaits' = activeWaits - 1
       ELSE UNCHANGED <<ready, activeWaits>>
  /\ UNCHANGED <<status, sq, freeConns, fdToConn, ops>>

ReapTransfer(e) ==
  LET r == conn[e.conn] IN
  /\ ReapsConn(e)
  /\ r.state \notin {"cancelling", "closing"}
  /\ conn' = [conn EXCEPT ![e.conn] = With(@, "idle", None, Completed(e).pending, e.op)]
  /\ IF r.greenlet # None
       THEN /\ ready' = Append(ready, r.greenlet)
            /\ activeWaits' = activeWaits - 1
       ELSE UNCHANGED <<ready, activeWaits>>
  /\ UNCHANGED <<status, sq, freeConns, fdToConn, ops>>

-----------------------------------------------------------------------------
(* The loop switches to a suspended greenlet, whose call goes on.          *)

Resumes(g) ==
  /\ Drains(g)
  /\ status[g] = "blocked"
  /\ ready' = Tail(ready)
  /\ UNCHANGED <<phase, stop, inflight, accept>>

Returns(g) ==
  /\ status' = [status EXCEPT ![g] = "running"]
  /\ call' = [call EXCEPT ![g] = NoCall]
  /\ UNCHANGED <<activeWaits, sq, ops>>

(* Mutant: the test for an exhausted pool is inverted.                     *)
ResumeAcceptInverted(g) ==
  LET d == accept.result IN
  /\ Resumes(g)
  /\ call[g].kind = "accept"
  /\ Returns(g)
  /\ own' = [own EXCEPT ![g] = IF d = NoDesc THEN @ ELSE @ \cup {d}]
  /\ CASE d = NoDesc ->
            UNCHANGED <<conn, freeConns, fdToConn, file>>
       [] d # NoDesc /\ freeConns # {} ->
            file' = [file EXCEPT ![d.fd] = 0] /\ UNCHANGED <<conn, freeConns, fdToConn>>
       [] OTHER ->
            (\E c \in freeConns : Registers(c, d)) /\ UNCHANGED file
  /\ UNCHANGED files

(* green_accept returns: with an error, with a registered connection, or,  *)
(* when the pool is exhausted, with the number of an fd it has rejected    *)
(* and closed.                                                             *)
ResumeAccept(g) ==
  LET d == accept.result IN
  /\ Resumes(g)
  /\ call[g].kind = "accept"
  /\ Returns(g)
  /\ own' = [own EXCEPT ![g] = IF d = NoDesc THEN @ ELSE @ \cup {d}]
  /\ CASE d = NoDesc ->
            UNCHANGED <<conn, freeConns, fdToConn, file>>
       [] d # NoDesc /\ freeConns = {} ->
            file' = [file EXCEPT ![d.fd] = 0] /\ UNCHANGED <<conn, freeConns, fdToConn>>
       [] OTHER ->
            (\E c \in freeConns : Registers(c, d)) /\ UNCHANGED file
  /\ UNCHANGED files

(* green_connect returns its descriptor, or fails and gives all back.      *)
ResumeConnect(g) ==
  /\ Resumes(g)
  /\ call[g].kind = "connect"
  /\ Returns(g)
  /\ \/ /\ own' = [own EXCEPT ![g] = @ \cup {call[g].desc}]
        /\ UNCHANGED <<conn, freeConns, fdToConn, file>>
     \/ Disconnects(g) /\ UNCHANGED own
  /\ UNCHANGED files

(* A transfer returns: all was sent, received, or it failed, possibly for  *)
(* want of room for the SQE of the rest.                                   *)
TransferReturns(g) ==
  /\ Resumes(g)
  /\ call[g].kind \in Transfers
  /\ Returns(g)
  /\ UNCHANGED <<conn, freeConns, fdToConn, envVars>>

(* A partial send: the rest is sent through the same connection.           *)
SendsRest(g) ==
  /\ Resumes(g)
  /\ call[g].kind = "send"
  /\ ops < MaxOps
  /\ Transfer(g, "send", call[g].conn, call[g].desc)
  /\ UNCHANGED <<freeConns, fdToConn, envVars>>

-----------------------------------------------------------------------------
CallStep ==
  \E g \in Greenlets :
    \/ Accept(g)
    \/ \E fd \in Fds : OpenFile(g, fd) \/ Connect(g, fd)
    \/ ConnectFails(g)
    \/ \E d \in Descs :
         \/ \E h \in Greenlets : Spawn(g, h, d)
         \/ \E kind \in Transfers : RecvOrSend(g, kind, d)
         \/ RegisterFd(g, d)
         \/ UnregisterFd(g, d)
         \/ Close(g, d)
    \/ \E v \in Greenlets : Throw(g, v)

ReapStep ==
  \E e \in inflight :
    \/ ReapAccept(e)
    \/ ReapConnect(e)
    \/ ReapIgnored(e)
    \/ ReapCancelling(e)
    \/ ReapClosing(e)
    \/ ReapTransfer(e)

ResumeStep ==
  \E g \in Greenlets :
    ResumeAccept(g) \/ ResumeConnect(g) \/ TransferReturns(g) \/ SendsRest(g)

Next ==
  \/ (GreenletStep \/ LoopStep \/ LoopFails) /\ UNCHANGED <<connVars, envVars, ops>>
  \/ (RequestStop \/ ReapStop) /\ UNCHANGED <<connVars, envVars, ops>>
  \/ CallStep
  \/ ReapStep
  \/ ResumeStep

Spec == ConnsInit /\ [][Next]_vars

-----------------------------------------------------------------------------
(* Properties.                                                             *)

(* Every variable has its type: what hub.zig and connection.zig declare.   *)
ConnsTypeOK ==
  /\ status \in [Greenlets -> Statuses]
  /\ ready \in Seq(Greenlets)
  /\ activeWaits \in Nat
  /\ phase \in Phases
  /\ \A c \in Conns : /\ conn[c].state \in ConnStates
                      /\ conn[c].pending \in Nat /\ conn[c].gen \in Nat
                      /\ conn[c].greenlet \in Greenlets \cup {None}
                      /\ conn[c].desc \in Desc \cup {NoDesc}
  /\ freeConns \subseteq Conns
  /\ fdToConn \in [Fds -> Conns \cup {None}]
  /\ accept.greenlet \in Greenlets \cup {None}
  /\ \A g \in Greenlets : own[g] \subseteq Desc

(* Whatever greenlets do to each other's descriptors, an fd maps to the    *)
(* connection that was registered for it and that is not free: no call     *)
(* reaches a connection that belongs to another fd or to nobody.           *)
FdMapSound ==
  \A fd \in Fds : fdToConn[fd] # None =>
    fdToConn[fd] \notin freeConns /\ conn[fdToConn[fd]].desc.fd = fd

(* A connection is never released while it is free (unless the same call   *)
(* took it from the list): it would be twice on the free list, and two fds *)
(* would be given the same one.                                            *)
ReleasedOnce ==
  [][\A c \in Conns : conn'[c].gen # conn[c].gen =>
       c \notin freeConns \/ \E g \in Greenlets : ConnectFails(g)]_vars

(* No connection is lost: one that is not free is the one its fd maps to,  *)
(* so that a close or an unregister can still find it.                     *)
PoolConserved ==
  \A c \in Conns : c \in freeConns \/ fdToConn[conn[c].desc.fd] = c

(* active_waits counts exactly the waits a completion is still owed to.    *)
ConnWaitsExact ==
  activeWaits = Cardinality({c \in Conns : conn[c].greenlet # None})
                + Cardinality({g \in Greenlets : Connecting(g)})
                + (IF accept.pending THEN 1 ELSE 0)

(* A suspended greenlet is queued to run, or its operation is on its way   *)
(* and finds it when it completes.                                         *)
NoLostGreenlet ==
  phase # "failed" => \A g \in Greenlets : status[g] = "blocked" =>
    \/ InReady(g)
    \/ \E e \in sq \cup inflight :
         /\ e.op = call[g].op
         /\ e.kind = "accept" => accept.greenlet = g
         /\ e.kind \in Transfers =>
              /\ Lookup(e)
              /\ conn[e.conn].greenlet = g
              /\ conn[e.conn].state \in {"reading", "writing"}

(* A transfer is woken by its own completion, not by that of an operation  *)
(* that was given up or that belongs to another connection.                *)
OwnCompletion ==
  \A g \in Greenlets :
    status[g] = "blocked" /\ InReady(g) /\ call[g].kind \in Transfers =>
      conn[call[g].conn].result = call[g].op

(* The kernel transfers into or out of no connection that was released:    *)
(* what it writes cannot land in the arena of the connection's next user.  *)
BuffersLive ==
  \A e \in sq \cup inflight : e.kind \in Transfers => Lookup(e)

(* A close closes the file it was asked for, never one that was given the  *)
(* same fd since.                                                          *)
ClosesOwnFile ==
  [][\A e \in inflight \ inflight' : e.kind \in {"close", "rawclose"} =>
       file[e.desc.fd] \in {0, e.desc.file}]_vars
=============================================================================
