----------------------------- MODULE CoopSocket -----------------------------
(***************************************************************************)
(* Who owns which descriptor in the cooperative sockets                    *)
(* (monkey/_socket.py). A socket object keeps the number in the C object   *)
(* it extends and tells the hub about it when it is first used; it is      *)
(* closed through the hub when it is registered there, and directly when   *)
(* it is not; files made from it keep it open. What is closed through the  *)
(* hub stays in the C object, which closes it once more. create_connection *)
(* looks a name up and tries its addresses one by one, a new socket for    *)
(* each; what is no OSError passes out of it, past its close().            *)
(* connect()'s own loop over the addresses it finds is one wait here, and  *)
(* a socket with timeout zero does not go through the hub (CoopTransfer).  *)
(*                                                                         *)
(* Every action is what one greenlet does between two waits, a step of     *)
(* the hub, of a thread, or of the garbage collector; "next",              *)
(* "connecting", "failed" and "raised" are places between two actions of   *)
(* one greenlet that no other greenlet comes between. A socket a greenlet  *)
(* waits on is closed by no other, no greenlet is thrown out of accept     *)
(* (what happens then is HubConns'), the connection pool is not exhausted, *)
(* and a program closes the sockets that it has.                           *)
(***************************************************************************)
EXTENDS Dns

CONSTANTS
    MaxRefs,    \* bound: files made from sockets, at a time
    Addresses,  \* bound: addresses a name has
    MaxLoose,   \* bound: descriptors held as numbers, and lost
    MaxKept     \* bound: objects of former sockets that are not finalized

ASSUME SocketAssumption ==
    MaxRefs \in Nat /\ Addresses \in Nat /\ MaxLoose \in Nat /\ MaxKept \in Nat

vars == <<history, fdVars, waitVars, holders>>

SocketOf(d, registered) == [NoSocket EXCEPT !.live = TRUE, !.desc = d, !.registered = registered]

Init == DescriptorsInit

NobodyMid == \A g \in Greenlets : call[g].op \notin {"next", "connecting", "failed", "raised"}

(* The greenlet runs, and is in no call. *)
Idle(g) == call[g].op = "none" /\ NobodyMid

(* Its wait in this call is over, and it runs. *)
Resumes(g, op) == g \in ready /\ NobodyMid /\ call[g].op = op

Usable(s) == sock[s].live /\ ~sock[s].closed
InUse(s) == \E g \in Greenlets : call[g].sock = s
CanMake == \E s \in Socks : ~sock[s].live
NextSock == CHOOSE s \in Socks : ~sock[s].live

(* _ensure_registered: what becomes of the object and of the hub's map. A  *)
(* refused registration is ignored.                                        *)
Ensured(s) == [s EXCEPT !.registered = @ \/ conn[s.desc.fd] = 0]
EnsureRegistered(s) == IF sock[s].registered THEN UNCHANGED conn ELSE Registers(sock[s].desc)

-----------------------------------------------------------------------------
(* What a program does with sockets between waits. *)
(* A new object on a new number: socket(), dup() of another, fromfd(). *)
NewSocket(g) ==
    /\ Idle(g) /\ CanMake /\ CanOpen({})
    /\ Opens({NewDesc({})})
    /\ sock' = [sock EXCEPT ![NextSock] = SocketOf(NewDesc({}), FALSE)]
    /\ UNCHANGED <<history, conn, closes, call, ready, job, raw, late, objects>>

Files == UNION {{s} \X (1..sock[s].refs) : s \in Socks}

MakeFile(g, s) ==
    /\ Idle(g) /\ Usable(s) /\ Cardinality(Files) < MaxRefs
    /\ sock' = [sock EXCEPT ![s].refs = @ + 1]
    /\ UNCHANGED <<history, fdVars, waitVars, job, raw, late, objects>>

(* recv, send and their like, of which only the registration matters here. *)
Transfer(g, s) ==
    /\ Idle(g) /\ Usable(s) /\ ~sock[s].registered
    /\ EnsureRegistered(s)
    /\ sock' = [sock EXCEPT ![s] = Ensured(@)]
    /\ UNCHANGED <<history, open, closes, call, ready, job, raw, late, objects>>

MayKeep == Cardinality(kept \cup dropped) < MaxKept

(* close() when no file is left: by the C object, which then has no number *)
(* any more; or through the hub if the socket is registered, and the C     *)
(* object keeps the number.                                                *)
ReallyCloses(s) ==
    /\ sock' = [sock EXCEPT ![s] = NoSocket]
    /\ IF sock[s].registered
       THEN /\ MayKeep
            /\ kept' = kept \cup {sock[s].desc}
            /\ closes' = closes \cup {CloseSqe(sock[s].desc)}
            /\ UNCHANGED open
       ELSE ClosesNow({sock[s].desc.fd}) /\ UNCHANGED <<closes, kept>>

(* The C object closes its number when it is finalized, some time after    *)
(* nobody refers to it any more, or when it is closed once more.           *)
FinalizesClosed(d) ==
    /\ ClosesNow({d.fd})
    /\ struck' = (struck \/ Strikes(d))
    /\ kept' = kept \ {d}
    /\ UNCHANGED <<thrown, conn, closes, waitVars, job, sock, raw, late, dropped>>

FinalizesDropped(d) ==
    /\ ClosesNow({d.fd})
    /\ dropped' = dropped \ {d}
    /\ UNCHANGED <<history, conn, closes, waitVars, job, sock, raw, late, kept>>

FinalStep ==
    \/ \E d \in kept : FinalizesClosed(d)
    \/ \E d \in dropped : FinalizesDropped(d)

(* Not so: closes though files are still open. *)
CloseAtOnce(g, s) ==
    /\ Idle(g) /\ Usable(s) /\ ~InUse(s)
    /\ sock' = [sock EXCEPT ![s].closed = TRUE]
    /\ ClosesNow({sock[s].desc.fd})
    /\ UNCHANGED <<history, conn, closes, call, ready, job, raw, late, objects>>

Close(g, s) ==
    /\ Idle(g) /\ Usable(s) /\ ~InUse(s)
    /\ IF sock[s].refs = 0
       THEN ReallyCloses(s)
       ELSE /\ sock' = [sock EXCEPT ![s].closed = TRUE]
            /\ UNCHANGED <<open, closes, kept>>
    /\ UNCHANGED <<history, conn, call, ready, job, raw, late, dropped>>

(* A file made from the socket is closed: _decref_socketios. *)
CloseFile(g, s) ==
    /\ Idle(g) /\ sock[s].live /\ sock[s].refs > 0 /\ ~InUse(s)
    /\ IF sock[s].closed /\ sock[s].refs = 1
       THEN ReallyCloses(s)
       ELSE /\ sock' = [sock EXCEPT ![s].refs = @ - 1]
            /\ UNCHANGED <<open, closes, kept>>
    /\ UNCHANGED <<history, conn, call, ready, job, raw, late, dropped>>

(* detach(): the hub lets go of the number, then the object does; the      *)
(* program has it as a number and drops the object.                        *)
Detach(g, s) ==
    /\ Idle(g) /\ Usable(s) /\ ~InUse(s) /\ sock[s].refs = 0
    /\ Cardinality(raw \cup late) < MaxLoose
    /\ conn' = IF sock[s].registered THEN [conn EXCEPT ![sock[s].desc.fd] = 0] ELSE conn
    /\ raw' = raw \cup {sock[s].desc}
    /\ sock' = [sock EXCEPT ![s] = NoSocket]
    /\ UNCHANGED <<history, open, closes, call, ready, job, late, objects>>

(* A number becomes a socket again, socket(fileno=fd), or is closed.       *)
Wrap(g, d) ==
    /\ Idle(g) /\ CanMake
    /\ raw' = raw \ {d}
    /\ sock' = [sock EXCEPT ![NextSock] = SocketOf(d, FALSE)]
    /\ UNCHANGED <<history, fdVars, waitVars, job, late, objects>>

CloseRaw(g, d) ==
    /\ Idle(g)
    /\ raw' = raw \ {d}
    /\ ClosesNow({d.fd})
    /\ UNCHANGED <<history, conn, closes, call, ready, job, sock, late, objects>>

ProgramStep ==
    \E g \in Greenlets :
        \/ NewSocket(g)
        \/ \E s \in Socks :
            MakeFile(g, s) \/ Transfer(g, s) \/ Close(g, s) \/ CloseFile(g, s) \/ Detach(g, s)
        \/ \E d \in raw : Wrap(g, d) \/ CloseRaw(g, d)

-----------------------------------------------------------------------------
(* Calls that wait. *)
Accept(g, s) ==
    /\ Idle(g) /\ Usable(s) /\ ~InUse(s)
    /\ EnsureRegistered(s)
    /\ sock' = [sock EXCEPT ![s] = Ensured(@)]
    /\ Waits(g, [NoCall EXCEPT !.op = "accept", !.sock = s])
    /\ UNCHANGED <<history, open, closes, job, raw, late, objects>>

(* The hub registers the connection it has accepted, on a number from      *)
(* before the closes that it has yet to reap. It becomes a socket, unless  *)
(* the deadline has passed meanwhile.                                      *)
AcceptReturns(g) ==
    /\ Resumes(g, "accept") /\ CanOpen(Unreaped)
    /\ LET d == NewDesc(Unreaped)
       IN  /\ Opens({d})
           /\ conn' = [conn EXCEPT ![d.fd] = d.gen]
           /\ \/ /\ CanMake
                 /\ sock' = [sock EXCEPT ![NextSock] = SocketOf(d, TRUE)]
                 /\ UNCHANGED late
              \/ /\ Cardinality(raw \cup late) < MaxLoose
                 /\ late' = late \cup {d}
                 /\ UNCHANGED sock
    /\ Returns(g)
    /\ UNCHANGED <<history, closes, job, raw, objects>>

AcceptFails(g) ==
    /\ Resumes(g, "accept")
    /\ Returns(g)
    /\ UNCHANGED <<history, fdVars, job, sock, raw, late, objects>>

(* A lookup by itself, or the one that begins create_connection. *)
Lookup(g) ==
    /\ Idle(g) /\ CanLookup
    /\ StartsLookup(g, [NoCall EXCEPT !.op = "lookup"])
    /\ UNCHANGED <<history, conn, closes, sock, raw, late, objects>>

(* create_connection has addresses to try; or the lookup was all there was *)
(* to do, or has failed.                                                   *)
LookupReturns(g) ==
    /\ Resumes(g, "lookup")
    /\ EndsLookup(g)
    /\ \E n \in 0..Addresses :
        Waits(g, IF n = 0 THEN NoCall ELSE [NoCall EXCEPT !.op = "next", !.left = n])
    /\ UNCHANGED <<history, conn, closes, sock, raw, late, objects>>

(* A new socket for the next address. *)
NextAddress(g) ==
    /\ call[g].op = "next" /\ call[g].left > 0
    /\ CanMake /\ CanOpen({})
    /\ Opens({NewDesc({})})
    /\ sock' = [sock EXCEPT ![NextSock] = SocketOf(NewDesc({}), FALSE)]
    /\ Waits(g, [NoCall EXCEPT !.op = "connecting", !.sock = NextSock,
                               !.left = call[g].left - 1, !.create = TRUE])
    /\ UNCHANGED <<history, conn, closes, job, raw, late, objects>>

(* No address or no descriptor is left: the last error is raised. *)
NoAddress(g) ==
    /\ call[g].op = "next"
    /\ call[g].left = 0 \/ ~CanMake \/ ~CanOpen({})
    /\ Returns(g)
    /\ UNCHANGED <<history, fdVars, job, sock, raw, late, objects>>

(* connect() registers and looks the address up, again if it is a number   *)
(* by now; that fails without descriptors for the pipe. A path needs none, *)
(* and is polled for.                                                      *)
LooksUp(g, c) ==
    /\ EnsureRegistered(c.sock)
    /\ sock' = [sock EXCEPT ![c.sock] = Ensured(@)]
    /\ \/ CanLookup /\ StartsLookup(g, [c EXCEPT !.op = "resolve"])
       \/ /\ \E op \in (IF CanLookup THEN {} ELSE {"failed"})
                           \cup (IF c.create THEN {} ELSE {"connect"}) :
                Waits(g, [c EXCEPT !.op = op])
          /\ UNCHANGED <<open, job>>
    /\ UNCHANGED <<history, closes, raw, late, objects>>

(* connect() of a socket the program has. *)
Connect(g, s) ==
    /\ Idle(g) /\ Usable(s) /\ ~InUse(s)
    /\ LooksUp(g, [NoCall EXCEPT !.sock = s])

ConnectLooksUp(g) == call[g].op = "connecting" /\ LooksUp(g, call[g])

(* An IPv4 address goes to green_connect_fd, which has to find a           *)
(* connection of the number, any other is polled for; neither is OSError   *)
(* what is raised without a connection, or without a slot.                 *)
ConnectResolved(g) ==
    /\ Resumes(g, "resolve")
    /\ EndsLookup(g)
    /\ \E op \in {"connect", "failed", "raised"}, ipv4 \in BOOLEAN :
        /\ op = "connect" /\ ipv4 => conn[sock[call[g].sock].desc.fd] # 0
        /\ Waits(g, [call[g] EXCEPT !.op = op, !.job = 0])
    /\ UNCHANGED <<history, conn, closes, sock, raw, late, objects>>

(* The connection is made, in time. *)
ConnectReturns(g) ==
    /\ Resumes(g, "connect")
    /\ Returns(g)
    /\ UNCHANGED <<history, fdVars, job, sock, raw, late, objects>>

(* Not so: create_connection tries the next address and forgets the socket. *)
RaisesOpen(g) ==
    /\ Waits(g, IF call[g].create THEN [NoCall EXCEPT !.op = "next", !.left = call[g].left] ELSE NoCall)
    /\ sock' = IF call[g].create THEN [sock EXCEPT ![call[g].sock] = NoSocket] ELSE sock
    /\ UNCHANGED <<open, closes, kept>>

(* An OSError out of connect(): create_connection closes the socket and    *)
(* goes on to the next address.                                            *)
Raises(g) ==
    IF call[g].create
    THEN /\ ReallyCloses(call[g].sock)
         /\ Waits(g, [NoCall EXCEPT !.op = "next", !.left = call[g].left])
    ELSE /\ Returns(g)
         /\ UNCHANGED <<open, closes, sock, kept>>

ConnectFails(g) ==
    /\ Resumes(g, "connect") \/ call[g].op = "failed"
    /\ Raises(g)
    /\ UNCHANGED <<history, conn, job, raw, late, dropped>>

(* What is no OSError passes out of create_connection: the socket of the   *)
(* attempt is dropped as it is, and the hub's connection for it is left.   *)
(* The socket of a program stays.                                          *)
Escapes(g) ==
    LET d == sock[call[g].sock].desc
    IN  /\ Returns(g)
        /\ IF call[g].create
           THEN /\ MayKeep
                /\ dropped' = dropped \cup {d}
                /\ conn' = [conn EXCEPT ![d.fd] = IF @ = d.gen THEN Left ELSE @]
                /\ sock' = [sock EXCEPT ![call[g].sock] = NoSocket]
           ELSE UNCHANGED <<dropped, conn, sock>>

(* The call raises a RuntimeError, or its greenlet is thrown into while it *)
(* waits for the connection.                                               *)
ConnectEscapes(g) ==
    /\ call[g].op = "raised" \/ (NobodyMid /\ call[g].op = "connect")
    /\ Escapes(g)
    /\ UNCHANGED <<history, open, closes, job, raw, late, kept>>

(* A greenlet is thrown into while it waits for a lookup, or its poll      *)
(* fails; if that is an OSError, connect() fails with it.                  *)
GivesUp(g) ==
    /\ thrown < MaxThrows /\ NobodyMid /\ call[g].op \in {"lookup", "resolve"}
    /\ thrown' = thrown + 1
    /\ EndsLookup(g)
    /\ \/ Escapes(g)
       \/ /\ call[g].op = "resolve"
          /\ Waits(g, [call[g] EXCEPT !.op = "failed", !.job = 0])
          /\ UNCHANGED <<dropped, conn, sock>>
    /\ UNCHANGED <<struck, closes, raw, late, kept>>

CallStep ==
    \E g \in Greenlets :
        \/ \E s \in Socks : Accept(g, s) \/ Connect(g, s)
        \/ AcceptReturns(g) \/ AcceptFails(g)
        \/ Lookup(g) \/ LookupReturns(g) \/ GivesUp(g)
        \/ NextAddress(g) \/ NoAddress(g)
        \/ ConnectLooksUp(g) \/ ConnectResolved(g)
        \/ ConnectReturns(g) \/ ConnectFails(g) \/ ConnectEscapes(g)

-----------------------------------------------------------------------------
(* A lookup is over when its pipe has a byte, everything else at any time. *)
MayEnd == {g \in Greenlets : call[g].op # "none" /\ (call[g].job = 0 \/ Announced(call[g].job))}

HubStep == NobodyMid /\ (Submits \/ HubTurn(MayEnd))

ThreadStep == DnsStep

Next == ProgramStep \/ CallStep \/ HubStep \/ ThreadStep \/ FinalStep

Spec == Init /\ [][Next]_vars

-----------------------------------------------------------------------------
Held(s) == sock[s].live /\ (~sock[s].closed \/ sock[s].refs > 0)
Waiting == {g \in Greenlets : call[g].job # 0}

(* Sockets that were closed through the hub, and whose number nothing has  *)
(* closed so far.                                                          *)
FirstCloses == {d \in kept : \E c \in closes : Desc(c) = d}

(* A socket that is open, or kept open by files, names its own file, as do *)
(* what is detached, what is yet to be closed, and the pipe of a lookup,   *)
(* for the greenlet and (while none was given up) for the thread; and the  *)
(* hub has a registered socket under its number. One is refused there only *)
(* for a close that is not reaped, or for an attempt of create_connection  *)
(* that passed its close(). All this until a socket's second close, by its *)
(* C object, and the hub's, which is late, close somebody else's number    *)
(* between them (CloseHitsOwn): from then on the code promises nothing.    *)
OwnFile ==
    ~struck =>
        /\ \A s \in Socks : Held(s) => Names(sock[s].desc)
        /\ \A s \in Socks : sock[s].registered => conn[sock[s].desc.fd] = sock[s].desc.gen
        /\ \A s \in Socks : Held(s) /\ ~sock[s].registered /\ conn[sock[s].desc.fd] # 0 =>
                sock[s].desc.fd \in Tracked \cup Unreaped \/ conn[sock[s].desc.fd] = Left
        /\ \A d \in FirstCloses \cup raw \cup late \cup dropped : Names(d)
        /\ \A g \in Waiting : Names(job[call[g].job].r) /\ Names(job[call[g].job].w)
        /\ \A j \in Jobs : job[j].state \in {"running", "stored"} /\ thrown = 0 => Names(job[j].w)

(* No descriptor and no connection of the hub is lost, whatever fails, and *)
(* whoever is thrown out of a lookup or out of connect(), but what the     *)
(* code does lose: a connection accepted after the deadline, with its      *)
(* connection in the hub; and the hub's connection for an attempt of       *)
(* create_connection that ended otherwise than by an OSError, which passes *)
(* its close().                                                            *)
EverythingOwned ==
    \A fd \in Fds :
        /\ open[fd] # 0 =>
            LET d == [fd |-> fd, gen |-> open[fd]]
            IN  \/ \E s \in Socks : Held(s) /\ sock[s].desc = d
                \/ d \in FirstCloses \cup raw \cup late \cup dropped
                \/ \E g \in Waiting : d \in {job[call[g].job].r, job[call[g].job].w}
        /\ conn[fd] # 0 =>
                \/ \E s \in Socks : sock[s].registered /\ sock[s].desc = [fd |-> fd, gen |-> conn[fd]]
                \/ fd \in Tracked \cup Unreaped
                \/ [fd |-> fd, gen |-> conn[fd]] \in late
                \/ conn[fd] = Left

(* Who returns from a lookup finds its answer stored: the byte it waited   *)
(* for was its own thread's. This fails once a lookup was given up, whose  *)
(* thread still writes to a number that has changed hands, and once a      *)
(* second close has closed a pipe.                                         *)
AnswerStored ==
    thrown = 0 /\ ~struck => \A g \in Waiting \cap ready : job[call[g].job].full

(* The close that close() asks the hub for closes the socket's own file:   *)
(* when the hub executes it, its number names that file or nothing.        *)
CloseHitsOwn == \A c \in closes : Names(c) \/ open[c.fd] = 0
=============================================================================
