---------------------------- MODULE CoopTransfer ----------------------------
(***************************************************************************)
(* What recv, send and their like make of one connected socket             *)
(* (monkey/_socket.py), or of the TLS socket over it (monkey/_ssl.py).     *)
(*                                                                         *)
(* A plain call without flags is one green_recv or green_send of the hub.  *)
(* With flags, and for datagrams, the greenlet polls the descriptor and    *)
(* then makes the system call. A TLS call is made first, and polls when    *)
(* it would block; the record layer takes all the bytes there are, and     *)
(* keeps what the caller did not ask for. Between a poll that is over and  *)
(* the greenlet that runs again other greenlets run. A system call that    *)
(* may wait stops the whole thread: every greenlet and the hub.            *)
(*                                                                         *)
(* Deadlines may pass at any time. The peer does not close; errors and     *)
(* closes are HubConns'. green_recv and green_send are not used by two     *)
(* greenlets of one descriptor at a time (HubConns, conns_shared).         *)
(***************************************************************************)
EXTENDS Integers, Sequences

CONSTANTS
    Greenlets, Reader,  \* the one that alone reads, if nothing is shared
    Size,               \* bytes in one send
    MaxIn, MaxOut       \* what the kernel's buffers hold

ASSUME TransferAssumption ==
    /\ Reader \in Greenlets
    /\ Size \in Nat \ {0} /\ MaxIn \in Nat \ {0} /\ MaxOut \in Nat \ {0}

VARIABLES
    tls,        \* the socket is a TLS socket
    accepted,   \* the socket is as accept() has made it
    shared,     \* all read and write; else one reads, and one at a time writes
    timeout,    \* _timeout_value: "none", "zero" or "some"
    native,     \* the same, of the C object
    registered, \* the hub has the socket
    inbox,      \* bytes in the kernel
    pending,    \* bytes in the record layer
    outbox,     \* bytes the peer has not taken
    call,       \* what each greenlet is in
    sent,       \* the bytes of its call that the kernel has taken
    lost,       \* calls that took bytes and did not return them
    stalled     \* a system call stops the thread

vars == <<tls, accepted, shared, timeout, native, registered, inbox, pending, outbox, call, sent, lost, stalled>>
modeVars == <<tls, accepted, shared, timeout, native, registered>>
bufferVars == <<inbox, pending, outbox>>

Timeouts == {"none", "zero", "some"}

(* recv and recv_into; the same with flags, and recvfrom; send and sendall; *)
(* send with flags, and sendto; sendall with flags.                         *)
PlainOps == {"recv", "recv_flags", "send", "send_flags", "sendall_flags"}
(* read and recv; write and send; sendall; do_handshake and unwrap, which  *)
(* write and then read.                                                    *)
TlsOps == {"tls_recv", "tls_send", "tls_sendall", "tls_handshake"}
ReadOps == {"recv", "recv_flags", "tls_recv"}
LoopOps == {"sendall_flags", "tls_sendall", "tls_handshake"}

(* at: "syscall" while it makes the call itself, "hub" and "poll" while it *)
(* waits, "woken" when the wait is over, "returned" when the call is.      *)
NoCall == [op |-> "none", at |-> "none", direct |-> FALSE, timed |-> FALSE, late |-> FALSE,
           result |-> "none"]

(* connect() of a TLS socket registers it, wrap_socket() of a connected    *)
(* socket does not. accept() says of the plain socket it returns that the  *)
(* hub has it, but leaves it with the default timeout.                     *)
Init ==
    /\ tls \in BOOLEAN /\ shared \in BOOLEAN
    /\ timeout \in Timeouts
    /\ registered \in BOOLEAN
    /\ accepted = (registered /\ ~tls)
    /\ native = IF tls /\ registered THEN "zero" ELSE timeout
    /\ inbox = 0 /\ pending = 0 /\ outbox = 0
    /\ call = [g \in Greenlets |-> NoCall]
    /\ sent = [g \in Greenlets |-> <<>>]
    /\ lost = {}
    /\ stalled = FALSE

-----------------------------------------------------------------------------
(* One greenlet runs at a time: one that is in no call, or the one that    *)
(* makes a system call or has just returned.                               *)
NoneRunning == \A g \in Greenlets : call[g].at \notin {"syscall", "returned"}

(* What it does next is a read; a handshake reads at last.                 *)
Reads(g) ==
    call[g].op \in ReadOps \/ (call[g].op = "tls_handshake" /\ Len(sent[g]) = Size)

InCall(g) == call[g].at # "none"

Goes(g, at) == call' = [call EXCEPT ![g].at = at]

Returns(g, result) == call' = [call EXCEPT ![g].at = "returned", ![g].result = result]

(* Not so: the C object gets the timeout, whoever has the socket. *)
SetTimeoutAlways(t) ==
    /\ NoneRunning
    /\ timeout' = t
    /\ accepted' = FALSE
    /\ native' = t
    /\ UNCHANGED <<tls, shared, registered, bufferVars, call, sent, lost, stalled>>

(* settimeout(), setblocking(): the C object of a registered socket stays  *)
(* non-blocking.                                                           *)
SetTimeout(t) ==
    /\ NoneRunning
    /\ timeout' = t
    /\ accepted' = FALSE
    /\ native' = IF registered THEN "zero" ELSE t
    /\ UNCHANGED <<tls, shared, registered, bufferVars, call, sent, lost, stalled>>

-----------------------------------------------------------------------------
MayBegin(g, op) ==
    /\ ~shared => /\ op \in ReadOps <=> g = Reader
                  /\ \A h \in Greenlets : InCall(h) => "tls_handshake" \notin {op, call[h].op}
                  /\ \A h \in Greenlets \ {Reader, g} : g = Reader \/ ~InCall(h)
    /\ op \in {"recv", "send"} => \A h \in Greenlets : call[h].at # "hub"

Direct == tls \/ timeout = "zero"

(* Not so: a TLS call polls first. *)
StartsPolling(op) == IF op \in {"recv", "send"} THEN "hub" ELSE "poll"

(* How a call begins: TLS, and a plain one with timeout zero, with the     *)
(* system call.                                                            *)
Starts(op) ==
    IF Direct THEN "syscall" ELSE IF op \in {"recv", "send"} THEN "hub" ELSE "poll"

(* A call is made. A plain one that waits registers the socket first. *)
Begin(g, op) ==
    /\ NoneRunning /\ ~InCall(g) /\ MayBegin(g, op)
    /\ call' = [call EXCEPT ![g] = [op |-> op, at |-> Starts(op), direct |-> Direct,
                                    timed |-> timeout = "some", late |-> FALSE, result |-> "none"]]
    /\ registered' = (registered \/ ~Direct)
    /\ native' = IF Direct \/ registered THEN native ELSE "zero"
    /\ UNCHANGED <<tls, accepted, shared, timeout, bufferVars, sent, lost, stalled>>

(* Not so: after a partial write it is given all the bytes again. *)
TakesAgain(g, n) ==
    /\ outbox' = outbox + n
    /\ sent' = [sent EXCEPT ![g] = @ \o [i \in 1..n |-> i]]

(* The kernel takes n bytes of a greenlet's call, those after the first    *)
(* ones that it has taken.                                                 *)
Takes(g, n) ==
    /\ outbox' = outbox + n
    /\ sent' = [sent EXCEPT ![g] = @ \o [i \in 1..n |-> Len(sent[g]) + i]]

Portions(g) ==
    {n \in 1..Size : n <= MaxOut - outbox /\ n <= Size - Len(sent[g])}

(* green_recv and green_send end in the kernel: there the bytes are gone   *)
(* already, or are all on their way.                                       *)
HubReceives(g) ==
    /\ call[g].at = "hub" /\ call[g].op = "recv"
    /\ \E n \in 1..inbox : inbox' = inbox - n
    /\ Goes(g, "woken")
    /\ UNCHANGED <<modeVars, pending, outbox, sent, lost, stalled>>

HubSends(g) ==
    /\ call[g].at = "hub" /\ call[g].op = "send"
    /\ \E n \in Portions(g) :
        /\ Takes(g, n)
        /\ IF Len(sent[g]) + n = Size THEN Goes(g, "woken") ELSE UNCHANGED call
    /\ UNCHANGED <<modeVars, inbox, pending, lost, stalled>>

(* green_poll_fd: of what the kernel holds, not of the record layer. *)
PollEnds(g) ==
    /\ call[g].at = "poll"
    /\ IF Reads(g) THEN inbox > 0 ELSE outbox < MaxOut
    /\ Goes(g, "woken")
    /\ UNCHANGED <<modeVars, bufferVars, sent, lost, stalled>>

(* The greenlet runs again, and looks at its deadline: a plain call does   *)
(* when its wait is over, a TLS call only before it waits again.           *)
Wakes(g) ==
    /\ NoneRunning /\ call[g].at = "woken"
    /\ IF ~tls /\ call[g].late
       THEN /\ Returns(g, "timeout")
            /\ lost' = IF call[g].op = "recv" THEN lost \cup {"recv"} ELSE lost
       ELSE /\ IF call[g].op \in {"recv", "send"} THEN Returns(g, "done") ELSE Goes(g, "syscall")
            /\ UNCHANGED lost
    /\ UNCHANGED <<modeVars, bufferVars, sent, stalled>>

-----------------------------------------------------------------------------
(* The system call, of a plain socket or below the record layer. *)
CanRead == inbox > 0 \/ pending > 0

SyscallReads(g) ==
    /\ call[g].at = "syscall" /\ Reads(g)
    /\ \E n \in 1..(IF pending > 0 THEN pending ELSE inbox) :
        IF tls
        THEN /\ pending' = (IF pending > 0 THEN pending ELSE inbox) - n
             /\ inbox' = IF pending > 0 THEN inbox ELSE 0
        ELSE inbox' = inbox - n /\ UNCHANGED pending
    /\ Returns(g, "done")
    /\ stalled' = FALSE
    /\ UNCHANGED <<modeVars, outbox, sent, lost>>

(* What a call does when the kernel has taken all of it, or a part, which  *)
(* does not end a call of a blocking socket.                               *)
AfterWrite(g, all) ==
    IF native = "none" /\ ~all THEN Goes(g, "syscall")
    ELSE IF call[g].op \notin LoopOps THEN Returns(g, "count")
    ELSE IF all THEN IF call[g].op = "tls_handshake" THEN Goes(g, "syscall") ELSE Returns(g, "done")
    ELSE IF call[g].op = "tls_sendall" /\ call[g].late THEN Returns(g, "timeout")
    ELSE Goes(g, IF call[g].direct THEN "syscall" ELSE "poll")

SyscallWrites(g) ==
    /\ call[g].at = "syscall" /\ ~Reads(g)
    /\ \E n \in Portions(g) : Takes(g, n) /\ AfterWrite(g, Len(sent[g]) + n = Size)
    /\ stalled' = FALSE
    /\ UNCHANGED <<modeVars, inbox, pending, lost>>

CannotGoOn(g) ==
    /\ call[g].at = "syscall"
    /\ IF Reads(g) THEN ~CanRead ELSE outbox = MaxOut

(* It would block: TLS polls, before its deadline; a plain call raises.    *)
WouldBlock(g) ==
    /\ CannotGoOn(g) /\ native = "zero"
    /\ IF ~tls THEN Returns(g, "would_block")
       ELSE IF call[g].late THEN Returns(g, "timeout") ELSE Goes(g, "poll")
    /\ UNCHANGED <<modeVars, bufferVars, sent, lost, stalled>>

(* The C object waits, and everybody with it, or gives up. *)
Stalls(g) ==
    /\ CannotGoOn(g) /\ native # "zero"
    /\ \/ ~stalled /\ stalled' = TRUE /\ UNCHANGED call
       \/ native = "some" /\ stalled /\ stalled' = FALSE /\ Returns(g, "timeout")
    /\ UNCHANGED <<modeVars, bufferVars, sent, lost>>

Syscall(g) == SyscallReads(g) \/ SyscallWrites(g) \/ WouldBlock(g) \/ Stalls(g)

(* The greenlet goes on after its call. *)
GoesOn(g) ==
    /\ call[g].at = "returned"
    /\ call' = [call EXCEPT ![g] = NoCall]
    /\ sent' = [sent EXCEPT ![g] = <<>>]
    /\ UNCHANGED <<modeVars, bufferVars, lost, stalled>>

-----------------------------------------------------------------------------
Expires(g) ==
    /\ call[g].at \in {"hub", "poll", "woken", "syscall"} /\ call[g].timed /\ ~call[g].late
    /\ call' = [call EXCEPT ![g].late = TRUE]
    /\ UNCHANGED <<modeVars, bufferVars, sent, lost, stalled>>

PeerSends ==
    /\ inbox < MaxIn
    /\ inbox' = inbox + 1
    /\ UNCHANGED <<modeVars, pending, outbox, call, sent, lost, stalled>>

PeerTakes ==
    /\ outbox > 0
    /\ outbox' = outbox - 1
    /\ UNCHANGED <<modeVars, inbox, pending, call, sent, lost, stalled>>

KernelStep(g) == HubReceives(g) \/ HubSends(g) \/ PollEnds(g)

GreenletStep(g) == Wakes(g) \/ Syscall(g) \/ GoesOn(g)

Next ==
    \/ \E t \in Timeouts : SetTimeout(t)
    \/ \E g \in Greenlets :
        \/ \E op \in IF tls THEN TlsOps ELSE PlainOps : Begin(g, op)
        \/ KernelStep(g) \/ GreenletStep(g) \/ Expires(g)
    \/ PeerSends \/ PeerTakes

(* The kernel completes what it can. The hub switches to the greenlets in  *)
(* the order their waits were over, so to each in the end, however often   *)
(* others run in between.                                                  *)
Fairness ==
    \A g \in Greenlets : WF_vars(KernelStep(g)) /\ SF_vars(Wakes(g)) /\ WF_vars(Syscall(g) \/ GoesOn(g))

Spec == Init /\ [][Next]_vars /\ Fairness

-----------------------------------------------------------------------------
Counting(n) == [i \in 1..n |-> i]

(* What a call tells its caller of the bytes is so. The kernel has taken   *)
(* the bytes of a send in order and each once, however many writes it      *)
(* took; all of them when sendall is done. A call that raises a timeout    *)
(* has dropped nothing and has not sent everything, and can be made again; *)
(* that is not so of the two that go through the hub, which find out too   *)
(* late. And nobody but a program that shares the socket sees that a call  *)
(* would block which has waited for its descriptor.                        *)
ResultsTrue ==
    /\ lost \subseteq {"recv"}
    /\ \A g \in Greenlets :
        LET c == call[g]
        IN  /\ sent[g] = Counting(Len(sent[g]))
            /\ c.result = "done" /\ c.op \in LoopOps \cup {"send"} => Len(sent[g]) = Size
            /\ c.result = "timeout" /\ c.op \notin ReadOps \cup {"send", "tls_handshake"} => Len(sent[g]) < Size
            /\ c.result = "would_block" /\ ~shared => c.direct

(* No system call of a cooperative call waits in the kernel, which would   *)
(* stop every greenlet: whatever settimeout() is told in the middle of a   *)
(* call, and whoever takes the bytes before the greenlet that polled. But  *)
(* a TLS socket that the hub does not have must be non-blocking itself,    *)
(* and so must a socket from accept(), which is not before settimeout().   *)
ThreadNeverStalls == stalled => accepted \/ (tls /\ ~registered)

(* A greenlet that alone reads gets the bytes that have come, also those   *)
(* that the record layer holds, of which no poll of the descriptor tells.  *)
ReadReturns ==
    \A g \in Greenlets :
        (~shared /\ InCall(g) /\ Reads(g) /\ CanRead) ~> (call[g].at = "returned" \/ stalled)
=============================================================================
