---------------------------- MODULE Descriptors ----------------------------
(***************************************************************************)
(* What the cooperative standard library (theframework/monkey) has below   *)
(* it: the descriptors of the process and who holds them, and of the hub   *)
(* what concerns them: which numbers it has registered, the closes it was  *)
(* asked for and has not executed, and which greenlets wait. HubConns is   *)
(* the hub itself; here a wait is over when the hub says so.               *)
(***************************************************************************)
EXTENDS Integers, FiniteSetsExt

CONSTANTS
    Greenlets,
    Socks,      \* bound: places for socket objects
    MaxJobs,    \* bound: lookups at a time
    NFds,       \* how many descriptors the process may have
    MaxGen,     \* bound: openings of one number that somebody still means
    MaxThrows   \* bound: lookups that are given up

ASSUME DescriptorsAssumption ==
    /\ 0 \notin Socks /\ MaxJobs \in Nat
    /\ NFds \in Nat /\ MaxGen \in Nat /\ MaxThrows \in Nat

Fds == 1..NFds
Jobs == 1..MaxJobs

(* Connections of the hub that are for no opening: of a number that is     *)
(* closed, and that of a socket that was dropped without being closed.     *)
Gone == MaxGen + 1
Left == MaxGen + 2

VARIABLES
    thrown,     \* how often a greenlet has given up a lookup
    struck,     \* whether a number was closed twice, and meanwhile was another's
    open,       \* which opening of each number is open, 0 for none
    conn,       \* fd_to_conn: for which opening of a number, 0 for none; Gone, Left
    closes,     \* closes asked of the hub and not reaped
    call,       \* what each greenlet waits for
    ready,      \* greenlets whose wait is over and that have not run yet
    job,        \* what each lookup has come to, and its pipe
    sock,       \* the socket objects
    raw,        \* descriptors the program holds as plain numbers
    late,       \* accepted after the deadline, and dropped
    kept,       \* what the C objects of sockets that were closed still have
    dropped     \* what those of sockets have that were dropped, not closed

history == <<thrown, struck>>
fdVars == <<open, conn, closes>>
waitVars == <<call, ready>>
objects == <<kept, dropped>>
holders == <<job, sock, raw, late, objects>>

(* A descriptor is a number, and the opening of it that its owner means. *)
NoDesc == [fd |-> 0, gen |-> 0]

Desc(c) == [fd |-> c.fd, gen |-> c.gen]

Names(d) == d.fd \in Fds /\ d.gen # 0 /\ open[d.fd] = d.gen

(* What a greenlet is in: which call, on which socket, with which lookup;  *)
(* and of create_connection how many addresses are left.                   *)
NoCall == [op |-> "none", sock |-> 0, job |-> 0, left |-> 0, create |-> FALSE]

Unborn == [state |-> "unborn", byte |-> FALSE, full |-> FALSE, r |-> NoDesc, w |-> NoDesc]

NoSocket == [live |-> FALSE, desc |-> NoDesc, registered |-> FALSE, closed |-> FALSE, refs |-> 0]

DescriptorsInit ==
    /\ thrown = 0 /\ struck = FALSE
    /\ open = [fd \in Fds |-> 0]
    /\ conn = [fd \in Fds |-> 0]
    /\ closes = {}
    /\ call = [g \in Greenlets |-> NoCall]
    /\ ready = {}
    /\ job = [j \in Jobs |-> Unborn]
    /\ sock = [s \in Socks |-> NoSocket]
    /\ raw = {}
    /\ late = {}
    /\ kept = {} /\ dropped = {}

-----------------------------------------------------------------------------
(* The kernel gives out the lowest number that is free. *)
Free(taken) == {fd \in Fds : open[fd] = 0} \ taken

Lowest(taken) == Min(Free(taken))

(* An opening is told from those of the same number that somebody means.   *)
Meant(d) ==
    \/ d \in raw \cup late \cup kept \cup dropped
    \/ \E s \in Socks : sock[s].desc = d
    \/ \E j \in Jobs : d \in {job[j].r, job[j].w}
    \/ \E c \in closes : Desc(c) = d
    \/ conn[d.fd] = d.gen

Fresh(fd) == {n \in 1..MaxGen : ~Meant([fd |-> fd, gen |-> n])}

CanOpen(taken) == Free(taken) # {} /\ Fresh(Lowest(taken)) # {}

NewDesc(taken) ==
    LET fd == Lowest(taken)
    IN  [fd |-> fd, gen |-> Min(Fresh(fd))]

(* The descriptors D are opened. *)
Opens(D) ==
    open' = [fd \in Fds |-> IF \E d \in D : d.fd = fd THEN (CHOOSE d \in D : d.fd = fd).gen ELSE open[fd]]

(* close(2) on these numbers, whatever they name by now. *)
ClosesNow(numbers) == open' = [fd \in Fds |-> IF fd \in numbers THEN 0 ELSE open[fd]]

(* green_register_fd: refused when the number has a connection already. *)
Registers(d) == conn' = [conn EXCEPT ![d.fd] = IF @ = 0 THEN d.gen ELSE @]

(* green_close: the number is closed when the hub next submits. *)
CloseSqe(d) == [fd |-> d.fd, gen |-> d.gen, tracked |-> conn[d.fd] # 0]

(* The number names somebody else's file by now. *)
Strikes(d) == open[d.fd] \notin {0, d.gen}

(* Numbers whose close is executed, but not reaped. *)
Unreaped == {fd \in Fds : conn[fd] = Gone}

Tracked == {c.fd : c \in {x \in closes : x.tracked}}

(* All closes that were asked for are executed. *)
Executes ==
    /\ ClosesNow({c.fd : c \in closes})
    /\ struck' = (struck \/ \E c \in closes : Strikes(c))
    /\ closes' = {}

(* green_poll_multi submits all that is queued while its greenlet runs:    *)
(* closes are executed, and reaped in the hub's next batch only.           *)
Submits ==
    /\ closes # {}
    /\ Executes
    /\ conn' = [fd \in Fds |-> IF fd \in Tracked THEN Gone ELSE conn[fd]]
    /\ UNCHANGED <<thrown, waitVars, holders>>

(* The hub submits what is queued and waits; some waits end. The closes of *)
(* a submission are executed in it and reaped in the batch that follows.   *)
HubTurn(mayEnd) ==
    /\ ready = {}
    /\ \E ends \in SUBSET mayEnd :
        /\ closes # {} \/ Unreaped # {} \/ ends # {}
        /\ ready' = ends
    /\ Executes
    /\ conn' = [fd \in Fds |-> IF fd \in Tracked \cup Unreaped THEN 0 ELSE conn[fd]]
    /\ UNCHANGED <<thrown, call, holders>>

(* A greenlet begins to wait; its wait is over. *)
Waits(g, c) == call' = [call EXCEPT ![g] = c] /\ ready' = ready \ {g}

Returns(g) == Waits(g, NoCall)
=============================================================================
