-------------------------------- MODULE Dns --------------------------------
(***************************************************************************)
(* Lookups in a thread pool (monkey/_dns.py): a greenlet opens a pipe,     *)
(* gives a job to the pool and polls the pipe; a thread of the pool runs   *)
(* the job, stores what it got and writes a byte; the greenlet closes the  *)
(* pipe and takes the answer. Threads run at any time, also while a        *)
(* greenlet runs, and go on when the greenlet has given up.                *)
(***************************************************************************)
EXTENDS Descriptors

-----------------------------------------------------------------------------
(* _run_in_thread up to its wait: the pipe, the job, the poll. *)
CanLookup ==
    /\ CanOpen({})
    /\ CanOpen({Lowest({})})
    /\ \E j \in Jobs : job[j].state = "unborn"

NewJob == Min({j \in Jobs : job[j].state = "unborn"})

StartsLookup(g, c) ==
    LET r == NewDesc({})
        w == NewDesc({r.fd})
    IN  /\ Opens({r, w})
        /\ job' = [job EXCEPT ![NewJob] = [Unborn EXCEPT !.state = "running", !.r = r, !.w = w]]
        /\ Waits(g, [c EXCEPT !.job = NewJob])

(* Not so: a thread that announces its answer before it has stored it. *)
ThreadStoresLate(j) ==
    /\ job[j].state = "running"
    /\ job' = [job EXCEPT ![j].state = "stored", ![j].byte = TRUE]
    /\ UNCHANGED <<history, fdVars, waitVars, sock, raw, late, objects>>

(* A thread runs the lookup and stores the result or the error, and only   *)
(* then writes the byte. The pool has a thread for every lookup here.      *)
ThreadStores(j) ==
    /\ job[j].state = "running"
    /\ job' = [job EXCEPT ![j].state = "stored", ![j].full = TRUE]
    /\ UNCHANGED <<history, fdVars, waitVars, sock, raw, late, objects>>

(* The byte goes to whatever the number of the write end names by now: to  *)
(* the pipe of another lookup, if it has the number. A number that names   *)
(* nothing, or a pipe nobody reads, is an error the thread ignores.        *)
WritesTo(fd) == {k \in Jobs : job[k].w.fd = fd /\ Names(job[k].w) /\ Names(job[k].r)}

(* Nobody waits for the answer of a lookup any more. *)
Abandoned(j) == \A g \in Greenlets : call[g].job # j

ThreadWrites(j) ==
    /\ job[j].state = "stored"
    /\ LET reached == WritesTo(job[j].w.fd)
       IN  job' = [k \in Jobs |->
                     IF k = j /\ Abandoned(j) THEN Unborn
                     ELSE [job[k] EXCEPT !.state = IF k = j THEN "ended" ELSE @,
                                         !.byte = @ \/ k \in reached]]
    /\ UNCHANGED <<history, fdVars, waitVars, sock, raw, late, objects>>

(* The poll of the read end is over when there is a byte to read. *)
Announced(j) == job[j].byte

Pipe(j) == {job[j].r.fd, job[j].w.fd}

(* A thread that is still at work keeps the number of the write end; what  *)
(* it stores nobody takes.                                                 *)
Orphan(j) == [Unborn EXCEPT !.state = "stored", !.w.fd = j.w.fd]

(* The greenlet runs on, or is thrown into while it waits: the pipe is     *)
(* closed, whatever the thread does.                                       *)
EndsLookup(g) ==
    /\ ClosesNow(Pipe(call[g].job))
    /\ job' = [job EXCEPT ![call[g].job] = IF @.state = "ended" THEN Unborn ELSE Orphan(@)]

DnsStep == \E j \in Jobs : ThreadStores(j) \/ ThreadWrites(j)
=============================================================================
