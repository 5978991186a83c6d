----------------------------- MODULE CoopSelect -----------------------------
(***************************************************************************)
(* select(), poll objects, the cooperative selector and sleep()            *)
(* (monkey/_select.py, _selectors.py, _time.py) over the hub's polls.      *)
(*                                                                         *)
(* A call notes numbers and events, queues a poll for each number, and     *)
(* waits. The polls begin when the hub next submits, after the other       *)
(* greenlets that are ready have run, for the file that has the number by  *)
(* then. The first that is over wakes the greenlet, and before it runs     *)
(* others may be over, and other greenlets may have changed the selector.  *)
(* Which events a file has is the kernel's: any of those asked for, or an  *)
(* error or hang-up. Urgent data is left out.                              *)
(***************************************************************************)
EXTENDS Integers, FiniteSets

CONSTANTS
    Greenlets, Fds,
    Files       \* bound: files that had a number and that somebody means

ASSUME SelectAssumption == Fds \subseteq Nat /\ Files \subseteq Nat \ {0}

Events == {"in", "out"}

(* What is noted of a number: the file that is meant, and which events.    *)
NoKey == [file |-> 0, events |-> {}]

VARIABLES
    file,       \* which file each number names, 0 for none
    keys,       \* the selector: _keys
    closed,     \* the selector is closed
    wait        \* what each greenlet waits for

vars == <<file, keys, closed, wait>>

(* asked: what the call has noted; polled: the file of each poll; seen:    *)
(* what each poll came to; and in the end what the call returns.           *)
NoWait ==
    [kind |-> "none", at |-> "none", time |-> "none", expired |-> FALSE,
     asked |-> [fd \in Fds |-> NoKey], polled |-> [fd \in Fds |-> 0],
     seen |-> [fd \in Fds |-> {}], result |-> [fd \in Fds |-> {}]]

Init ==
    /\ file = [fd \in Fds |-> 0]
    /\ keys = [fd \in Fds |-> NoKey]
    /\ closed = FALSE
    /\ wait = [g \in Greenlets |-> NoWait]

-----------------------------------------------------------------------------
(* One greenlet runs at a time; one that has just returned goes on first.  *)
NobodyMid == \A g \in Greenlets : wait[g].at # "returned"
Idle(g) == wait[g].at = "none" /\ NobodyMid

Asked(asked) == {fd \in Fds : asked[fd].events # {}}

(* A program opens and closes; what is in the selector it takes out first, *)
(* and what somebody waits for it leaves open.                             *)
Meant(fd) == {keys[fd].file} \cup UNION {{wait[g].asked[fd].file, wait[g].polled[fd]} : g \in Greenlets}

OpenFile(fd) ==
    /\ NobodyMid /\ file[fd] = 0
    /\ \E f \in Files \ Meant(fd) :
        /\ \A e \in Files \ Meant(fd) : f <= e
        /\ file' = [file EXCEPT ![fd] = f]
    /\ UNCHANGED <<keys, closed, wait>>

CloseFile(fd) ==
    /\ NobodyMid /\ file[fd] # 0 /\ keys[fd] = NoKey
    /\ file' = [file EXCEPT ![fd] = 0]
    /\ UNCHANGED <<keys, closed, wait>>

(* register(), unregister(), close() of the selector, by any greenlet,     *)
(* also while another is in select().                                      *)
Register(fd) ==
    /\ NobodyMid /\ ~closed /\ file[fd] # 0 /\ keys[fd] = NoKey
    /\ \E events \in (SUBSET Events) \ {{}} :
        keys' = [keys EXCEPT ![fd] = [file |-> file[fd], events |-> events]]
    /\ UNCHANGED <<file, closed, wait>>

Unregister(fd) ==
    /\ NobodyMid /\ ~closed /\ keys[fd] # NoKey
    /\ keys' = [keys EXCEPT ![fd] = NoKey]
    /\ UNCHANGED <<file, closed, wait>>

CloseSelector ==
    /\ NobodyMid /\ ~closed
    /\ closed' = TRUE
    /\ keys' = [fd \in Fds |-> NoKey]
    /\ UNCHANGED <<file, wait>>

-----------------------------------------------------------------------------
(* How a call goes about it. Nothing to ask for is a sleep, or nothing at  *)
(* all; a timeout of zero asks the system; one list with one object is one *)
(* poll, more are many.                                                    *)
Begins(g, kind, asked, time) ==
    wait' = [wait EXCEPT ![g] =
        [NoWait EXCEPT !.kind = kind, !.asked = asked, !.time = time,
                       !.at = IF time = "zero" \/ (time = "none" /\ Asked(asked) = {})
                              THEN "asking" ELSE "queued"]]

(* The objects of select's lists, of a poll object's dictionary. *)
SomeFiles ==
    {asked \in [Fds -> {NoKey} \cup [file : Files, events : (SUBSET Events) \ {{}}]] :
        \A fd \in Asked(asked) : asked[fd].file = file[fd]}

Select(g) ==
    /\ Idle(g)
    /\ \E asked \in SomeFiles, time \in {"none", "zero", "some"} :
        LET single == \E fd \in Fds : Asked(asked) = {fd} /\ Cardinality(asked[fd].events) = 1
        IN  Begins(g, IF single THEN "single" ELSE "multi", asked, time)
    /\ UNCHANGED <<file, keys, closed>>

Poll(g) ==
    /\ Idle(g)
    /\ \E asked \in SomeFiles, time \in {"none", "zero", "some"} : Begins(g, "poll", asked, time)
    /\ UNCHANGED <<file, keys, closed>>

SelectorSelect(g) ==
    /\ Idle(g) /\ ~closed
    /\ \E time \in {"none", "zero", "some"} : Begins(g, "selector", keys, time)
    /\ UNCHANGED <<file, keys, closed>>

Sleep(g) ==
    /\ Idle(g)
    /\ Begins(g, "sleep", NoWait.asked, "some")
    /\ UNCHANGED <<file, keys, closed>>

-----------------------------------------------------------------------------
(* The hub submits when no greenlet is ready. A number that names nothing  *)
(* by then is an error at once.                                            *)
HubSubmits ==
    /\ \A g \in Greenlets : wait[g].at \notin {"asking", "woken", "returned"}
    /\ \E g \in Greenlets : wait[g].at = "queued"
    /\ wait' = [g \in Greenlets |->
        IF wait[g].at # "queued" THEN wait[g]
        ELSE LET bad == {fd \in Asked(wait[g].asked) : file[fd] = 0}
             IN  [wait[g] EXCEPT
                    !.polled = [fd \in Fds |-> IF fd \in Asked(wait[g].asked) THEN file[fd] ELSE 0],
                    !.seen = [fd \in Fds |-> IF fd \in bad THEN {"bad"} ELSE {}],
                    !.at = IF bad = {} THEN "waiting" ELSE "woken"]]
    /\ UNCHANGED <<file, keys, closed>>

PollEnds(g, fd) ==
    /\ wait[g].at \in {"waiting", "woken"}
    /\ wait[g].polled[fd] # 0 /\ wait[g].seen[fd] = {}
    /\ wait[g].kind = "single" => ~wait[g].expired
    /\ \E revents \in (SUBSET (wait[g].asked[fd].events \cup {"err"})) \ {{}} :
        wait' = [wait EXCEPT ![g].seen[fd] = revents, ![g].at = "woken"]
    /\ UNCHANGED <<file, keys, closed>>

(* Of one poll and its timeout only one ends by itself. *)
TimesOut(g) ==
    /\ wait[g].at \in {"waiting", "woken"} /\ wait[g].time = "some" /\ ~wait[g].expired
    /\ wait[g].kind = "single" => \A fd \in Fds : wait[g].seen[fd] = {}
    /\ wait' = [wait EXCEPT ![g].expired = TRUE, ![g].at = "woken"]
    /\ UNCHANGED <<file, keys, closed>>

-----------------------------------------------------------------------------
(* What the call makes of what the polls came to; a failed poll of many is *)
(* left out, and one by itself is raised.                                  *)
Good(seen) == seen \ {"bad"}

(* One object: reported, whatever the poll came to. *)
ReportsSingle(w) == [fd \in Fds |-> IF Good(w.seen[fd]) # {} THEN w.asked[fd].events ELSE {}]

(* Not so: an error or hang-up is no event. *)
ReportsNoHangup(w) == [fd \in Fds |-> w.seen[fd] \cap w.asked[fd].events]

(* The lists of select: an error or hang-up counts for reading only. *)
ReportsMulti(w) ==
    [fd \in Fds |-> {e \in w.asked[fd].events : e \in w.seen[fd] \/ (e = "in" /\ "err" \in w.seen[fd])}]

(* Not so: as the selector was when select() began. *)
ReportsAsked(w) ==
    [fd \in Fds |-> {e \in w.asked[fd].events : e \in w.seen[fd] \/ "err" \in w.seen[fd]}]

(* The selector looks into its keys again: at what is registered now. *)
ReportsSelector(w) ==
    [fd \in Fds |-> {e \in keys[fd].events : e \in w.seen[fd] \/ "err" \in w.seen[fd]}]

Reports(w) ==
    CASE w.kind = "single" -> ReportsSingle(w)
      [] w.kind = "multi" -> ReportsMulti(w)
      [] w.kind = "selector" -> ReportsSelector(w)
      [] OTHER -> [fd \in Fds |-> Good(w.seen[fd])]

(* The call returns. *)
Wakes(g) ==
    /\ wait[g].at = "woken" /\ NobodyMid
    /\ wait' = [wait EXCEPT ![g].at = "returned", ![g].result = Reports(wait[g])]
    /\ UNCHANGED <<file, keys, closed>>

(* A call that does not wait: the system's own select tells what is so now. *)
Asks(g) ==
    /\ wait[g].at = "asking" /\ NobodyMid
    /\ \E seen \in [Fds -> SUBSET (Events \cup {"err"})] :
        /\ \A fd \in Fds : seen[fd] \subseteq
              IF fd \in Asked(wait[g].asked) THEN wait[g].asked[fd].events \cup {"err"} ELSE {}
        /\ wait' = [wait EXCEPT ![g].at = "returned", ![g].seen = seen,
                                ![g].result = Reports([wait[g] EXCEPT !.seen = seen])]
    /\ UNCHANGED <<file, keys, closed>>

GoesOn(g) ==
    /\ wait[g].at = "returned"
    /\ wait' = [wait EXCEPT ![g] = NoWait]
    /\ UNCHANGED <<file, keys, closed>>

Next ==
    \/ \E fd \in Fds : OpenFile(fd) \/ CloseFile(fd) \/ Register(fd) \/ Unregister(fd)
    \/ CloseSelector
    \/ \E g \in Greenlets :
        \/ Select(g) \/ Poll(g) \/ SelectorSelect(g) \/ Sleep(g)
        \/ \E fd \in Fds : PollEnds(g, fd)
        \/ TimesOut(g) \/ Wakes(g) \/ Asks(g) \/ GoesOn(g)
    \/ HubSubmits

Spec == Init /\ [][Next]_vars

-----------------------------------------------------------------------------
Returned == {wait[g] : g \in {h \in Greenlets : wait[h].at = "returned"}}

ReportedTruly(w) ==
    \A fd \in Fds :
        /\ \A e \in w.result[fd] : e \in w.seen[fd] \/ "err" \in w.seen[fd]
        /\ w.kind = "selector" /\ w.result[fd] # {} =>
            /\ w.result[fd] \subseteq keys[fd].events
            /\ w.time = "zero" \/ w.polled[fd] = keys[fd].file \/ keys[fd] # w.asked[fd]

(* What a call reports is what a poll came to. What a selector reports is  *)
(* registered when select() returns, with those events, though another     *)
(* greenlet has unregistered it meanwhile or closed the selector; and is   *)
(* so of the file that is registered, unless the key was replaced while    *)
(* select() waited.                                                        *)
ReportsTrue == \A w \in Returned : ReportedTruly(w)

NothingReported(w) ==
    Asked(w.asked) # {} /\ w.time # "zero" /\ \A fd \in Fds : w.result[fd] = {}

NothingExplained(w) ==
    NothingReported(w) =>
        \/ w.expired
        \/ \E fd \in Fds : "bad" \in w.seen[fd]
        \/ w.kind = "selector" /\ keys # w.asked
        \/ w.kind = "multi" /\ \E fd \in Fds : w.seen[fd] = {"err"} /\ w.asked[fd].events = {"out"}

(* A call without timeout that asks for something returns nothing only if  *)
(* a poll failed, if the selector was changed while it waited, or if what  *)
(* was asked for writing is hung up: select() of many does not report it.  *)
(* With a timeout, only if the timeout has passed.                         *)
NothingIsTimeout == \A w \in Returned : NothingExplained(w)

-----------------------------------------------------------------------------
(* The inductive invariant behind both: what is noted, polled and seen of  *)
(* a number belongs together, at every point of a call.                    *)
Key == [file : Files \cup {0}, events : SUBSET Events]

Seen == SUBSET (Events \cup {"err", "bad"})

Wait ==
    [kind : {"none", "single", "multi", "poll", "selector", "sleep"},
     at : {"none", "asking", "queued", "waiting", "woken", "returned"},
     time : {"none", "zero", "some"}, expired : BOOLEAN,
     asked : [Fds -> Key], polled : [Fds -> Files \cup {0}],
     seen : [Fds -> Seen], result : [Fds -> Seen]]

(* A key of the selector means a file that is open under its number.       *)
FilesOK ==
    /\ file \in [Fds -> Files \cup {0}]
    /\ keys \in [Fds -> Key]
    /\ closed \in BOOLEAN
    /\ \A fd \in Fds : keys[fd] # NoKey => file[fd] # 0 /\ keys[fd].file = file[fd]

(* Only what was asked for is seen, and of one object one event is asked.  *)
SeenAsked(w) ==
    \A fd \in Fds :
        /\ w.seen[fd] \subseteq w.asked[fd].events \cup {"err", "bad"}
        /\ w.asked[fd].events = {} => w.seen[fd] = {} /\ w.polled[fd] = 0
        /\ w.kind = "single" => \A a, b \in w.asked[fd].events : a = b

(* A poll is of the file that was meant, unless that was closed before;    *)
(* then it does not get its number back while somebody means it.           *)
PolledMeant(w) ==
    \A fd \in Asked(w.asked) :
        /\ w.asked[fd].file # 0
        /\ w.at \in {"waiting", "woken", "returned"} /\ w.time # "zero" =>
             w.polled[fd] = w.asked[fd].file \/ file[fd] # w.asked[fd].file

(* Who does not wait has nothing to ask for or no time for it, and who is  *)
(* woken has a reason.                                                     *)
WokenFor(w) ==
    /\ w.at = "asking" /\ w.time # "zero" => Asked(w.asked) = {}
    /\ w.at \in {"queued", "waiting", "woken"} => w.time # "zero"
    /\ w.at = "woken" => w.expired \/ \E fd \in Fds : w.seen[fd] # {}

WaitOK(w) ==
    /\ w \in Wait
    /\ SeenAsked(w) /\ PolledMeant(w) /\ WokenFor(w)
    /\ w.at = "returned" => ReportedTruly(w) /\ NothingExplained(w)

SelectInv ==
    /\ FilesOK
    /\ wait \in [Greenlets -> Wait]
    /\ \A g \in Greenlets : WaitOK(wait[g])
=============================================================================
