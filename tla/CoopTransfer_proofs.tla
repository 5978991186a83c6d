------------------------ MODULE CoopTransfer_proofs ------------------------
(***************************************************************************)
(* That no cooperative call stops the thread (ThreadNeverStalls), and that *)
(* what calls return is so (ResultsTrue), for any greenlets, sizes and     *)
(* buffers.                                                                *)
(***************************************************************************)
EXTENDS CoopTransfer, TLAPS

Ats == {"none", "syscall", "hub", "poll", "woken", "returned"}

Results == {"none", "done", "count", "timeout", "would_block"}

Calls == [op : PlainOps \cup TlsOps \cup {"none"}, at : Ats, direct : BOOLEAN,
          timed : BOOLEAN, late : BOOLEAN, result : Results]

CallsOK == call \in [Greenlets -> Calls]

ModesOK ==
    /\ tls \in BOOLEAN /\ accepted \in BOOLEAN /\ registered \in BOOLEAN /\ stalled \in BOOLEAN
    /\ timeout \in Timeouts /\ native \in Timeouts

Running == {"syscall", "returned"}

(* The C object blocks only if nobody has told it not to. *)
NativeOK ==
    /\ registered /\ ~accepted => native = "zero"
    /\ ~registered => native = timeout

OneRuns == \A g, h \in Greenlets : call[g].at \in Running /\ call[h].at \in Running => g = h

(* A plain call of a socket that the hub does not have never waits. *)
DirectOnly ==
    \A g \in Greenlets :
        ~tls /\ ~registered /\ call[g].at # "none" =>
            /\ call[g].direct /\ call[g].at \in Running
            /\ call[g].at = "syscall" => native = "zero"

(* Who stalls the thread is in a system call. *)
StallsSomebody ==
    stalled => native # "zero" /\ \E g \in Greenlets : call[g].at = "syscall"

TransferInv ==
    /\ CallsOK /\ ModesOK /\ NativeOK /\ OneRuns /\ DirectOnly /\ StallsSomebody
    /\ ThreadNeverStalls

-----------------------------------------------------------------------------
(* One greenlet's call gets to another place. *)
Moved(g, at) ==
    /\ call' \in [Greenlets -> Calls]
    /\ \A h \in Greenlets \ {g} : call'[h] = call[h]
    /\ call'[g].at = at /\ call'[g].direct = call[g].direct

(* A call that goes on to another place moves.                             *)
LEMMA GoesMoves ==
    ASSUME CallsOK, NEW g \in Greenlets, NEW at \in Ats, Goes(g, at)
    PROVE  Moved(g, at)
BY DEF CallsOK, Goes, Moved, Calls

(* So does one that returns.                                               *)
LEMMA ReturnsMoves ==
    ASSUME CallsOK, NEW g \in Greenlets, NEW result \in Results, Returns(g, result)
    PROVE  Moved(g, "returned")
BY DEF CallsOK, Returns, Moved, Calls, Ats, Results

(* A call that moves keeps the invariant: it runs on only if it runs or    *)
(* nobody does, waits only if the hub has the socket, and stalls only a    *)
(* socket that may.                                                        *)
LEMMA MoveKeeps ==
    ASSUME TransferInv, UNCHANGED modeVars, stalled' \in BOOLEAN,
           NEW g \in Greenlets, NEW at \in Ats, Moved(g, at), call[g].at # "none",
           at \in Running => call[g].at \in Running \/ NoneRunning,
           ~tls /\ ~registered => at \in Running \cup {"none"},
           at = "syscall" => call[g].at = "syscall" \/ tls \/ registered,
           stalled' =>
               \/ at = "syscall" /\ native # "zero" /\ (accepted \/ (tls /\ ~registered))
               \/ stalled /\ call[g].at # "syscall"
    PROVE  TransferInv'
<1>1. CallsOK' /\ ModesOK' /\ NativeOK'
  BY DEF TransferInv, CallsOK, ModesOK, NativeOK, Moved, modeVars
<1>2. OneRuns'
  <2> SUFFICES ASSUME NEW h \in Greenlets, NEW k \in Greenlets,
                      call'[h].at \in Running, call'[k].at \in Running
               PROVE  h = k
    BY DEF OneRuns
  <2>1. CASE h # g /\ k # g
    BY <2>1 DEF Moved, TransferInv, OneRuns
  <2>2. CASE h = g \/ k = g
    BY <2>2 DEF Moved, TransferInv, OneRuns, NoneRunning, Running
  <2> QED BY <2>1, <2>2
<1>3. DirectOnly'
  <2> SUFFICES ASSUME NEW h \in Greenlets, ~tls', ~registered', call'[h].at # "none"
               PROVE  /\ call'[h].direct /\ call'[h].at \in Running
                      /\ call'[h].at = "syscall" => native' = "zero"
    BY DEF DirectOnly
  <2>1. CASE h = g
    BY <2>1 DEF Moved, TransferInv, DirectOnly, modeVars
  <2>2. CASE h # g
    BY <2>2 DEF Moved, TransferInv, DirectOnly, modeVars
  <2> QED BY <2>1, <2>2
<1>4. StallsSomebody'
  <2> SUFFICES ASSUME stalled'
               PROVE  native' # "zero" /\ \E h \in Greenlets : call'[h].at = "syscall"
    BY DEF StallsSomebody
  <2>1. CASE at = "syscall" /\ native # "zero"
    BY <2>1 DEF Moved, modeVars
  <2>2. CASE stalled /\ call[g].at # "syscall"
    BY <2>2 DEF Moved, TransferInv, StallsSomebody, modeVars
  <2> QED BY <2>1, <2>2
<1>5. ThreadNeverStalls'
  BY DEF TransferInv, ThreadNeverStalls, modeVars
<1> QED BY <1>1, <1>2, <1>3, <1>4, <1>5 DEF TransferInv

(* Nothing that matters here changes, or only a mark on a call. *)
LEMMA MarkKeeps ==
    ASSUME TransferInv, UNCHANGED <<modeVars, stalled>>, call' \in [Greenlets -> Calls],
           \A g \in Greenlets : call'[g].at = call[g].at /\ call'[g].direct = call[g].direct
    PROVE  TransferInv'
<1>1. CallsOK' /\ ModesOK' /\ NativeOK' /\ ThreadNeverStalls'
  BY DEF TransferInv, CallsOK, ModesOK, NativeOK, ThreadNeverStalls, modeVars
<1>2. OneRuns'
  BY DEF TransferInv, OneRuns
<1>3. DirectOnly'
  BY DEF TransferInv, DirectOnly, modeVars
<1>4. StallsSomebody'
  BY DEF TransferInv, StallsSomebody, modeVars
<1> QED BY <1>1, <1>2, <1>3, <1>4 DEF TransferInv

-----------------------------------------------------------------------------
(* Nobody calls yet, and the C object is as the timeout has it.            *)
LEMMA InitOK == ASSUME Init PROVE TransferInv
<1>1. CallsOK /\ ModesOK
  BY DEF Init, CallsOK, Calls, ModesOK, NoCall, Ats, Results, Timeouts
<1>2. NativeOK
  BY DEF Init, NativeOK
<1>3. \A g \in Greenlets : call[g].at = "none"
  BY DEF Init, NoCall
<1> QED BY <1>1, <1>2, <1>3 DEF Init, TransferInv, OneRuns, DirectOnly, StallsSomebody,
                                ThreadNeverStalls, Running

(* Somebody would be in the system call that stalls. *)
LEMMA NoneRunningNoStall == ASSUME TransferInv, NoneRunning PROVE ~stalled
BY DEF TransferInv, StallsSomebody, NoneRunning

(* settimeout() runs when no call does, and leaves the C object            *)
(* non-blocking if the hub has the socket.                                 *)
LEMMA SetTimeoutKeeps ==
    ASSUME TransferInv, NEW t \in Timeouts, SetTimeout(t)
    PROVE  TransferInv'
<1>1. ~stalled
  BY NoneRunningNoStall DEF SetTimeout
<1>2. CallsOK' /\ ModesOK' /\ NativeOK'
  BY DEF SetTimeout, TransferInv, CallsOK, ModesOK, NativeOK, Timeouts
<1>3. OneRuns' /\ DirectOnly'
  BY DEF SetTimeout, TransferInv, OneRuns, DirectOnly, NoneRunning
<1> QED BY <1>1, <1>2, <1>3 DEF SetTimeout, TransferInv, StallsSomebody, ThreadNeverStalls

(* A call that begins waits only when it has registered the socket. *)
LEMMA BeginKeeps ==
    ASSUME TransferInv, NEW g \in Greenlets, NEW op \in PlainOps \cup TlsOps,
           op \in TlsOps <=> tls, Begin(g, op)
    PROVE  TransferInv'
<1>1. ~stalled /\ ~stalled'
  BY NoneRunningNoStall DEF Begin
<1>2. Starts(op) \in {"syscall", "hub", "poll"} /\ (Starts(op) = "syscall" <=> Direct)
  BY DEF Starts
<1>3. /\ call' \in [Greenlets -> Calls]
      /\ \A h \in Greenlets \ {g} : call'[h] = call[h]
      /\ call'[g].at = Starts(op) /\ call'[g].direct = Direct
  <2> DEFINE new == [op |-> op, at |-> Starts(op), direct |-> Direct,
                     timed |-> timeout = "some", late |-> FALSE, result |-> "none"]
  <2>1. Direct \in BOOLEAN /\ (timeout = "some") \in BOOLEAN
    BY DEF Direct, TransferInv, ModesOK
  <2>3. new \in Calls /\ new.at = Starts(op) /\ new.direct = Direct
    BY <1>2, <2>1 DEF Calls, Ats, Results
  <2>4. call' = [call EXCEPT ![g] = new]
    BY DEF Begin
  <2> HIDE DEF new
  <2> QED BY <2>3, <2>4 DEF TransferInv, CallsOK
<1>4. CallsOK' /\ ModesOK' /\ NativeOK'
  BY <1>1, <1>3 DEF Begin, TransferInv, CallsOK, ModesOK, NativeOK, Timeouts, Direct
<1>5. OneRuns'
  BY <1>3 DEF Begin, TransferInv, OneRuns, NoneRunning, Running
<1>6. DirectOnly'
  <2> SUFFICES ASSUME NEW h \in Greenlets, ~tls', ~registered', call'[h].at # "none"
               PROVE  /\ call'[h].direct /\ call'[h].at \in Running
                      /\ call'[h].at = "syscall" => native' = "zero"
    BY DEF DirectOnly
  <2>1. Direct /\ ~registered /\ ~tls /\ timeout = "zero" /\ native' = native /\ native = "zero"
    BY DEF Begin, Direct, TransferInv, NativeOK
  <2>2. CASE h = g
    BY <1>2, <1>3, <2>1, <2>2 DEF Running
  <2>3. CASE h # g
    BY <1>3, <2>1, <2>3 DEF TransferInv, DirectOnly
  <2> QED BY <2>2, <2>3
<1> QED BY <1>1, <1>4, <1>5, <1>6 DEF TransferInv, StallsSomebody, ThreadNeverStalls

(* The hub and the poll are of a socket that the hub has, or of a TLS      *)
(* one.                                                                    *)
LEMMA KernelKeeps ==
    ASSUME TransferInv, NEW g \in Greenlets, KernelStep(g)
    PROVE  TransferInv'
<1>1. ASSUME call[g].at \in {"hub", "poll"}, Goes(g, "woken"), UNCHANGED <<modeVars, stalled>>
      PROVE  TransferInv'
  <2>1. tls \/ registered
    BY <1>1 DEF TransferInv, DirectOnly, Running
  <2>2. Moved(g, "woken")
    BY <1>1, GoesMoves DEF TransferInv, Ats
  <2>3. stalled' \in BOOLEAN /\ "woken" \in Ats /\ "woken" \notin Running
    BY <1>1 DEF TransferInv, ModesOK, Ats, Running
  <2> QED BY <1>1, <2>1, <2>2, <2>3, MoveKeeps
<1>2. CASE HubReceives(g)
  BY <1>1, <1>2 DEF HubReceives
<1>3. CASE HubSends(g)
  <2>1. CASE UNCHANGED call
    BY <1>3, <2>1, MarkKeeps DEF HubSends, TransferInv, CallsOK
  <2>2. CASE Goes(g, "woken")
    BY <1>1, <1>3, <2>2 DEF HubSends
  <2> QED BY <1>3, <2>1, <2>2 DEF HubSends
<1>4. CASE PollEnds(g)
  BY <1>1, <1>4 DEF PollEnds
<1> QED BY <1>2, <1>3, <1>4 DEF KernelStep

(* A greenlet that runs goes to another place, and the thread with it. *)
LEMMA RunKeeps ==
    ASSUME TransferInv, UNCHANGED modeVars, NEW g \in Greenlets, call[g].at = "syscall",
           stalled' = FALSE \/ (stalled' = stalled /\ native = "zero"),
           \/ \E result \in Results : Returns(g, result)
           \/ Goes(g, "syscall")
           \/ Goes(g, "poll") /\ (tls \/ registered)
    PROVE  TransferInv'
<1>1. PICK at \in {"returned", "syscall", "poll"} :
        Moved(g, at) /\ (at = "poll" => tls \/ registered)
  BY GoesMoves, ReturnsMoves DEF TransferInv, Ats
<1>2. ~stalled' /\ stalled' \in BOOLEAN
  <2>1. CASE stalled' = FALSE
    BY <2>1
  <2>2. CASE stalled' = stalled /\ native = "zero"
    BY <2>2 DEF TransferInv, StallsSomebody, ModesOK
  <2> QED BY <2>1, <2>2
<1>3. at \in Ats /\ call[g].at \in Running /\ (at \in Running \/ tls \/ registered)
  BY <1>1 DEF Ats, Running
<1> QED BY <1>1, <1>2, <1>3, MoveKeeps

(* A greenlet that wakes is the only one that runs, and on such a socket.  *)
LEMMA WakesKeeps ==
    ASSUME TransferInv, NEW g \in Greenlets, Wakes(g)
    PROVE  TransferInv'
<1>1. NoneRunning /\ call[g].at = "woken" /\ UNCHANGED <<modeVars, stalled>>
  BY DEF Wakes
<1>2. ~stalled /\ ~stalled'
  BY <1>1, NoneRunningNoStall
<1>3. tls \/ registered
  BY <1>1 DEF TransferInv, DirectOnly, Running
<1>4. PICK at \in {"returned", "syscall"} : Moved(g, at)
  BY GoesMoves, ReturnsMoves DEF Wakes, TransferInv, Ats, Results
<1>5. at \in Ats /\ at \in Running /\ stalled' \in BOOLEAN
  BY <1>1 DEF Ats, Running, TransferInv, ModesOK
<1> QED BY <1>1, <1>2, <1>3, <1>4, <1>5, MoveKeeps

(* A system call returns, goes to the poll of a socket the hub has, or     *)
(* stalls an object that blocks.                                           *)
LEMMA SyscallKeeps ==
    ASSUME TransferInv, NEW g \in Greenlets, Syscall(g)
    PROVE  TransferInv'
<1>1. call[g].at = "syscall" /\ UNCHANGED modeVars
  BY DEF Syscall, SyscallReads, SyscallWrites, WouldBlock, Stalls, CannotGoOn
<1>2. ~tls /\ ~registered => call[g].direct /\ native = "zero"
  BY <1>1 DEF TransferInv, DirectOnly
<1>3. CASE SyscallReads(g)
  BY <1>1, <1>3, RunKeeps DEF SyscallReads, Results
<1>4. CASE SyscallWrites(g)
  <2>1. PICK all \in BOOLEAN : AfterWrite(g, all)
    BY <1>4 DEF SyscallWrites
  <2>2. \/ \E result \in Results : Returns(g, result)
        \/ Goes(g, "syscall")
        \/ Goes(g, "poll") /\ (tls \/ registered)
    BY <1>2, <2>1 DEF AfterWrite, Results
  <2> QED BY <1>1, <1>4, <2>2, RunKeeps DEF SyscallWrites
<1>5. CASE WouldBlock(g)
  <2>1. \/ \E result \in Results : Returns(g, result)
        \/ Goes(g, "poll") /\ (tls \/ registered)
    BY <1>5 DEF WouldBlock, Results
  <2> QED BY <1>1, <1>5, <2>1, RunKeeps DEF WouldBlock
<1>6. CASE Stalls(g)
  <2>1. CASE Returns(g, "timeout") /\ stalled' = FALSE
    BY <1>1, <2>1, RunKeeps DEF Results
  <2>2. CASE stalled' = TRUE /\ UNCHANGED call
    <3>1. native # "zero"
      BY <1>6 DEF Stalls
    <3>2. accepted \/ (tls /\ ~registered)
      BY <1>2, <3>1 DEF TransferInv, NativeOK, ModesOK
    <3>3. Moved(g, "syscall")
      BY <1>1, <2>2 DEF Moved, TransferInv, CallsOK
    <3> QED BY <1>1, <2>2, <3>1, <3>2, <3>3, MoveKeeps DEF Ats, Running
  <2> QED BY <1>6, <2>1, <2>2 DEF Stalls
<1> QED BY <1>3, <1>4, <1>5, <1>6 DEF Syscall

(* A greenlet that goes on has no call any more.                           *)
LEMMA GoesOnKeeps ==
    ASSUME TransferInv, NEW g \in Greenlets, GoesOn(g)
    PROVE  TransferInv'
<1>1. call[g].at = "returned" /\ UNCHANGED <<modeVars, stalled>>
      /\ call' = [call EXCEPT ![g] = NoCall]
  BY DEF GoesOn
<1>2. NoCall \in Calls /\ NoCall.at = "none"
  BY DEF NoCall, Calls, Ats, Results
<1>3. /\ call' \in [Greenlets -> Calls]
      /\ \A h \in Greenlets \ {g} : call'[h] = call[h]
      /\ call'[g].at = "none"
  BY <1>1, <1>2 DEF TransferInv, CallsOK
<1>4. CallsOK' /\ ModesOK' /\ NativeOK' /\ ThreadNeverStalls'
  BY <1>1, <1>3 DEF TransferInv, CallsOK, ModesOK, NativeOK, ThreadNeverStalls, modeVars
<1>5. OneRuns'
  BY <1>3 DEF TransferInv, OneRuns, Running
<1>6. DirectOnly'
  BY <1>1, <1>3 DEF TransferInv, DirectOnly, modeVars
<1>7. StallsSomebody'
  BY <1>1, <1>3 DEF TransferInv, StallsSomebody, modeVars
<1> QED BY <1>4, <1>5, <1>6, <1>7 DEF TransferInv

(* That a timeout is over moves no call.                                   *)
LEMMA ExpiresKeeps ==
    ASSUME TransferInv, NEW g \in Greenlets, Expires(g)
    PROVE  TransferInv'
<1>1. /\ call' \in [Greenlets -> Calls]
      /\ \A h \in Greenlets : call'[h].at = call[h].at /\ call'[h].direct = call[h].direct
  BY DEF Expires, TransferInv, CallsOK, Calls
<1> QED BY <1>1, MarkKeeps DEF Expires

(* TransferInv is inductive.                                               *)
LEMMA NextKeeps == ASSUME TransferInv, [Next]_vars PROVE TransferInv'
<1>1. CASE UNCHANGED vars
  BY <1>1, MarkKeeps DEF vars, modeVars, TransferInv, CallsOK
<1>2. CASE PeerSends \/ PeerTakes
  BY <1>2, MarkKeeps DEF PeerSends, PeerTakes, TransferInv, CallsOK
<1>3. ASSUME NEW t \in Timeouts, SetTimeout(t) PROVE TransferInv'
  BY <1>3, SetTimeoutKeeps
<1>4. ASSUME NEW g \in Greenlets, NEW op \in IF tls THEN TlsOps ELSE PlainOps, Begin(g, op)
      PROVE  TransferInv'
  <2>1. op \in PlainOps \cup TlsOps /\ (op \in TlsOps <=> tls)
    BY <1>4 DEF PlainOps, TlsOps
  <2> QED BY <1>4, <2>1, BeginKeeps
<1>5. ASSUME NEW g \in Greenlets, KernelStep(g) \/ GreenletStep(g) \/ Expires(g)
      PROVE  TransferInv'
  BY <1>5, KernelKeeps, WakesKeeps, SyscallKeeps, GoesOnKeeps, ExpiresKeeps DEF GreenletStep
<1> QED BY <1>1, <1>2, <1>3, <1>4, <1>5 DEF Next

(* What each call waits for, and whether the C object may block: the       *)
(* invariant of every call of recv, send and their like.                   *)
THEOREM TransferInvariant == Spec => []TransferInv
BY InitOK, NextKeeps, PTL DEF Spec

(* However settimeout() and the calls of several greenlets interleave, no  *)
(* system call stops the thread, but of a socket that is as accept() left  *)
(* it and of a TLS socket the hub does not have.                           *)
THEOREM ThreadGoesOn == Spec => []ThreadNeverStalls
<1>1. TransferInv => ThreadNeverStalls
  BY DEF TransferInv
<1> QED BY <1>1, TransferInvariant, PTL
-----------------------------------------------------------------------------
(* What calls tell of the bytes.                                           *)

(* These raise a timeout only as long as the kernel has not taken all. *)
PartialOps == {"send_flags", "sendall_flags", "tls_send", "tls_sendall"}

(* Where a call c may be when the kernel has taken n of its bytes.         *)
PlaceOK(c, n) ==
    /\ c.at = "none" => n = 0
    /\ c.at # "none" => c.op \in IF tls THEN TlsOps ELSE PlainOps
    /\ c.at # "returned" => c.result = "none"
    /\ c.at = "hub" => c.op \in {"recv", "send"}
    /\ c.at = "poll" => c.op \notin {"recv", "send"}
    /\ c.at = "syscall" => c.direct \/ c.op \notin {"recv", "send"}
    /\ c.at = "woken" /\ c.op = "send" => n = Size
    /\ c.at \in {"poll", "woken", "syscall"} /\ c.op \in PartialOps => n < Size
    /\ c.result = "done" /\ c.op \in LoopOps \cup {"send"} => n = Size
    /\ c.result = "timeout" /\ c.op \in PartialOps => n < Size

BytesOK(g) == \E n \in 0..Size : sent[g] = Counting(n) /\ PlaceOK(call[g], n)

(* A plain call that has waited for its descriptor can go on, if nobody    *)
(* else reads or writes: nobody has taken what it has waited for. A        *)
(* blocking socket may write on in the same call.                          *)
PolledOK(g) ==
    ~shared /\ ~call[g].direct =>
        /\ call[g].result # "would_block"
        /\ ~tls /\ call[g].at \in {"woken", "syscall"} /\ call[g].op \notin {"recv", "send"} =>
            \/ IF call[g].op \in ReadOps THEN inbox > 0 ELSE outbox < MaxOut
            \/ call[g].at = "syscall" /\ native = "none"

(* One reads, and one of the others writes.                                *)
ApartOK ==
    ~shared =>
        /\ \A g \in Greenlets : InCall(g) => (call[g].op \in ReadOps <=> g = Reader)
        /\ \A g, h \in Greenlets \ {Reader} : InCall(g) /\ InCall(h) => g = h

ResultsInv ==
    /\ shared \in BOOLEAN /\ inbox \in Nat /\ outbox \in Nat /\ lost \subseteq {"recv"}
    /\ sent \in [Greenlets -> Seq(Nat)] /\ (~tls => pending = 0)
    /\ \A g \in Greenlets : BytesOK(g) /\ PolledOK(g)
    /\ ApartOK

(* The first n bytes are n bytes, and those after them come after them. *)
LEMMA CountingLen == ASSUME NEW n \in Nat PROVE Counting(n) \in Seq(Nat) /\ Len(Counting(n)) = n
BY DEF Counting

(* Taking n bytes after the first m makes it the first m + n.              *)
LEMMA CountingOn ==
    ASSUME NEW m \in Nat, NEW n \in Nat
    PROVE  Counting(m) \o [i \in 1..n |-> m + i] = Counting(m + n)
BY DEF Counting

(* A call gets to another place, and is otherwise as it was.               *)
LEMMA GoesTo ==
    ASSUME CallsOK, NEW g \in Greenlets, NEW at \in Ats, Goes(g, at)
    PROVE  /\ call'[g].at = at /\ call'[g].op = call[g].op /\ call'[g].direct = call[g].direct
           /\ call'[g].late = call[g].late /\ call'[g].result = call[g].result
           /\ \A h \in Greenlets \ {g} : call'[h] = call[h]
BY DEF CallsOK, Goes, Calls

(* A call returns with its result, and is otherwise as it was.             *)
LEMMA ReturnsTo ==
    ASSUME CallsOK, NEW g \in Greenlets, NEW result \in Results, Returns(g, result)
    PROVE  /\ call'[g].at = "returned" /\ call'[g].op = call[g].op /\ call'[g].direct = call[g].direct
           /\ call'[g].result = result
           /\ \A h \in Greenlets \ {g} : call'[h] = call[h]
BY DEF CallsOK, Returns, Calls

(* The bytes that a greenlet's call has got rid of. *)
LEMMA TakesMore ==
    ASSUME ResultsInv, NEW g \in Greenlets, NEW n \in 0..Size, sent[g] = Counting(n),
           NEW k \in Nat, n + k <= Size, Takes(g, k)
    PROVE  /\ sent'[g] = Counting(n + k) /\ n + k \in 0..Size
           /\ \A h \in Greenlets \ {g} : sent'[h] = sent[h]
           /\ sent' \in [Greenlets -> Seq(Nat)]
           /\ outbox' = outbox + k /\ outbox' \in Nat
<1>1. n \in Nat /\ Len(sent[g]) = n
  BY CountingLen, TransferAssumption
<1>2. sent' = [sent EXCEPT ![g] = @ \o [i \in 1..k |-> n + i]]
  BY <1>1 DEF Takes
<1>3. sent' = [sent EXCEPT ![g] = Counting(n + k)]
  BY <1>1, <1>2, CountingOn
<1>4. n + k \in Nat /\ n + k \in 0..Size
  BY <1>1, TransferAssumption
<1>5. Counting(n + k) \in Seq(Nat)
  BY <1>4, CountingLen
<1>6. outbox' = outbox + k /\ outbox' \in Nat /\ sent \in [Greenlets -> Seq(Nat)]
  BY DEF Takes, ResultsInv
<1> QED BY <1>3, <1>4, <1>5, <1>6

(* What another greenlet's call knows stays so: of those that wait for the *)
(* descriptor and do not share it, only the one that reads takes what has  *)
(* come, and only one of the others fills what is free.                    *)
LEMMA OthersKeep ==
    ASSUME ResultsInv, UNCHANGED modeVars, NEW g \in Greenlets, InCall(g),
           NEW h \in Greenlets \ {g}, call'[h] = call[h], sent'[h] = sent[h],
           ~tls /\ call[g].op \notin ReadOps /\ inbox > 0 => inbox' > 0,
           call[g].op \in ReadOps /\ outbox < MaxOut => outbox' < MaxOut
    PROVE  BytesOK(h)' /\ PolledOK(h)'
<1>1. BytesOK(h)'
  BY DEF ResultsInv, BytesOK, PlaceOK, modeVars
<1>2. PolledOK(h)'
  <2> SUFFICES ASSUME ~shared, ~call[h].direct
               PROVE  /\ call[h].result # "would_block"
                      /\ ~tls /\ call[h].at \in {"woken", "syscall"} /\ call[h].op \notin {"recv", "send"} =>
                          \/ IF call[h].op \in ReadOps THEN inbox' > 0 ELSE outbox' < MaxOut
                          \/ call[h].at = "syscall" /\ native = "none"
    BY DEF PolledOK, modeVars
  <2>1. PolledOK(h)
    BY DEF ResultsInv
  <2>2. CASE call[h].at \in {"woken", "syscall"}
    <3>1. InCall(h)
      BY <2>2 DEF InCall
    <3>2. call[h].op \in ReadOps => call[g].op \notin ReadOps
      BY <3>1 DEF ResultsInv, ApartOK
    <3>3. call[h].op \notin ReadOps => call[g].op \in ReadOps
      BY <3>1 DEF ResultsInv, ApartOK
    <3> QED BY <2>1, <3>2, <3>3 DEF PolledOK
  <2>3. CASE call[h].at \notin {"woken", "syscall"}
    BY <2>1, <2>3 DEF PolledOK
  <2> QED BY <2>2, <2>3
<1> QED BY <1>1, <1>2

(* A step of one greenlet's call. *)
LEMMA ResultStep ==
    ASSUME ResultsInv, UNCHANGED modeVars, NEW g \in Greenlets, InCall(g),
           \A h \in Greenlets \ {g} : call'[h] = call[h] /\ sent'[h] = sent[h],
           call'[g].op = call[g].op \/ call'[g].at = "none",
           inbox' \in Nat, outbox' \in Nat, lost' \subseteq {"recv"}, sent' \in [Greenlets -> Seq(Nat)],
           ~tls => pending' = pending,
           ~tls /\ call[g].op \notin ReadOps /\ inbox > 0 => inbox' > 0,
           call[g].op \in ReadOps /\ outbox < MaxOut => outbox' < MaxOut,
           BytesOK(g)', PolledOK(g)'
    PROVE  ResultsInv'
<1>1. \A h \in Greenlets \ {g} : BytesOK(h)' /\ PolledOK(h)'
  BY OthersKeep
<1>2. (\A h \in Greenlets : BytesOK(h) /\ PolledOK(h))'
  BY <1>1
<1>3. ApartOK'
  BY DEF ResultsInv, ApartOK, InCall, modeVars
<1> QED BY <1>2, <1>3 DEF ResultsInv, modeVars

(* Nobody has a call at first. *)
LEMMA ResultsInit == ASSUME Init PROVE ResultsInv
<1> USE DEF Init
<1>1. Counting(0) = <<>> /\ Counting(0) \in Seq(Nat)
  BY DEF Counting
<1>2. ASSUME NEW g \in Greenlets PROVE BytesOK(g) /\ PolledOK(g) /\ ~InCall(g)
  <2>1. /\ call[g].at = "none" /\ call[g].result = "none" /\ call[g].op = "none"
        /\ sent[g] = Counting(0)
    BY <1>1 DEF NoCall
  <2>2. PlaceOK(call[g], 0)
    BY <2>1 DEF PlaceOK, LoopOps, PartialOps
  <2> QED BY <2>1, <2>2, TransferAssumption DEF BytesOK, PolledOK, InCall
<1> QED BY <1>1, <1>2 DEF ResultsInv, ApartOK

(* Nothing of what calls know changes, but that more has come or is free,  *)
(* or a mark on a call.                                                    *)
LEMMA ResultsStay ==
    ASSUME ResultsInv, UNCHANGED <<modeVars, pending, sent, lost>>,
           inbox' \in Nat, outbox' \in Nat, inbox' >= inbox, outbox' <= outbox,
           \A g \in Greenlets :
                /\ call'[g].op = call[g].op /\ call'[g].at = call[g].at
                /\ call'[g].direct = call[g].direct /\ call'[g].result = call[g].result
    PROVE  ResultsInv'
<1>1. ASSUME NEW g \in Greenlets PROVE BytesOK(g)' /\ PolledOK(g)'
  <2>1. BytesOK(g) /\ PolledOK(g)
    BY DEF ResultsInv
  <2>2. \A n : PlaceOK(call[g], n) => PlaceOK(call[g], n)'
    BY DEF PlaceOK, modeVars
  <2>3. BytesOK(g)'
    BY <2>1, <2>2 DEF BytesOK
  <2>4. PolledOK(g)'
    BY <2>1, TransferAssumption DEF PolledOK, modeVars, ResultsInv
  <2> QED BY <2>3, <2>4
<1>2. ApartOK'
  BY DEF ResultsInv, ApartOK, InCall, modeVars
<1> QED BY <1>1, <1>2 DEF ResultsInv, modeVars

(* settimeout() is called when no call is between its poll and its write. *)
LEMMA SetTimeoutResults ==
    ASSUME ResultsInv, NEW t \in Timeouts, SetTimeout(t) PROVE ResultsInv'
<1> USE DEF SetTimeout
<1>1. ASSUME NEW g \in Greenlets PROVE BytesOK(g)' /\ PolledOK(g)'
  <2>1. BytesOK(g) /\ PolledOK(g) /\ call[g].at # "syscall"
    BY DEF ResultsInv, NoneRunning
  <2>2. BytesOK(g)'
    BY <2>1 DEF BytesOK, PlaceOK
  <2>3. PolledOK(g)'
    BY <2>1 DEF PolledOK, bufferVars
  <2> QED BY <2>2, <2>3
<1>2. ApartOK'
  BY DEF ResultsInv, ApartOK, InCall
<1> QED BY <1>1, <1>2 DEF ResultsInv, bufferVars

(* A call begins with nothing sent, alone if calls are kept apart. *)
LEMMA BeginResults ==
    ASSUME TransferInv, ResultsInv, NEW g \in Greenlets,
           NEW op \in IF tls THEN TlsOps ELSE PlainOps, Begin(g, op)
    PROVE  ResultsInv'
<1>1. /\ NoneRunning /\ ~InCall(g) /\ MayBegin(g, op)
      /\ UNCHANGED <<tls, shared, sent, lost, inbox, pending, outbox>>
  BY DEF Begin, bufferVars
<1>2. /\ call'[g].op = op /\ call'[g].at = Starts(op) /\ call'[g].direct = Direct
      /\ call'[g].result = "none"
      /\ \A h \in Greenlets \ {g} : call'[h] = call[h]
  BY DEF Begin, TransferInv, CallsOK
<1>3. sent[g] = Counting(0)
  <2>1. PICK n \in 0..Size : sent[g] = Counting(n) /\ PlaceOK(call[g], n)
    BY DEF ResultsInv, BytesOK
  <2>2. n = 0
    BY <1>1, <2>1 DEF PlaceOK, InCall
  <2> QED BY <2>1, <2>2
<1>4. BytesOK(g)'
  <2>1. PlaceOK(call'[g], 0)
    <3>1. /\ Starts(op) \in {"syscall", "hub", "poll"}
          /\ Starts(op) = "hub" => op \in {"recv", "send"}
          /\ Starts(op) = "poll" => op \notin {"recv", "send"}
          /\ Starts(op) = "syscall" => Direct
      BY DEF Starts
    <3>2. PICK c : c = call'[g]
      OBVIOUS
    <3>3. /\ c.op = op /\ c.at = Starts(op) /\ c.result = "none"
          /\ c.at = "syscall" => c.direct
      BY <1>2, <3>1, <3>2
    <3>4. PlaceOK(c, 0)
      BY <3>1, <3>3, TransferAssumption DEF PlaceOK
    <3> QED BY <3>2, <3>4
  <2>2. PlaceOK(call[g], 0)'
    BY <1>1, <2>1 DEF PlaceOK
  <2> QED BY <1>1, <1>3, <2>2, TransferAssumption DEF BytesOK
<1>5. PolledOK(g)'
  BY <1>2 DEF PolledOK, Starts
<1>6. ASSUME NEW h \in Greenlets \ {g} PROVE BytesOK(h)' /\ PolledOK(h)'
  <2>1. BytesOK(h) /\ PolledOK(h) /\ call[h].at # "syscall"
    BY <1>1 DEF ResultsInv, NoneRunning
  <2>2. BytesOK(h)'
    BY <1>1, <1>2, <2>1 DEF BytesOK, PlaceOK
  <2>3. PolledOK(h)'
    BY <1>1, <1>2, <2>1 DEF PolledOK
  <2> QED BY <2>2, <2>3
<1>7. ApartOK'
  <2> SUFFICES ASSUME ~shared
               PROVE  /\ \A h \in Greenlets : InCall(h)' => (call'[h].op \in ReadOps <=> h = Reader)
                      /\ \A h, k \in Greenlets \ {Reader} : InCall(h)' /\ InCall(k)' => h = k
    BY <1>1 DEF ApartOK
  <2>1. /\ op \in ReadOps <=> g = Reader
        /\ \A h \in Greenlets \ {Reader, g} : g = Reader \/ ~InCall(h)
    BY <1>1 DEF MayBegin
  <2> QED BY <1>2, <2>1 DEF ResultsInv, ApartOK, InCall
<1> QED BY <1>1, <1>4, <1>5, <1>6, <1>7 DEF ResultsInv

(* What is known of a greenlet's call that is in it. *)
LEMMA PlaceKnown ==
    ASSUME TransferInv, ResultsInv, NEW g \in Greenlets
    PROVE  \E n \in 0..Size :
             /\ sent[g] = Counting(n) /\ Len(sent[g]) = n /\ PlaceOK(call[g], n)
             /\ n \in Nat /\ (Reads(g) <=> call[g].op \in ReadOps \/ (call[g].op = "tls_handshake" /\ n = Size))
<1>1. PICK n \in 0..Size : sent[g] = Counting(n) /\ PlaceOK(call[g], n)
  BY DEF ResultsInv, BytesOK
<1>2. n \in Nat /\ Len(sent[g]) = n
  BY <1>1, CountingLen, TransferAssumption
<1> QED BY <1>1, <1>2 DEF Reads

(* The new place of a call is one where it may be. *)
LEMMA Placed ==
    ASSUME NEW g \in Greenlets, NEW n \in 0..Size, sent'[g] = Counting(n), tls' = tls,
           PlaceOK(call'[g], n)
    PROVE  BytesOK(g)'
<1>1. PlaceOK(call[g], n)'
  BY DEF PlaceOK
<1> QED BY <1>1 DEF BytesOK

(* The hub ends a wait: a recv has its bytes, a send is through, a poll    *)
(* has seen what it waits for.                                             *)
LEMMA KernelResults ==
    ASSUME TransferInv, ResultsInv, NEW g \in Greenlets, KernelStep(g)
    PROVE  ResultsInv'
<1>1. PICK n \in 0..Size : /\ sent[g] = Counting(n) /\ Len(sent[g]) = n /\ PlaceOK(call[g], n) /\ n \in Nat
                           /\ Reads(g) <=> call[g].op \in ReadOps \/ (call[g].op = "tls_handshake" /\ n = Size)
  BY PlaceKnown
<1>2. CASE HubReceives(g)
  <2> USE <1>2 DEF HubReceives
  <2>1. /\ call'[g].at = "woken" /\ call'[g].op = "recv" /\ call'[g].direct = call[g].direct
        /\ call'[g].result = call[g].result /\ call[g].result = "none"
        /\ \A h \in Greenlets \ {g} : call'[h] = call[h]
    BY <1>1, GoesTo DEF TransferInv, Ats, PlaceOK
  <2>2. PlaceOK(call'[g], n)
    BY <1>1, <2>1 DEF PlaceOK, PartialOps
  <2>3. BytesOK(g)'
    BY <1>1, <2>2, Placed DEF modeVars
  <2>4. PolledOK(g)'
    BY <2>1 DEF PolledOK
  <2>5. inbox' \in Nat
    BY DEF ResultsInv
  <2> QED BY <2>1, <2>3, <2>4, <2>5, ResultStep DEF ResultsInv, InCall, ReadOps
<1>3. CASE HubSends(g)
  <2>1. PICK k \in Portions(g) :
          /\ Takes(g, k)
          /\ IF n + k = Size THEN Goes(g, "woken") ELSE UNCHANGED call
    BY <1>1, <1>3 DEF HubSends
  <2>2. k \in Nat /\ k >= 1 /\ n + k <= Size
    BY <1>1, <2>1, TransferAssumption DEF Portions
  <2>3. /\ sent'[g] = Counting(n + k) /\ n + k \in 0..Size
        /\ \A h \in Greenlets \ {g} : sent'[h] = sent[h]
        /\ sent' \in [Greenlets -> Seq(Nat)] /\ outbox' \in Nat
    BY <1>1, <2>1, <2>2, TakesMore
  <2>4. /\ call'[g].at = (IF n + k = Size THEN "woken" ELSE "hub")
        /\ call'[g].op = "send" /\ call'[g].direct = call[g].direct
        /\ call'[g].result = "none"
        /\ \A h \in Greenlets \ {g} : call'[h] = call[h]
    BY <1>1, <1>3, <2>1, GoesTo DEF HubSends, TransferInv, Ats, PlaceOK
  <2>5. PlaceOK(call'[g], n + k)
    BY <1>1, <1>3, <2>4 DEF PlaceOK, PartialOps, HubSends
  <2>6. BytesOK(g)'
    BY <1>3, <2>3, <2>5, Placed DEF HubSends, modeVars
  <2>7. PolledOK(g)'
    BY <2>4 DEF PolledOK
  <2> QED BY <1>3, <2>3, <2>4, <2>6, <2>7, ResultStep DEF HubSends, ResultsInv, InCall, ReadOps
<1>4. CASE PollEnds(g)
  <2> USE <1>4 DEF PollEnds, bufferVars
  <2>1. /\ call'[g].at = "woken" /\ call'[g].op = call[g].op /\ call'[g].direct = call[g].direct
        /\ call'[g].result = call[g].result /\ call[g].result = "none"
        /\ \A h \in Greenlets \ {g} : call'[h] = call[h]
    BY <1>1, GoesTo DEF TransferInv, Ats, PlaceOK
  <2>2. PlaceOK(call'[g], n)
    BY <1>1, <2>1 DEF PlaceOK
  <2>3. BytesOK(g)'
    BY <1>1, <2>2, Placed DEF modeVars
  <2>4. PolledOK(g)'
    <3>1. ~tls => (Reads(g) <=> call[g].op \in ReadOps)
      BY <1>1 DEF PlaceOK, PlainOps
    <3> QED BY <2>1, <3>1 DEF PolledOK, modeVars
  <2> QED BY <2>1, <2>3, <2>4, ResultStep DEF ResultsInv, InCall
<1> QED BY <1>2, <1>3, <1>4 DEF KernelStep

(* A greenlet that runs again finds its deadline passed, or goes on. *)
LEMMA WakesResults ==
    ASSUME TransferInv, ResultsInv, NEW g \in Greenlets, Wakes(g)
    PROVE  ResultsInv'
<1> USE DEF Wakes, bufferVars
<1>1. PICK n \in 0..Size : sent[g] = Counting(n) /\ PlaceOK(call[g], n)
  BY PlaceKnown
<1>2. /\ call[g].result = "none" /\ call[g].at = "woken"
      /\ call'[g].op = call[g].op /\ call'[g].direct = call[g].direct
      /\ \A h \in Greenlets \ {g} : call'[h] = call[h]
      /\ \/ call'[g].at = "returned" /\ call'[g].result = "timeout"
         \/ call'[g].at = "returned" /\ call'[g].result = "done" /\ call[g].op \in {"recv", "send"}
         \/ call'[g].at = "syscall" /\ call'[g].result = "none" /\ call[g].op \notin {"recv", "send"}
  BY <1>1, GoesTo, ReturnsTo DEF TransferInv, Ats, Results, PlaceOK
<1>3. PlaceOK(call'[g], n)
  BY <1>1, <1>2 DEF PlaceOK, LoopOps, PartialOps
<1>4. BytesOK(g)'
  BY <1>1, <1>3, Placed DEF modeVars
<1>5. PolledOK(g)'
  <2>1. PolledOK(g)
    BY DEF ResultsInv
  <2> QED BY <1>2, <2>1 DEF PolledOK, modeVars
<1>6. lost' \subseteq {"recv"}
  BY DEF ResultsInv
<1> QED BY <1>2, <1>4, <1>5, <1>6, ResultStep DEF ResultsInv, InCall

(* The greenlet goes on. *)
LEMMA GoesOnResults ==
    ASSUME TransferInv, ResultsInv, NEW g \in Greenlets, GoesOn(g)
    PROVE  ResultsInv'
<1> USE DEF GoesOn, bufferVars
<1>1. Counting(0) = <<>> /\ <<>> \in Seq(Nat)
  BY DEF Counting
<1>2. /\ call'[g].at = "none" /\ call'[g].result = "none" /\ call'[g].op = "none"
      /\ \A h \in Greenlets \ {g} : call'[h] = call[h] /\ sent'[h] = sent[h]
      /\ sent'[g] = Counting(0) /\ sent' \in [Greenlets -> Seq(Nat)]
  BY <1>1 DEF TransferInv, CallsOK, NoCall, ResultsInv
<1>3. PlaceOK(call'[g], 0)
  BY <1>2 DEF PlaceOK
<1>4. BytesOK(g)'
  BY <1>2, <1>3, Placed, TransferAssumption DEF modeVars
<1>5. PolledOK(g)'
  BY <1>2 DEF PolledOK
<1> QED BY <1>2, <1>4, <1>5, ResultStep DEF ResultsInv, InCall

(* A system call reads, and the call has its bytes. *)
LEMMA SyscallReadsResults ==
    ASSUME TransferInv, ResultsInv, NEW g \in Greenlets, SyscallReads(g)
    PROVE  ResultsInv'
<1> USE DEF SyscallReads
<1>1. PICK n \in 0..Size : /\ sent[g] = Counting(n) /\ Len(sent[g]) = n /\ PlaceOK(call[g], n) /\ n \in Nat
                           /\ Reads(g) <=> call[g].op \in ReadOps \/ (call[g].op = "tls_handshake" /\ n = Size)
  BY PlaceKnown
<1>2. /\ call'[g].at = "returned" /\ call'[g].op = call[g].op /\ call'[g].result = "done"
      /\ \A h \in Greenlets \ {g} : call'[h] = call[h]
  BY ReturnsTo DEF TransferInv, Results
<1>3. PlaceOK(call'[g], n)
  BY <1>1, <1>2 DEF PlaceOK, ReadOps, LoopOps
<1>4. BytesOK(g)'
  BY <1>1, <1>3, Placed DEF modeVars
<1>5. PolledOK(g)'
  BY <1>2 DEF PolledOK
<1>6. inbox' \in Nat /\ (~tls => pending' = pending)
  BY DEF ResultsInv
<1>7. ~tls => call[g].op \in ReadOps
  BY <1>1 DEF PlaceOK, PlainOps
<1> QED BY <1>2, <1>4, <1>5, <1>6, <1>7, ResultStep DEF ResultsInv, InCall

(* A system call writes: what is left to do, and what has been written.    *)
LEMMA SyscallWritesResults ==
    ASSUME TransferInv, ResultsInv, NEW g \in Greenlets, SyscallWrites(g)
    PROVE  ResultsInv'
<1>1. PICK n \in 0..Size : /\ sent[g] = Counting(n) /\ Len(sent[g]) = n /\ PlaceOK(call[g], n) /\ n \in Nat
                           /\ Reads(g) <=> call[g].op \in ReadOps \/ (call[g].op = "tls_handshake" /\ n = Size)
  BY PlaceKnown
<1>2. PICK k \in Portions(g) : Takes(g, k) /\ AfterWrite(g, n + k = Size)
  BY <1>1 DEF SyscallWrites
<1>3. k \in Nat /\ k >= 1 /\ n + k <= Size /\ Size \in Nat
  BY <1>1, <1>2, TransferAssumption DEF Portions
<1>4. /\ sent'[g] = Counting(n + k) /\ n + k \in 0..Size
      /\ \A h \in Greenlets \ {g} : sent'[h] = sent[h]
      /\ sent' \in [Greenlets -> Seq(Nat)] /\ outbox' \in Nat
  BY <1>1, <1>2, <1>3, TakesMore
<1>5. /\ call[g].at = "syscall" /\ call[g].op \notin ReadOps /\ call[g].result = "none"
      /\ UNCHANGED <<modeVars, inbox, pending, lost>>
  BY <1>1 DEF SyscallWrites, PlaceOK
<1>6. /\ call'[g].op = call[g].op /\ call'[g].direct = call[g].direct
      /\ \A h \in Greenlets \ {g} : call'[h] = call[h]
      /\ \/ /\ call'[g].at = "syscall" /\ call'[g].result = "none" /\ n + k < Size
            /\ native = "none" \/ call[g].direct
         \/ call'[g].at = "syscall" /\ call'[g].result = "none" /\ call[g].op = "tls_handshake"
         \/ call'[g].at = "poll" /\ call'[g].result = "none" /\ n + k < Size /\ call[g].op \in LoopOps
         \/ call'[g].at = "returned" /\ call'[g].result = "count"
         \/ call'[g].at = "returned" /\ call'[g].result = "done" /\ n + k = Size
         \/ call'[g].at = "returned" /\ call'[g].result = "timeout" /\ n + k < Size
  <2>1. n + k # Size => n + k < Size
    BY <1>1, <1>3
  <2>2. \A at \in {"syscall", "poll"} : Goes(g, at) =>
            /\ call'[g].at = at /\ call'[g].op = call[g].op /\ call'[g].direct = call[g].direct
            /\ call'[g].result = "none" /\ \A h \in Greenlets \ {g} : call'[h] = call[h]
    BY <1>5, GoesTo DEF TransferInv, Ats
  <2>3. \A result \in {"count", "done", "timeout"} : Returns(g, result) =>
            /\ call'[g].at = "returned" /\ call'[g].op = call[g].op /\ call'[g].direct = call[g].direct
            /\ call'[g].result = result /\ \A h \in Greenlets \ {g} : call'[h] = call[h]
    BY ReturnsTo DEF TransferInv, Results
  <2> QED BY <1>2, <2>1, <2>2, <2>3 DEF AfterWrite
<1>7. PlaceOK(call'[g], n + k)
  BY <1>1, <1>3, <1>5, <1>6 DEF PlaceOK, PartialOps, LoopOps
<1>8. BytesOK(g)'
  BY <1>4, <1>5, <1>7, Placed DEF modeVars
<1>9. PolledOK(g)'
  <2>1. call[g].op = "tls_handshake" => tls
    BY <1>1, <1>5 DEF PlaceOK, PlainOps
  <2> QED BY <1>5, <1>6, <2>1 DEF PolledOK, modeVars
<1>10. inbox' \in Nat /\ lost' \subseteq {"recv"}
  BY <1>5 DEF ResultsInv
<1> QED BY <1>4, <1>5, <1>6, <1>8, <1>9, <1>10, ResultStep DEF InCall

(* It would block; of a plain call that has waited, only when others have  *)
(* taken what it waited for.                                               *)
LEMMA WouldBlockResults ==
    ASSUME TransferInv, ResultsInv, NEW g \in Greenlets, WouldBlock(g)
    PROVE  ResultsInv'
<1> USE DEF bufferVars
<1>1. PICK n \in 0..Size : /\ sent[g] = Counting(n) /\ Len(sent[g]) = n /\ PlaceOK(call[g], n) /\ n \in Nat
                           /\ Reads(g) <=> call[g].op \in ReadOps \/ (call[g].op = "tls_handshake" /\ n = Size)
  BY PlaceKnown
<1>2. call[g].at = "syscall" /\ call[g].result = "none" /\ UNCHANGED <<modeVars, bufferVars, sent, lost>>
  BY <1>1 DEF WouldBlock, CannotGoOn, PlaceOK
<1>3. /\ call'[g].op = call[g].op /\ call'[g].direct = call[g].direct
      /\ \A h \in Greenlets \ {g} : call'[h] = call[h]
      /\ \/ call'[g].at = "returned" /\ call'[g].result = "would_block" /\ ~tls
         \/ call'[g].at = "returned" /\ call'[g].result = "timeout" /\ tls
         \/ call'[g].at = "poll" /\ call'[g].result = "none" /\ tls
  BY <1>2, GoesTo, ReturnsTo DEF WouldBlock, TransferInv, Ats, Results
<1>4. tls => call[g].op \notin {"recv", "send"}
  BY <1>1, <1>2 DEF PlaceOK, TlsOps
<1>5. PlaceOK(call'[g], n)
  BY <1>1, <1>2, <1>3, <1>4 DEF PlaceOK
<1>6. BytesOK(g)'
  BY <1>1, <1>2, <1>5, Placed DEF modeVars
<1>7. PolledOK(g)'
  <2>1. CASE tls
    BY <1>2, <1>3, <2>1 DEF PolledOK, modeVars
  <2>2. CASE ~tls
    <3>1. Reads(g) <=> call[g].op \in ReadOps
      BY <1>1, <1>2, <2>2 DEF PlaceOK, PlainOps
    <3>2. IF call[g].op \in ReadOps THEN ~(inbox > 0) ELSE ~(outbox < MaxOut)
      BY <3>1, TransferAssumption DEF WouldBlock, CannotGoOn, CanRead
    <3>3. native = "zero"
      BY DEF WouldBlock
    <3>4. ~call[g].direct => call[g].op \notin {"recv", "send"}
      BY <1>1, <1>2 DEF PlaceOK
    <3>5. shared \/ call[g].direct
      BY <1>2, <2>2, <3>2, <3>3, <3>4 DEF ResultsInv, PolledOK
    <3> QED BY <1>2, <1>3, <3>5 DEF PolledOK, modeVars
  <2> QED BY <2>1, <2>2
<1> QED BY <1>2, <1>3, <1>6, <1>7, ResultStep DEF ResultsInv, InCall

(* The C object waits, and gives up. *)
LEMMA StallsResults ==
    ASSUME TransferInv, ResultsInv, NEW g \in Greenlets, Stalls(g)
    PROVE  ResultsInv'
<1> USE DEF bufferVars
<1>1. PICK n \in 0..Size : sent[g] = Counting(n) /\ PlaceOK(call[g], n)
  BY PlaceKnown
<1>2. call[g].at = "syscall" /\ UNCHANGED <<modeVars, bufferVars, sent, lost>>
  BY DEF Stalls, CannotGoOn
<1>3. CASE UNCHANGED call
  BY <1>2, <1>3, ResultsStay DEF ResultsInv
<1>4. CASE Returns(g, "timeout")
  <2>1. /\ call'[g].at = "returned" /\ call'[g].op = call[g].op /\ call'[g].result = "timeout"
        /\ \A h \in Greenlets \ {g} : call'[h] = call[h]
    BY <1>4, ReturnsTo DEF TransferInv, Results
  <2>2. PlaceOK(call'[g], n)
    BY <1>1, <1>2, <2>1 DEF PlaceOK
  <2>3. BytesOK(g)'
    BY <1>1, <1>2, <2>2, Placed DEF modeVars
  <2>4. PolledOK(g)'
    BY <2>1 DEF PolledOK
  <2> QED BY <1>2, <2>1, <2>3, <2>4, ResultStep DEF ResultsInv, InCall
<1> QED BY <1>3, <1>4 DEF Stalls

(* Every step keeps what the calls know of their bytes. *)
LEMMA ResultsNext == ASSUME TransferInv, ResultsInv, [Next]_vars PROVE ResultsInv'
<1>1. CASE UNCHANGED vars
  BY <1>1, ResultsStay DEF vars, modeVars, ResultsInv
<1>2. CASE PeerSends \/ PeerTakes
  BY <1>2, ResultsStay DEF PeerSends, PeerTakes, ResultsInv
<1>3. ASSUME NEW t \in Timeouts, SetTimeout(t) PROVE ResultsInv'
  BY <1>3, SetTimeoutResults
<1>4. ASSUME NEW g \in Greenlets, NEW op \in IF tls THEN TlsOps ELSE PlainOps, Begin(g, op)
      PROVE  ResultsInv'
  BY <1>4, BeginResults
<1>5. ASSUME NEW g \in Greenlets, Expires(g) PROVE ResultsInv'
  <2>1. \A h \in Greenlets :
            /\ call'[h].op = call[h].op /\ call'[h].at = call[h].at
            /\ call'[h].direct = call[h].direct /\ call'[h].result = call[h].result
    BY <1>5 DEF Expires, TransferInv, CallsOK, Calls
  <2> QED BY <1>5, <2>1, ResultsStay DEF Expires, bufferVars, ResultsInv
<1>6. ASSUME NEW g \in Greenlets, KernelStep(g) \/ GreenletStep(g)
      PROVE  ResultsInv'
  BY <1>6, KernelResults, WakesResults, GoesOnResults, SyscallReadsResults, SyscallWritesResults,
     WouldBlockResults, StallsResults DEF GreenletStep, Syscall
<1> QED BY <1>1, <1>2, <1>3, <1>4, <1>5, <1>6 DEF Next

(* That is what ResultsTrue says of the calls that have returned. *)
LEMMA ResultsTrueFollows == ASSUME TransferInv, ResultsInv PROVE ResultsTrue
<1>1. ASSUME NEW g \in Greenlets
      PROVE  /\ sent[g] = Counting(Len(sent[g]))
             /\ call[g].result = "done" /\ call[g].op \in LoopOps \cup {"send"} => Len(sent[g]) = Size
             /\ call[g].result = "timeout" /\ call[g].op \notin ReadOps \cup {"send", "tls_handshake"}
                   => Len(sent[g]) < Size
             /\ call[g].result = "would_block" /\ ~shared => call[g].direct
  <2>1. PICK n \in 0..Size : sent[g] = Counting(n) /\ Len(sent[g]) = n /\ PlaceOK(call[g], n)
    BY PlaceKnown
  <2>2. call[g].result # "none" => call[g].at = "returned" /\ call[g].op \in PlainOps \cup TlsOps
    BY <2>1 DEF PlaceOK
  <2>3. call[g].op \in PlainOps \cup TlsOps =>
            (call[g].op \in PartialOps <=> call[g].op \notin ReadOps \cup {"send", "tls_handshake"})
    BY DEF PlainOps, TlsOps, PartialOps, ReadOps
  <2> QED BY <2>1, <2>2, <2>3 DEF PlaceOK, ResultsInv, PolledOK
<1> QED BY <1>1 DEF ResultsTrue, ResultsInv

(* What the kernel has taken of each call, and what a call that has waited *)
(* may count on: beside what it waits for, an invariant of all calls.      *)
THEOREM ResultsInvariant == Spec => []ResultsInv
<1>1. Init => ResultsInv
  BY ResultsInit
<1>2. TransferInv /\ ResultsInv /\ [Next]_vars => ResultsInv'
  BY ResultsNext
<1> QED BY <1>1, <1>2, TransferInvariant, PTL DEF Spec

(* What calls return is so: bytes are sent in order and once, all of them  *)
(* when a call is done, not all when it raises a timeout that lets it be   *)
(* made again; and who waits for a descriptor of its own need not again.   *)
THEOREM ResultsHold == Spec => []ResultsTrue
BY ResultsInvariant, TransferInvariant, ResultsTrueFollows, PTL
=============================================================================
