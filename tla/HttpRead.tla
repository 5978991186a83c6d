------------------------------- MODULE HttpRead -------------------------------
(***************************************************************************)
(* Reading requests and answering them: _handle_connection in              *)
(* src/theframework/server.py, http_read_request in src/src/hub.zig, the   *)
(* connection's InputBuffer (src/src/input_buffer.zig), the hub's          *)
(* BufferRecycler (src/src/buffer_recycler.zig), the connection's arena as *)
(* far as the parser's header array goes, and the life of a request object *)
(* (src/src/lazy_request.zig), which points into both.                     *)
(*                                                                         *)
(* A byte is the client that sent it and its position in what that client  *)
(* sends: the parser is abstracted to the sizes of a request, the buffer   *)
(* is modelled offset by offset.  The connections of a hub interleave      *)
(* where a greenlet waits (recv, send, the handler's own waits) and share  *)
(* the recycler.  ReadRequest follows its predecessor without a wait in    *)
(* the code: a step of its own adds interleavings and loses none.  What a  *)
(* completion does to a connection is HubConns.                            *)
(***************************************************************************)
EXTENDS Integers, Sequences

CONSTANTS
  Conns,      \* the connections of the pool
  Clients,    \* the clients, each of which connects once
  Buffers,    \* the allocations the recycler may hold or lend at one time
  Inline,     \* INLINE_BUF_SIZE
  RecvSize,   \* RECV_SIZE
  Sizes,      \* the recycler's size classes, 2^MIN_POWER .. 2^MAX_POWER
  MaxHeader,  \* max_header_size
  MaxBody,    \* max_body_size
  Scripts,    \* what a client may send: requests, where each one ends, and the
              \* number of bytes of them it sends before it closes its side
  None        \* null

\* What can be wrong with a request: the parser refuses it ("head" is then where
\* it finds the fault), a header is not accepted, the path is not UTF-8.
Flaws == {"none", "syntax", "header", "path"}
Request == [head : Nat \ {0}, body : Nat, keep : BOOLEAN, flaw : Flaws]

Total(r) == r.head + r.body

\* The number of bytes in the first n requests of a script.
EndOf(script, n) == IF n = 0 THEN 0 ELSE script.ends[n]

IsScript(script) ==
  /\ script \in [requests : Seq(Request), ends : Seq(Nat), bytes : Nat]
  /\ Len(script.ends) = Len(script.requests)
  /\ \A i \in 1..Len(script.requests) :
       script.ends[i] = EndOf(script, i - 1) + Total(script.requests[i])
  /\ script.bytes <= EndOf(script, Len(script.requests))

\* What has become of a client: the script it follows, the bytes that were received
\* and those that were consumed, the requests taken, and the answers it was sent.
Statuses == {200, 400, 413, 431, 500}
ClientStates == [script : Scripts, received : Nat, consumed : Nat, taken : Nat,
                 answers : Seq(Statuses)]

ASSUME HttpAssumption ==
  /\ Conns \cap Buffers = {} /\ None \notin Conns \cup Clients \cup Buffers \cup ClientStates
  /\ Inline \in Sizes /\ RecvSize \in Nat \ {0}
  /\ MaxHeader \in Nat /\ MaxBody \in Nat
  /\ Sizes \subseteq Nat \ {0} /\ \E largest \in Sizes : \A s \in Sizes : s <= largest
  /\ \A script \in Scripts : IsScript(script)

\* The recycler's largest class has room for a request at both limits and one
\* more receive.  Nothing in the source asks this of a configuration.
LimitsFit == \E s \in Sizes : s >= MaxHeader + MaxBody + RecvSize

VARIABLES
  input,    \* Connection.input
  arena,    \* Connection.arena: the header arrays it holds
  bins,     \* BufferRecycler.bins
  size,     \* the allocator: the size of an allocation, 0 when it is free
  request,  \* the request object of a connection while its pointers are set
  pc,       \* where _handle_connection stands
  serving,  \* the client of a connection
  client,   \* what a client sends, and what has become of it
  up        \* the hub's loop has not failed

bufferVars == <<input, arena, bins, size>>
vars == <<bufferVars, request, pc, serving, client, up>>

-------------------------------------------------------------------------------
(* InputBuffer.  "data" is the content of the buffer the connection has now. *)

Junk == <<None, 0>>
Blank(cap) == [i \in 0..(cap - 1) |-> Junk]

Input(b, cap, rd, wr, data) ==
  [buf |-> b, cap |-> cap, rd |-> rd, wr |-> wr, data |-> data]

InlineBuffer(c) == Input(c, Inline, 0, 0, Blank(Inline))

UnconsumedLen(in) == in.wr - in.rd

commitWrite(in, bytes) ==
  Input(in.buf, in.cap, in.rd, in.wr + Len(bytes),
        [i \in DOMAIN in.data |-> IF i \in in.wr..(in.wr + Len(bytes) - 1)
                                  THEN bytes[i - in.wr + 1] ELSE in.data[i]])

consume(in, n) == Input(in.buf, in.cap, in.rd + n, in.wr, in.data)

(* Mutant: grow and compact copy from the start of the buffer.                *)
MovedFromStart(data, in) ==
  [i \in DOMAIN data |-> IF i < UnconsumedLen(in) THEN in.data[i] ELSE data[i]]

\* The unconsumed bytes of "in" at the front of "data".
MovedTo(data, in) ==
  [i \in DOMAIN data |-> IF i < UnconsumedLen(in) THEN in.data[in.rd + i] ELSE data[i]]

compact(in) == Input(in.buf, in.cap, 0, UnconsumedLen(in), MovedTo(in.data, in))

(* Mutant: only the write position is reset.                                  *)
ResetsWriteOnly(in) ==
  IF in.rd = in.wr THEN [in EXCEPT !.wr = 0]
  ELSE IF in.rd > in.cap \div 2 THEN compact(in) ELSE in

resetForNewRequest(in) ==
  IF in.rd = in.wr THEN Input(in.buf, in.cap, 0, 0, in.data)
  ELSE IF in.rd > in.cap \div 2 THEN compact(in) ELSE in

\* What recv is offered: the free space, but no more than RECV_SIZE.
RecvLen(in) == IF in.cap - in.wr < RecvSize THEN in.cap - in.wr ELSE RecvSize

-------------------------------------------------------------------------------
(* BufferRecycler.  A bin is a set: which buffer of a class is popped does   *)
(* not matter, only that it has the size of the class.                       *)

\* sizeToPower: the smallest class that holds n, or the largest there is.
SizeClass(n) ==
  CHOOSE s \in Sizes :
    IF \E t \in Sizes : t >= n
    THEN s >= n /\ \A t \in Sizes : t >= n => s <= t
    ELSE \A t \in Sizes : t <= s

\* The buffers acquire may return for class s: one of the bin, else a malloc.
Available(s) == IF bins[s] # {} THEN bins[s] ELSE {b \in Buffers : size[b] = 0}

(* Mutant: what is released is the part of the buffer that was written.       *)
ReleaseWritten(c, in, cached, allocated) ==
  IF in.buf = c
  THEN bins' = cached /\ size' = allocated
  ELSE \/ /\ bins' = [cached EXCEPT ![SizeClass(in.wr)] = @ \cup {in.buf}]
          /\ size' = allocated
       \/ /\ bins' = cached
          /\ size' = [allocated EXCEPT ![in.buf] = 0]

\* release takes back the buffer of "in", unless it is inline, when the bins and
\* the allocations are "cached" and "allocated".  If its bin cannot grow, the
\* buffer is freed.
Release(c, in, cached, allocated) ==
  IF in.buf = c
  THEN bins' = cached /\ size' = allocated
  ELSE \/ /\ bins' = [cached EXCEPT ![SizeClass(in.cap)] = @ \cup {in.buf}]
          /\ size' = allocated
       \/ /\ bins' = cached
          /\ size' = [allocated EXCEPT ![in.buf] = 0]

grow(c, in) ==
  LET s == SizeClass(UnconsumedLen(in) + RecvSize)
  IN \E b \in Available(s) :
       /\ input' = [input EXCEPT ![c] =
            Input(b, s, 0, UnconsumedLen(in), MovedTo(Blank(s), in))]
       /\ Release(c, in, [bins EXCEPT ![s] = @ \ {b}], [size EXCEPT ![b] = s])

(* Mutant: any free space will do.                                            *)
FitsSome(in) == in.cap - in.wr > 0

Fits(in) == in.cap - in.wr >= RecvSize
CompactFits(in) == in.rd > 0 /\ UnconsumedLen(in) + RecvSize <= in.cap

reserveFree(c, in) ==
  \/ /\ Fits(in) \/ CompactFits(in)
     /\ input' = [input EXCEPT ![c] = IF Fits(in) THEN in ELSE compact(in)]
     /\ UNCHANGED <<bins, size>>
  \/ ~Fits(in) /\ ~CompactFits(in) /\ grow(c, in)

-------------------------------------------------------------------------------
(* One call of http_read_request.  "in" and "cl" are the input buffer and the *)
(* client as they are when the code gets there.                               *)

\* The request whose first byte is the first that is not consumed.
NextRequest(cl) == cl.script.requests[cl.taken + 1]

(* Mutant: the size of the header is not checked.                             *)
ParseAnyHeader(cl, len) ==
  LET r == NextRequest(cl) IN
  IF len < r.head THEN "incomplete"
  ELSE IF r.flaw \in {"syntax", "header"} THEN "invalid"
  ELSE IF r.body > MaxBody THEN "body_too_large"
  ELSE IF len < Total(r) THEN "incomplete"
  ELSE IF r.flaw = "path" THEN "invalid" ELSE "complete"

\* tryParse, and the decoding of the path in buildLazyRequest.
tryParse(cl, len) ==
  LET r == NextRequest(cl) IN
  IF len < r.head THEN "incomplete"
  ELSE IF r.flaw = "syntax" THEN "invalid"
  ELSE IF r.head > MaxHeader THEN "header_too_large"
  ELSE IF r.flaw = "header" THEN "invalid"
  ELSE IF r.body > MaxBody THEN "body_too_large"
  ELSE IF len < Total(r) THEN "incomplete"
  ELSE IF r.flaw = "path" THEN "invalid" ELSE "complete"

\* _handle_connection's except clauses: ValueError, RuntimeError.
StatusOf == [invalid |-> 400, header_too_large |-> 431, body_too_large |-> 413,
             request_too_large |-> 413]

Goto(c, p) == pc' = [pc EXCEPT ![c] = p]

\* An exception that _handle_connection answers.
Refuse(c, in, cl, why) ==
  /\ input' = [input EXCEPT ![c] = in]
  /\ client' = [client EXCEPT ![serving[c]] = [cl EXCEPT !.answers = Append(@, StatusOf[why])]]
  /\ Goto(c, "refuse")
  /\ UNCHANGED <<bins, size, request, up>>

\* RuntimeError("out of memory"), from reserveFree or the arena, is raised again
\* (a MemoryError of buildLazyRequest is not caught either): the connection is
\* closed, and the exception ends the hub's loop.
OutOfMemory(c, in, cl) ==
  /\ input' = [input EXCEPT ![c] = in]
  /\ client' = [client EXCEPT ![serving[c]] = cl]
  /\ Goto(c, "closing")
  /\ up' = FALSE
  /\ UNCHANGED <<bins, size, request>>

\* buildLazyRequest, then consume: the object points at the bytes consumed.
Deliver(c, in, cl) ==
  LET n == Total(NextRequest(cl)) IN
  /\ request' = [request EXCEPT ![c] =
       [buf |-> in.buf, at |-> in.rd, len |-> n, first |-> cl.consumed]]
  /\ input' = [input EXCEPT ![c] = consume(in, n)]
  /\ client' = [client EXCEPT ![serving[c]] =
       [cl EXCEPT !.taken = @ + 1, !.consumed = @ + n]]
  /\ Goto(c, "handler")
  /\ UNCHANGED <<bins, size, up>>

\* reserveFree and doRecv, which suspends the greenlet.
StartRecv(c, in, cl) ==
  \/ /\ reserveFree(c, in)
     /\ client' = [client EXCEPT ![serving[c]] = cl]
     /\ Goto(c, "recv")
     /\ UNCHANGED <<request, up>>
  \/ /\ ~Fits(in) /\ ~CompactFits(in)
     /\ bins[SizeClass(UnconsumedLen(in) + RecvSize)] = {}
     /\ OutOfMemory(c, in, cl)

Parse(c, in, cl) ==
  LET result == tryParse(cl, UnconsumedLen(in)) IN
  \/ result = "complete" /\ Deliver(c, in, cl)
  \/ result = "incomplete" /\ StartRecv(c, in, cl)
  \/ result \in DOMAIN StatusOf /\ Refuse(c, in, cl, result)
  \/ OutOfMemory(c, in, cl)

\* The header arrays of the arena after reset() and the parser's allocation.
ArenaAfterParse(c) == [arena EXCEPT ![c] = 1]

\* The greenlet calls http_read_request: what the last call left over is parsed
\* before anything is received.
ReadRequest(c) ==
  LET in == resetForNewRequest(input[c])
      cl == client[serving[c]]
  IN /\ pc[c] = "read"
     /\ IF UnconsumedLen(in) > 0
        THEN arena' = ArenaAfterParse(c) /\ Parse(c, in, cl)
        ELSE arena' = [arena EXCEPT ![c] = 0] /\ StartRecv(c, in, cl)
     /\ UNCHANGED serving

\* doRecv returns n bytes.
Receive(c) ==
  LET cl == client[serving[c]] IN
  /\ pc[c] = "recv"
  /\ \E n \in 1..RecvLen(input[c]) :
       LET bytes == [i \in 1..n |-> <<serving[c], cl.received + i - 1>>]
           in == commitWrite(input[c], bytes)
           read == [cl EXCEPT !.received = @ + n]
       IN /\ cl.received + n <= cl.script.bytes
          /\ IF UnconsumedLen(in) > MaxHeader + MaxBody
             THEN Refuse(c, in, read, "request_too_large") /\ UNCHANGED arena
             ELSE Parse(c, in, read) /\ arena' = ArenaAfterParse(c)
  /\ UNCHANGED serving

\* doRecv returns 0: the client has closed its side, or recv was offered no room.
ReceiveNothing(c) ==
  LET cl == client[serving[c]] IN
  /\ pc[c] = "recv"
  /\ cl.received = cl.script.bytes \/ RecvLen(input[c]) = 0
  /\ IF UnconsumedLen(input[c]) > 0
     THEN Refuse(c, input[c], cl, "invalid")
     ELSE Goto(c, "closing") /\ UNCHANGED <<input, bins, size, request, client, up>>
  /\ UNCHANGED <<arena, serving>>

\* OSError: the connection is closed without an answer.
ReceiveFails(c) ==
  /\ pc[c] = "recv"
  /\ Goto(c, "closing")
  /\ UNCHANGED <<bufferVars, request, serving, client, up>>

-------------------------------------------------------------------------------
(* _handle_connection around the calls.  The handler does what it likes with  *)
(* its request, and other connections run while it waits.                     *)

Invalidated(c) == request' = [request EXCEPT ![c] = None]

Answer(c, status) ==
  client' = [client EXCEPT ![serving[c]].answers = Append(@, status)]

\* The handler has returned and _finalize sends the response.
Respond(c) ==
  /\ pc[c] = "handler"
  /\ Answer(c, 200)
  /\ Goto(c, "respond")
  /\ UNCHANGED <<bufferVars, request, serving, up>>

\* _finalize raises before it sends anything (a status or a header it cannot
\* format): it has set _finalized, so there is no 500 either.
RespondRaises(c) ==
  /\ pc[c] = "handler"
  /\ Invalidated(c)
  /\ Goto(c, "closing")
  /\ UNCHANGED <<bufferVars, serving, client, up>>

\* The handler raises: a 500 is sent.
HandlerRaises(c) ==
  /\ pc[c] = "handler"
  /\ Answer(c, 500)
  /\ Goto(c, "fail")
  /\ UNCHANGED <<bufferVars, request, serving, up>>

(* Mutant: what the request says of the connection is not looked at.          *)
RespondedAlive(c) ==
  /\ pc[c] = "respond"
  /\ Invalidated(c)
  /\ Goto(c, "read")
  /\ UNCHANGED <<bufferVars, serving, client, up>>

\* The response is sent.
Responded(c) ==
  LET cl == client[serving[c]] IN
  /\ pc[c] = "respond"
  /\ Invalidated(c)
  /\ Goto(c, IF cl.script.requests[cl.taken].keep THEN "read" ELSE "closing")
  /\ UNCHANGED <<bufferVars, serving, client, up>>

(* Mutant: the request is invalidated only after a response was sent.         *)
AbandonValid(c) ==
  /\ pc[c] \in {"respond", "fail"}
  /\ Goto(c, "closing")
  /\ UNCHANGED <<bufferVars, request, serving, client, up>>

(* Mutant: a response that cannot be sent is followed by a 500.               *)
AbandonAgain(c) ==
  /\ pc[c] \in {"respond", "fail"}
  /\ Invalidated(c)
  /\ IF pc[c] = "respond" THEN Answer(c, 500) /\ Goto(c, "fail")
     ELSE Goto(c, "closing") /\ UNCHANGED client
  /\ UNCHANGED <<bufferVars, serving, up>>

\* Sending the response fails, or the 500 is sent as far as it can be.
Abandon(c) ==
  /\ pc[c] \in {"respond", "fail"}
  /\ Invalidated(c)
  /\ Goto(c, "closing")
  /\ UNCHANGED <<bufferVars, serving, client, up>>

\* The answer to a request that was refused is sent, or fails to be.
Refused(c) ==
  /\ pc[c] = "refuse"
  /\ Goto(c, "closing")
  /\ UNCHANGED <<bufferVars, request, serving, client, up>>

\* The hub gives an accepted client a connection of its pool.
Connect(c, k) ==
  /\ pc[c] = "idle" /\ client[k] = None
  /\ \E script \in Scripts :
       client' = [client EXCEPT ![k] =
         [script |-> script, received |-> 0, consumed |-> 0, taken |-> 0, answers |-> <<>>]]
  /\ serving' = [serving EXCEPT ![c] = k]
  /\ Goto(c, "read")
  /\ UNCHANGED <<bufferVars, request, up>>

\* The completion of green_close's close: Connection.reset.
Closed(c) ==
  /\ pc[c] = "closing"
  /\ input' = [input EXCEPT ![c] = InlineBuffer(c)]
  /\ arena' = [arena EXCEPT ![c] = 0]
  /\ Release(c, input[c], bins, size)
  /\ serving' = [serving EXCEPT ![c] = None]
  /\ Goto(c, "idle")
  /\ UNCHANGED <<request, client, up>>

\* Every client has been served, or the loop has failed.
Quiet ==
  /\ ~up \/ \A c \in Conns, k \in Clients : pc[c] = "idle" /\ client[k] # None
  /\ UNCHANGED vars

Step(c) ==
  \/ ReadRequest(c) \/ Receive(c) \/ ReceiveNothing(c) \/ ReceiveFails(c)
  \/ Respond(c) \/ RespondRaises(c) \/ HandlerRaises(c)
  \/ Responded(c) \/ Abandon(c) \/ Refused(c) \/ Closed(c)
  \/ \E k \in Clients : Connect(c, k)

Init ==
  /\ input = [c \in Conns |-> InlineBuffer(c)]
  /\ arena = [c \in Conns |-> 0]
  /\ bins = [s \in Sizes |-> {}]
  /\ size = [b \in Buffers |-> 0]
  /\ request = [c \in Conns |-> None]
  /\ pc = [c \in Conns |-> "idle"]
  /\ serving = [c \in Conns |-> None]
  /\ client = [k \in Clients |-> None]
  /\ up = TRUE

Next == (up /\ \E c \in Conns : Step(c)) \/ Quiet

Spec == Init /\ [][Next]_vars

-------------------------------------------------------------------------------
(* Properties.                                                                *)

Byte == (Clients \cup {None}) \X Nat

InputBuffers(cap) ==
  {in \in [buf : Conns \cup Buffers, cap : {cap}, rd : Nat, wr : Nat,
           data : [0..(cap - 1) -> Byte]] : in.rd <= in.wr /\ in.wr <= in.cap}

\* Types; and the two assertions of InputBuffer, read_pos <= write_pos <= capacity.
HttpTypeOK ==
  /\ DOMAIN input = Conns
  /\ \A c \in Conns : \E cap \in Sizes : input[c] \in InputBuffers(cap)
  /\ arena \in [Conns -> Nat]
  /\ bins \in [Sizes -> SUBSET Buffers]
  /\ size \in [Buffers -> Sizes \cup {0}]
  /\ request \in [Conns -> [buf : Conns \cup Buffers, at : Nat, len : Nat, first : Nat]
                            \cup {None}]
  /\ pc \in [Conns -> {"idle", "read", "recv", "handler", "respond", "fail",
                       "refuse", "closing"}]
  /\ serving \in [Conns -> Clients \cup {None}]
  /\ client \in [Clients -> ClientStates \cup {None}]
  /\ up \in BOOLEAN

\* Through receives, pipelined leftovers, compactions, growths and resets, what a
\* connection has not yet consumed is exactly what its client has sent since the
\* last request: no byte lost, repeated, moved or taken from another connection.
BytesInOrder ==
  \A c \in Conns : serving[c] # None =>
    LET in == input[c]
        cl == client[serving[c]]
    IN /\ cl.received = cl.consumed + UnconsumedLen(in)
       /\ \A i \in in.rd..(in.wr - 1) :
            in.data[i] = <<serving[c], cl.consumed + i - in.rd>>

\* As long as a request object has its pointers, they point at the bytes of that
\* request, in the buffer its connection still owns, and at headers the arena
\* still holds (buildLazyRequest's comment on the validity of its pointers).
LiveRequestIntact ==
  \A c \in Conns : request[c] # None =>
    LET r == request[c] IN
    /\ r.buf = input[c].buf
    /\ arena[c] > 0
    /\ r.at + r.len <= input[c].cap
    /\ \A i \in 0..(r.len - 1) : input[c].data[r.at + i] = <<serving[c], r.first + i>>

\* Every allocation is in exactly one place: lent to one connection, which
\* believes it to be as large as it is, or cached in the bin of its size.
BuffersOwned ==
  /\ \A c \in Conns : \/ input[c].buf = c /\ input[c].cap = Inline
                      \/ input[c].buf \in Buffers /\ size[input[c].buf] = input[c].cap
  /\ \A c, d \in Conns : input[c].buf = input[d].buf => c = d
  /\ \A s \in Sizes : \A b \in bins[s] : size[b] = s /\ \A c \in Conns : input[c].buf # b
  /\ \A b \in Buffers : size[b] # 0 => \/ \E c \in Conns : input[c].buf = b
                                       \/ \E s \in Sizes : b \in bins[s]

\* Under limits that fit the recycler's largest class every receive has the room it asks for,
\* so that 0 bytes mean the end of what the client sends, and what a connection
\* holds is bounded: by the limits' size class, and by one header array.
ReceiveBounded ==
  LimitsFit => \A c \in Conns :
    /\ pc[c] = "recv" => /\ input[c].cap - input[c].wr >= RecvSize
                         /\ UnconsumedLen(input[c]) <= MaxHeader + MaxBody
    /\ input[c].buf # c => input[c].cap <= SizeClass(MaxHeader + MaxBody + RecvSize)
    /\ arena[c] <= 1

\* One answer per request, in the order of the requests: a request reaches the
\* handler after the answers to all before it, a refusal answers a request that
\* was not handled, and nothing follows a refusal or a 500.
AnswersInOrder ==
  /\ \A c \in Conns : serving[c] # None =>
       LET cl == client[serving[c]] IN
       CASE pc[c] = "handler" -> Len(cl.answers) = cl.taken - 1
         [] pc[c] \in {"refuse", "closing"} -> Len(cl.answers) >= cl.taken - 1
         [] OTHER -> Len(cl.answers) = cl.taken
  /\ \A k \in Clients : client[k] # None =>
       LET cl == client[k] IN
       \A i \in 1..Len(cl.answers) :
         /\ i < Len(cl.answers) => cl.answers[i] = 200
         /\ IF i <= cl.taken THEN cl.answers[i] \in {200, 500}
            ELSE i = cl.taken + 1 /\ cl.answers[i] \in {400, 413, 431}

Accepted(r) == r.flaw = "none" /\ r.head <= MaxHeader /\ r.body <= MaxBody

\* Each answer has its cause in what the client sent: the handler sees only whole
\* requests within the limits, 400 means a fault or a request that ends early,
\* 431 a header beyond its limit, 413 a body beyond its, or more bytes received since
\* the last request than both limits together, pipelined ones included (so a request
\* within its limits is refused for what follows it).  Under limits that fit nothing
\* else about the buffer turns a good request into a bad one.
AnswersJustified ==
  LimitsFit => \A k \in Clients : client[k] # None =>
    LET cl == client[k]
        last == NextRequest(cl)
    IN \A i \in 1..Len(cl.answers) :
         IF i <= cl.taken THEN Accepted(cl.script.requests[i])
         ELSE CASE cl.answers[i] = 400 -> \/ last.flaw # "none"
                                          \/ cl.script.bytes < cl.consumed + Total(last)
                [] cl.answers[i] = 431 -> last.head > MaxHeader
                [] cl.answers[i] = 413 -> \/ last.body > MaxBody
                                          \/ cl.received - cl.consumed > MaxHeader + MaxBody
                [] OTHER -> FALSE

-------------------------------------------------------------------------------
(* What a client sees of it.                                                  *)

TurnAt ==
  [idle |-> "over", read |-> "client", recv |-> "client", handler |-> "handler",
   respond |-> "sending", fail |-> "over", refuse |-> "over", closing |-> "over"]

TurnOf(k) ==
  IF \E c \in Conns : serving[c] = k
  THEN TurnAt[pc[CHOOSE c \in Conns : serving[c] = k]] ELSE "over"

Exchanged ==
  [k \in Clients |->
    IF client[k] = None
    THEN [script |-> None, taken |-> 0, answers |-> <<>>, turn |-> "nobody"]
    ELSE [script |-> client[k].script, taken |-> client[k].taken,
          answers |-> client[k].answers, turn |-> TurnOf(k)]]

E == INSTANCE Exchange
       WITH exchange <- Exchanged, Fit <- {r \in Request : Accepted(r)}

\* Whatever the buffers and the other connections do, a client's requests are taken
\* one at a time, in order and fit for the handler, and it is sent what Exchange
\* lets it be sent: nothing after a refusal, a 500 or a request that ends the
\* connection, no request before the answer to the last.
ImplementsExchange == E!Spec

===============================================================================
