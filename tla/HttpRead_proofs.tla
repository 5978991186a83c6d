-------------------------- MODULE HttpRead_proofs --------------------------
(***************************************************************************)
(* Proofs about HttpRead for any number of connections, clients and        *)
(* buffers, any size classes with the inline buffer's among them, and any  *)
(* scripts: the bytes of a connection stay in order, request objects point *)
(* at their own request, every allocation has one owner, and each request  *)
(* has one answer, for its cause. With that, HttpRead implements Exchange. *)
(*                                                                         *)
(* Records are compared as wholes (Input, InputIs) and facts about one     *)
(* field at a time are lemmas of their own, as the solvers lose track of   *)
(* updates of several fields.                                              *)
(***************************************************************************)
EXTENDS HttpRead, WellFoundedInduction, TLAPS

-----------------------------------------------------------------------------
(* Size classes.                                                           *)

(* SizeClass is one of the classes; it is at least n when there is a class *)
(* of that size, and otherwise no class is larger.                         *)
LEMMA SizeClassIs ==
  ASSUME NEW n \in Nat
  PROVE  /\ SizeClass(n) \in Sizes
         /\ (\E t \in Sizes : t >= n) => SizeClass(n) >= n
         /\ ~(\E t \in Sizes : t >= n) => \A t \in Sizes : t <= SizeClass(n)
         /\ \A t \in Sizes : t >= n => SizeClass(n) <= t
<1> DEFINE P(s) == IF \E t \in Sizes : t >= n
                   THEN s >= n /\ \A t \in Sizes : t >= n => s <= t
                   ELSE \A t \in Sizes : t <= s
<1>1. \E s \in Sizes : P(s)
  <2>1. CASE \E t \in Sizes : t >= n
    <3> DEFINE T == {t \in Sizes : t >= n}
    <3>1. T \subseteq Nat /\ T # {}
      BY <2>1, HttpAssumption
    <3>2. \E x \in T : \A y \in T : ~ (<<y, x>> \in OpToRel(<, Nat))
      BY <3>1, NatLessThanWellFounded, WFMin
    <3>3. \E x \in T : \A y \in T : ~ (y < x)
      BY <3>1, <3>2 DEF OpToRel
    <3>4. \E x \in T : \A y \in T : x <= y
      BY <3>1, <3>3
    <3> QED BY <2>1, <3>4
  <2>2. CASE ~ \E t \in Sizes : t >= n
    BY <2>2, HttpAssumption
  <2> QED BY <2>1, <2>2
<1>2. SizeClass(n) \in Sizes /\ P(SizeClass(n))
  BY <1>1 DEF SizeClass
<1> QED BY <1>2, HttpAssumption

-----------------------------------------------------------------------------
(* The input buffer.                                                       *)

IsInput(in) == \E cap \in Sizes : in \in InputBuffers(cap)

(* The types of an input buffer's fields, and its positions in order.      *)
LEMMA InputFacts ==
  ASSUME NEW in, IsInput(in)
  PROVE  /\ in.buf \in Conns \cup Buffers
         /\ in.cap \in Sizes /\ in.cap \in Nat \ {0}
         /\ in.rd \in Nat /\ in.wr \in Nat
         /\ in.rd <= in.wr /\ in.wr <= in.cap
         /\ in.data \in [0..(in.cap - 1) -> Byte]
         /\ UnconsumedLen(in) \in Nat /\ UnconsumedLen(in) = in.wr - in.rd
BY HttpAssumption DEF IsInput, InputBuffers, UnconsumedLen

(* The fields of an input buffer just made.                                *)
LEMMA InputFields ==
  ASSUME NEW b, NEW cap, NEW rd, NEW wr, NEW data
  PROVE  /\ Input(b, cap, rd, wr, data).buf = b
         /\ Input(b, cap, rd, wr, data).cap = cap
         /\ Input(b, cap, rd, wr, data).rd = rd
         /\ Input(b, cap, rd, wr, data).wr = wr
         /\ Input(b, cap, rd, wr, data).data = data
         /\ UnconsumedLen(Input(b, cap, rd, wr, data)) = wr - rd
BY DEF Input, UnconsumedLen

(* When positions are in order, it is an input buffer.                     *)
LEMMA InputIs ==
  ASSUME NEW b \in Conns \cup Buffers, NEW cap \in Sizes, NEW rd \in Nat, NEW wr \in Nat,
         rd <= wr, wr <= cap, NEW data \in [0..(cap - 1) -> Byte]
  PROVE  IsInput(Input(b, cap, rd, wr, data))
BY DEF IsInput, InputBuffers, Input

(* "in" holds, unconsumed, what client k sent from position n on.          *)
Holds(in, k, n) == \A i \in in.rd..(in.wr - 1) : in.data[i] = <<k, n + i - in.rd>>

(* The unconsumed bytes come to the front of a buffer they fit into.       *)
LEMMA MovedIs ==
  ASSUME NEW in, IsInput(in), NEW cap \in Sizes, UnconsumedLen(in) <= cap,
         NEW data \in [0..(cap - 1) -> Byte]
  PROVE  /\ MovedTo(data, in) \in [0..(cap - 1) -> Byte]
         /\ \A i \in 0..(UnconsumedLen(in) - 1) : MovedTo(data, in)[i] = in.data[in.rd + i]
<1> DEFINE len == UnconsumedLen(in)
<1>1. /\ in.cap \in Nat /\ in.rd \in Nat /\ in.wr \in Nat /\ len \in Nat /\ len <= cap
      /\ in.rd <= in.wr /\ in.wr <= in.cap /\ cap \in Nat /\ len = in.wr - in.rd
      /\ in.data \in [0..(in.cap - 1) -> Byte]
  BY InputFacts, HttpAssumption
<1>2. MovedTo(data, in) = [i \in 0..(cap - 1) |-> IF i < len THEN in.data[in.rd + i] ELSE data[i]]
  BY DEF MovedTo
<1> HIDE DEF len
<1>3. ASSUME NEW i \in 0..(cap - 1), i < len PROVE in.rd + i \in 0..(in.cap - 1)
  BY <1>1, <1>3
<1>4. \A i \in 0..(cap - 1) : (IF i < len THEN in.data[in.rd + i] ELSE data[i]) \in Byte
  BY <1>1, <1>3
<1>5. \A i \in 0..(len - 1) : i \in 0..(cap - 1) /\ i < len
  BY <1>1
<1>6. MovedTo(data, in) \in [0..(cap - 1) -> Byte]
  BY <1>2, <1>4
<1>7. \A i \in 0..(len - 1) : MovedTo(data, in)[i] = in.data[in.rd + i]
  BY <1>2, <1>5
<1> QED BY <1>6, <1>7 DEF len

(* Moving the unconsumed bytes into another buffer keeps them.             *)
LEMMA MovedKeeps ==
  ASSUME NEW in, IsInput(in), NEW b \in Conns \cup Buffers, NEW cap \in Sizes,
         UnconsumedLen(in) <= cap, NEW data \in [0..(cap - 1) -> Byte],
         NEW out, out = Input(b, cap, 0, UnconsumedLen(in), MovedTo(data, in))
  PROVE  /\ IsInput(out) /\ out.buf = b /\ out.cap = cap /\ out.rd = 0
         /\ out.wr = UnconsumedLen(in) /\ UnconsumedLen(out) = UnconsumedLen(in)
         /\ \A k, n : n \in Nat /\ Holds(in, k, n) => Holds(out, k, n)
<1> DEFINE len == UnconsumedLen(in)
           moved == MovedTo(data, in)
<1>1. /\ in.rd \in Nat /\ in.wr \in Nat /\ len \in Nat /\ len = in.wr - in.rd /\ in.rd <= in.wr
  BY InputFacts
<1>2. moved \in [0..(cap - 1) -> Byte] /\ \A i \in 0..(len - 1) : moved[i] = in.data[in.rd + i]
  BY MovedIs
<1> HIDE DEF len, moved
<1>3. IsInput(out)
  BY <1>1, <1>2, InputIs DEF len, moved
<1>4. /\ out.buf = b /\ out.cap = cap /\ out.rd = 0 /\ out.wr = len /\ out.data = moved
      /\ UnconsumedLen(out) = len
  BY <1>1, InputFields DEF len, moved
<1>5. ASSUME NEW k, NEW n, n \in Nat, Holds(in, k, n) PROVE Holds(out, k, n)
  <2> SUFFICES ASSUME NEW i \in 0..(len - 1) PROVE moved[i] = <<k, n + i - 0>>
    BY <1>4 DEF Holds
  <2>1. in.rd + i \in in.rd..(in.wr - 1) /\ n + (in.rd + i) - in.rd = n + i - 0
    BY <1>1, <1>5
  <2>2. in.data[in.rd + i] = <<k, n + (in.rd + i) - in.rd>>
    BY <1>5, <2>1 DEF Holds
  <2> QED BY <1>2, <2>1, <2>2
<1> QED BY <1>3, <1>4, <1>5 DEF len

(* compact moves them within the buffer.                                   *)
LEMMA CompactKeeps ==
  ASSUME NEW in, IsInput(in), NEW out, out = compact(in)
  PROVE  /\ IsInput(out) /\ out.buf = in.buf /\ out.cap = in.cap /\ out.rd = 0
         /\ out.wr = UnconsumedLen(in) /\ UnconsumedLen(out) = UnconsumedLen(in)
         /\ \A k, n : n \in Nat /\ Holds(in, k, n) => Holds(out, k, n)
<1>1. /\ in.buf \in Conns \cup Buffers /\ in.cap \in Sizes /\ in.rd \in Nat /\ in.wr \in Nat
      /\ UnconsumedLen(in) <= in.cap /\ in.data \in [0..(in.cap - 1) -> Byte]
  BY InputFacts
<1> QED BY <1>1, MovedKeeps DEF compact

(* A new allocation holds something.                                       *)
LEMMA BlankIs ==
  ASSUME NEW cap \in Sizes
  PROVE  Blank(cap) \in [0..(cap - 1) -> Byte]
BY HttpAssumption DEF Blank, Byte, Junk

(* resetForNewRequest keeps what is not consumed.                          *)
LEMMA ResetKeeps ==
  ASSUME NEW in, IsInput(in), NEW out, out = resetForNewRequest(in)
  PROVE  /\ IsInput(out) /\ out.buf = in.buf /\ out.cap = in.cap
         /\ UnconsumedLen(out) = UnconsumedLen(in)
         /\ \A k, n : n \in Nat /\ Holds(in, k, n) => Holds(out, k, n)
<1>0. /\ in.buf \in Conns \cup Buffers /\ in.cap \in Sizes /\ in.cap \in Nat
      /\ in.rd \in Nat /\ in.wr \in Nat
      /\ in.data \in [0..(in.cap - 1) -> Byte] /\ UnconsumedLen(in) = in.wr - in.rd
  BY InputFacts
<1>1. CASE in.rd = in.wr
  <2>1. out = Input(in.buf, in.cap, 0, 0, in.data)
    BY <1>1 DEF resetForNewRequest
  <2>2. IsInput(out)
    BY <1>0, <2>1, InputIs
  <2>3. /\ out.buf = in.buf /\ out.cap = in.cap /\ out.rd = 0 /\ out.wr = 0
        /\ UnconsumedLen(out) = 0
    BY <2>1, InputFields
  <2>4. \A k, n : Holds(out, k, n)
    BY <2>3 DEF Holds
  <2> QED BY <1>0, <1>1, <2>2, <2>3, <2>4
<1>2. CASE in.rd # in.wr /\ in.rd > in.cap \div 2
  BY <1>2, CompactKeeps DEF resetForNewRequest
<1>3. CASE in.rd # in.wr /\ ~(in.rd > in.cap \div 2)
  BY <1>3 DEF resetForNewRequest
<1> QED BY <1>1, <1>2, <1>3

(* consume takes from the front of what is not consumed.                   *)
LEMMA ConsumeKeeps ==
  ASSUME NEW in, IsInput(in), NEW n \in Nat, n <= UnconsumedLen(in),
         NEW out, out = consume(in, n)
  PROVE  /\ IsInput(out) /\ out.buf = in.buf /\ out.cap = in.cap /\ out.data = in.data
         /\ out.wr = in.wr
         /\ UnconsumedLen(out) = UnconsumedLen(in) - n
         /\ \A k, m : m \in Nat /\ Holds(in, k, m) => Holds(out, k, m + n)
<1>0. /\ in.buf \in Conns \cup Buffers /\ in.cap \in Sizes /\ in.cap \in Nat
      /\ in.rd \in Nat /\ in.wr \in Nat /\ in.wr <= in.cap
      /\ in.data \in [0..(in.cap - 1) -> Byte] /\ UnconsumedLen(in) = in.wr - in.rd
  BY InputFacts
<1>1a. in.rd + n \in Nat /\ in.rd + n <= in.wr
  BY <1>0
<1>1. IsInput(out)
  BY <1>0, <1>1a, InputIs DEF consume
<1>2. /\ out.buf = in.buf /\ out.cap = in.cap /\ out.rd = in.rd + n /\ out.wr = in.wr
      /\ out.data = in.data /\ UnconsumedLen(out) = in.wr - (in.rd + n)
  BY InputFields DEF consume
<1>3. ASSUME NEW k, NEW m, m \in Nat, Holds(in, k, m) PROVE Holds(out, k, m + n)
  <2> SUFFICES ASSUME NEW i \in (in.rd + n)..(in.wr - 1)
               PROVE  in.data[i] = <<k, (m + n) + i - (in.rd + n)>>
    BY <1>2 DEF Holds
  <2>1. i \in in.rd..(in.wr - 1) /\ (m + n) + i - (in.rd + n) = m + i - in.rd
    BY <1>0, <1>3
  <2> QED BY <1>3, <2>1 DEF Holds
<1> QED BY <1>0, <1>1, <1>2, <1>3

(* n bytes of client k, of which "received" were received, are written.    *)
Commits(in, k, received, n, out) ==
  out = commitWrite(in, [i \in 1..n |-> <<k, received + i - 1>>])

(* What is written follows what was not consumed.                          *)
LEMMA CommitKeeps ==
  ASSUME NEW in, IsInput(in), NEW k \in Clients, NEW m \in Nat, NEW n \in Nat,
         in.wr + n <= in.cap,
         NEW received, received = m + UnconsumedLen(in),
         NEW out, Commits(in, k, received, n, out)
  PROVE  /\ IsInput(out) /\ out.buf = in.buf /\ out.cap = in.cap
         /\ UnconsumedLen(out) = UnconsumedLen(in) + n
         /\ Holds(in, k, m) => Holds(out, k, m)
<1> DEFINE bytes == [i \in 1..n |-> <<k, received + i - 1>>]
           data == [i \in DOMAIN in.data |->
                      IF i \in in.wr..(in.wr + Len(bytes) - 1)
                      THEN bytes[i - in.wr + 1] ELSE in.data[i]]
           wr == in.wr + Len(bytes)
<1>0. /\ in.buf \in Conns \cup Buffers /\ in.cap \in Sizes
      /\ in.cap \in Nat /\ in.rd \in Nat /\ in.wr \in Nat
      /\ in.rd <= in.wr /\ in.wr <= in.cap /\ UnconsumedLen(in) = in.wr - in.rd
      /\ in.data \in [0..(in.cap - 1) -> Byte] /\ received \in Nat
      /\ received = m + in.wr - in.rd
  <2>1. /\ in.buf \in Conns \cup Buffers /\ in.cap \in Sizes
        /\ in.cap \in Nat /\ in.rd \in Nat /\ in.wr \in Nat
        /\ in.rd <= in.wr /\ in.wr <= in.cap /\ UnconsumedLen(in) = in.wr - in.rd
        /\ in.data \in [0..(in.cap - 1) -> Byte]
    BY InputFacts
  <2> QED BY <2>1
<1>1. Len(bytes) = n
  OBVIOUS
<1>2. out = Input(in.buf, in.cap, in.rd, wr, data)
  BY DEF commitWrite, Commits
<1>3. \A i \in in.wr..(in.wr + n - 1) :
        i - in.wr + 1 \in 1..n /\ bytes[i - in.wr + 1] = <<k, m + i - in.rd>>
  <2> SUFFICES ASSUME NEW i \in in.wr..(in.wr + n - 1)
               PROVE  i - in.wr + 1 \in 1..n /\ bytes[i - in.wr + 1] = <<k, m + i - in.rd>>
    OBVIOUS
  <2>0. /\ i \in Int /\ in.wr \in Int /\ in.rd \in Int /\ i >= in.wr /\ i <= in.wr + n - 1
        /\ received = m + in.wr - in.rd /\ received \in Int /\ m \in Int
    BY <1>0
  <2>1. i - in.wr + 1 \in 1..n
    BY <2>0
  <2>2. received + (i - in.wr + 1) - 1 = m + i - in.rd
    BY <2>0
  <2>3. bytes[i - in.wr + 1] = <<k, received + (i - in.wr + 1) - 1>>
    BY <2>1
  <2> QED BY <2>1, <2>2, <2>3
<1>4. \A i \in in.wr..(in.wr + n - 1) : <<k, m + i - in.rd>> \in Byte
  <2> SUFFICES ASSUME NEW i \in in.wr..(in.wr + n - 1) PROVE m + i - in.rd \in Nat
    BY DEF Byte
  <2> QED BY <1>0
<1> HIDE DEF bytes
<1>6. /\ DOMAIN data = 0..(in.cap - 1)
      /\ \A i \in 0..(in.cap - 1) :
           data[i] = IF i \in in.wr..(in.wr + n - 1) THEN <<k, m + i - in.rd>> ELSE in.data[i]
  BY <1>0, <1>1, <1>3
<1>5. data \in [0..(in.cap - 1) -> Byte]
  BY <1>0, <1>4, <1>6
<1> HIDE DEF data
<1>7. wr = in.wr + n /\ wr \in Nat /\ in.rd <= wr
  BY <1>0, <1>1
<1> HIDE DEF wr
<1>8. IsInput(out)
  BY <1>0, <1>2, <1>5, <1>7, InputIs
<1>9. /\ out.buf = in.buf /\ out.cap = in.cap /\ out.rd = in.rd /\ out.wr = wr
      /\ out.data = data /\ UnconsumedLen(out) = wr - in.rd
  BY <1>2, InputFields
<1>10. ASSUME Holds(in, k, m) PROVE Holds(out, k, m)
  <2> SUFFICES \A i \in in.rd..(wr - 1) : data[i] = <<k, m + i - in.rd>>
    BY <1>9 DEF Holds
  <2> TAKE i \in in.rd..(wr - 1)
  <2>1. i \in 0..(in.cap - 1)
    BY <1>0, <1>7
  <2>2. CASE i \in in.wr..(in.wr + n - 1)
    BY <1>6, <2>1, <2>2
  <2>3. CASE i \notin in.wr..(in.wr + n - 1)
    <3>1. i \in in.rd..(in.wr - 1)
      BY <1>0, <1>7, <2>3
    <3> QED BY <1>6, <1>10, <2>1, <2>3, <3>1 DEF Holds
  <2> QED BY <2>2, <2>3
<1> QED BY <1>0, <1>7, <1>8, <1>9, <1>10

(* A connection that was reset holds nothing.                              *)
LEMMA InlineIs ==
  ASSUME NEW c \in Conns
  PROVE  /\ IsInput(InlineBuffer(c))
         /\ InlineBuffer(c).buf = c /\ InlineBuffer(c).cap = Inline
         /\ UnconsumedLen(InlineBuffer(c)) = 0
         /\ \A k, n : Holds(InlineBuffer(c), k, n)
<1>1. Inline \in Sizes /\ Inline \in Nat \ {0} /\ Blank(Inline) \in [0..(Inline - 1) -> Byte]
  BY HttpAssumption, BlankIs
<1>2. IsInput(InlineBuffer(c))
  BY <1>1, InputIs DEF InlineBuffer
<1>3. /\ InlineBuffer(c).rd = 0 /\ InlineBuffer(c).wr = 0 /\ UnconsumedLen(InlineBuffer(c)) = 0
      /\ InlineBuffer(c).buf = c /\ InlineBuffer(c).cap = Inline
  BY InputFields DEF InlineBuffer
<1> QED BY <1>2, <1>3 DEF Holds
-----------------------------------------------------------------------------
(* The inductive invariant.                                                *)

Limit == MaxHeader + MaxBody
MaxClass == SizeClass(Limit + RecvSize)

Points == {"idle", "read", "recv", "handler", "respond", "fail", "refuse", "closing"}
Pointers == [buf : Conns \cup Buffers, at : Nat, len : Nat, first : Nat]

(* A request object: LiveRequestIntact, and the places where one can live. *)
RequestOK(in, ar, rq, p, k) ==
  /\ rq \in Pointers \cup {None}
  /\ rq # None =>
       /\ p \in {"handler", "respond", "fail"}
       /\ rq.buf = in.buf /\ ar = 1 /\ rq.at + rq.len <= in.cap
       /\ \A i \in 0..(rq.len - 1) : in.data[rq.at + i] = <<k, rq.first + i>>

(* What connection c holds: a call of http_read_request starts and receives *)
(* with no more unconsumed than the limits allow, and with the room it asks *)
(* for.                                                                     *)
RoomOK(c, in, p) ==
  /\ p \in {"idle", "read", "recv", "handler", "respond"} => UnconsumedLen(in) <= Limit
  /\ p = "idle" => UnconsumedLen(in) = 0
  /\ LimitsFit => /\ p = "recv" => in.cap - in.wr >= RecvSize
                  /\ in.buf # c => in.cap <= MaxClass

(* A connection at p, with input "in", and client k that it serves, in state *)
(* cl: BytesInOrder, the number of answers, and, in a receive, that what is *)
(* there is not a request.                                                 *)
SessionOK(in, p, k, cl) ==
  /\ cl # None
  /\ cl.received = cl.consumed + UnconsumedLen(in)
  /\ Holds(in, k, cl.consumed)
  /\ p = "handler" => Len(cl.answers) = cl.taken - 1
  /\ p \in {"refuse", "closing"} => Len(cl.answers) >= cl.taken - 1
  /\ p \in {"read", "recv", "respond", "fail"} => Len(cl.answers) = cl.taken
  /\ p \in {"read", "recv", "handler", "respond"} =>
       \A i \in 1..Len(cl.answers) : cl.answers[i] = 200
  /\ p = "recv" /\ UnconsumedLen(in) > 0 => tryParse(cl, UnconsumedLen(in)) = "incomplete"

AnswerOK(cl, i) ==
  /\ i < Len(cl.answers) => cl.answers[i] = 200
  /\ IF i <= cl.taken THEN cl.answers[i] \in {200, 500}
     ELSE i = cl.taken + 1 /\ cl.answers[i] \in {400, 413, 431}

(* The cause of an answer that refuses the next request.                   *)
Cause(cl, status) ==
  LET last == NextRequest(cl) IN
  CASE status = 400 -> \/ last.flaw # "none"
                       \/ cl.script.bytes < cl.consumed + Total(last)
    [] status = 431 -> last.head > MaxHeader
    [] status = 413 -> \/ last.body > MaxBody
                       \/ cl.received - cl.consumed > Limit
    [] OTHER -> FALSE

(* A client: the requests taken are a whole prefix of what it sent, each    *)
(* fit for the handler; and AnswersInOrder, AnswersJustified.              *)
ClientOK(cl) ==
  /\ cl \in ClientStates
  /\ cl.taken <= Len(cl.script.requests)
  /\ cl.consumed = EndOf(cl.script, cl.taken)
  /\ cl.consumed <= cl.received /\ cl.received <= cl.script.bytes
  /\ \A i \in 1..cl.taken : Accepted(cl.script.requests[i])
  /\ \A i \in 1..Len(cl.answers) : AnswerOK(cl, i)
  /\ LimitsFit => \A i \in 1..Len(cl.answers) : i > cl.taken => Cause(cl, cl.answers[i])

ConnOK(c, in, ar, rq, p, k, cl) ==
  /\ IsInput(in)
  /\ ar \in 0..1
  /\ k = None <=> p = "idle"
  /\ RequestOK(in, ar, rq, p, k)
  /\ RoomOK(c, in, p)
  /\ k # None => SessionOK(in, p, k, cl)

Session(c) ==
  ConnOK(c, input[c], arena[c], request[c], pc[c], serving[c], client[serving[c]])

Types ==
  /\ DOMAIN input = Conns
  /\ arena \in [Conns -> Nat]
  /\ request \in [Conns -> Pointers \cup {None}]
  /\ pc \in [Conns -> Points]
  /\ serving \in [Conns -> Clients \cup {None}]
  /\ client \in [Clients -> ClientStates \cup {None}]

Sessions ==
  /\ Types
  /\ \A c, d \in Conns : serving[c] # None /\ serving[c] = serving[d] => c = d
  /\ \A c \in Conns : Session(c)
  /\ \A k \in Clients : client[k] # None => ClientOK(client[k])

Memory ==
  /\ bins \in [Sizes -> SUBSET Buffers]
  /\ size \in [Buffers -> Sizes \cup {0}]
  /\ BuffersOwned

IInv == Sessions /\ Memory /\ up \in BOOLEAN

-----------------------------------------------------------------------------
(* The recycler.                                                           *)

(* BuffersOwned, with connections that have "ins", bins "cached" and sizes *)
(* "allocated", when the allocations "hand" are on their way between the   *)
(* two.                                                                    *)
OwnedBut(ins, cached, allocated, hand) ==
  /\ \A c \in Conns : \/ ins[c].buf = c /\ ins[c].cap = Inline
                      \/ ins[c].buf \in Buffers /\ allocated[ins[c].buf] = ins[c].cap
  /\ \A c, d \in Conns : ins[c].buf = ins[d].buf => c = d
  /\ \A s \in Sizes : \A b \in cached[s] :
       allocated[b] = s /\ b \notin hand /\ \A c \in Conns : ins[c].buf # b
  /\ \A b \in hand : b \in Buffers /\ allocated[b] \in Sizes /\ \A c \in Conns : ins[c].buf # b
  /\ \A b \in Buffers : allocated[b] # 0 => \/ \E c \in Conns : ins[c].buf = b
                                            \/ \E s \in Sizes : b \in cached[s]
                                            \/ b \in hand

(* What connection c gives up with the buffer of "in".                     *)
GivenUp(c, in) == IF in.buf = c THEN {} ELSE {in.buf}

(* With nothing in hand, this is BuffersOwned.                             *)
LEMMA OwnedIs == BuffersOwned <=> OwnedBut(input, bins, size, {})
BY DEF BuffersOwned, OwnedBut

(* A class is its own size class: release finds the bin of the allocation. *)
LEMMA ClassOfClass ==
  ASSUME NEW s \in Sizes
  PROVE  SizeClass(s) = s
<1>1. s \in Nat /\ SizeClass(s) \in Nat
  BY SizeClassIs, HttpAssumption
<1>2. s >= s
  BY <1>1
<1>3. SizeClass(s) >= s /\ SizeClass(s) <= s
  BY <1>1, <1>2, SizeClassIs
<1> QED BY <1>1, <1>3

(* release completes an exchange of buffers.                               *)
LEMMA ReleaseOwns ==
  ASSUME NEW c \in Conns, NEW in, in.cap \in Sizes,
         NEW ins, NEW cached \in [Sizes -> SUBSET Buffers],
         NEW allocated \in [Buffers -> Sizes \cup {0}],
         in.buf # c => allocated[in.buf] = in.cap,
         OwnedBut(ins, cached, allocated, GivenUp(c, in)),
         Release(c, in, cached, allocated)
  PROVE  /\ bins' \in [Sizes -> SUBSET Buffers] /\ size' \in [Buffers -> Sizes \cup {0}]
         /\ OwnedBut(ins, bins', size', {})
<1>1. CASE in.buf = c
  BY <1>1 DEF Release, GivenUp, OwnedBut
<1>2. CASE in.buf # c /\ bins' = [cached EXCEPT ![in.cap] = @ \cup {in.buf}]
                      /\ size' = allocated
  BY <1>2 DEF GivenUp, OwnedBut
<1>3. CASE in.buf # c /\ bins' = cached /\ size' = [allocated EXCEPT ![in.buf] = 0]
  <2>1. 0 \notin Sizes
    BY HttpAssumption
  <2>2. bins' \in [Sizes -> SUBSET Buffers] /\ size' \in [Buffers -> Sizes \cup {0}]
    BY <1>3
  <2>3. in.buf \in Buffers
    BY <1>3 DEF OwnedBut, GivenUp
  <2>4. /\ size'[in.buf] = 0
        /\ \A b \in Buffers : b # in.buf => size'[b] = allocated[b]
    BY <1>3, <2>3
  <2>5. OwnedBut(ins, bins', size', {})
    <3>1. \A d \in Conns : \/ ins[d].buf = d /\ ins[d].cap = Inline
                           \/ ins[d].buf \in Buffers /\ size'[ins[d].buf] = ins[d].cap
      BY <1>3, <2>4 DEF OwnedBut, GivenUp
    <3>2. \A d, e \in Conns : ins[d].buf = ins[e].buf => d = e
      BY DEF OwnedBut
    <3>3. \A s \in Sizes : \A b \in bins'[s] :
            size'[b] = s /\ \A d \in Conns : ins[d].buf # b
      BY <1>3, <2>4 DEF OwnedBut, GivenUp
    <3>4. \A b \in Buffers : size'[b] # 0 => \/ \E d \in Conns : ins[d].buf = b
                                             \/ \E s \in Sizes : b \in bins'[s]
      BY <1>3, <2>4 DEF OwnedBut, GivenUp
    <3> QED BY <3>1, <3>2, <3>3, <3>4 DEF OwnedBut
  <2> QED BY <2>2, <2>5
<1> QED BY <1>1, <1>2, <1>3, ClassOfClass DEF Release

(* Connection c gets b, of class s, and has not released what it had.      *)
Acquired(c, s, b, ins, cached, allocated) ==
  /\ b \in Available(s)
  /\ ins[c].buf = b /\ ins[c].cap = s /\ \A d \in Conns \ {c} : ins[d] = input[d]
  /\ cached = [bins EXCEPT ![s] = @ \ {b}]
  /\ allocated = [size EXCEPT ![b] = s]

(* acquire puts a buffer that nobody has into the place of the old one.    *)
LEMMA AcquireOwns ==
  ASSUME NEW c \in Conns, NEW s \in Sizes, NEW b, NEW ins, NEW cached, NEW allocated,
         bins \in [Sizes -> SUBSET Buffers], size \in [Buffers -> Sizes \cup {0}],
         OwnedBut(input, bins, size, {}), \A d \in Conns : input[d].cap \in Sizes,
         Acquired(c, s, b, ins, cached, allocated)
  PROVE  /\ b \in Buffers
         /\ cached \in [Sizes -> SUBSET Buffers] /\ allocated \in [Buffers -> Sizes \cup {0}]
         /\ input[c].buf # c => allocated[input[c].buf] = input[c].cap
         /\ OwnedBut(ins, cached, allocated, GivenUp(c, input[c]))
<1>a. /\ b \in Available(s)
      /\ ins[c].buf = b /\ ins[c].cap = s /\ \A d \in Conns \ {c} : ins[d] = input[d]
      /\ cached = [bins EXCEPT ![s] = @ \ {b}] /\ allocated = [size EXCEPT ![b] = s]
  BY DEF Acquired
<1> USE <1>a
<1>0. 0 \notin Sizes /\ Conns \cap Buffers = {}
  BY HttpAssumption
<1>1. b \in Buffers
  BY DEF Available
<1>9. \A d \in Conns : \/ input[d].buf = d /\ input[d].cap = Inline
                       \/ input[d].buf \in Buffers /\ size[input[d].buf] = input[d].cap
  BY DEF OwnedBut
<1>10. \A d, e \in Conns : input[d].buf = input[e].buf => d = e
  BY DEF OwnedBut
<1>11. \A t \in Sizes : \A a \in bins[t] : size[a] = t /\ \A d \in Conns : input[d].buf # a
  BY DEF OwnedBut
<1>2. \A d \in Conns : input[d].buf # b
  <2>1. CASE bins[s] # {}
    <3>1. b \in bins[s]
      BY <2>1 DEF Available
    <3> QED BY <1>11, <3>1
  <2>2. CASE bins[s] = {}
    <3>1. size[b] = 0
      BY <2>2 DEF Available
    <3>2. ASSUME NEW d \in Conns, input[d].buf = b PROVE FALSE
      <4>1. input[d].cap # 0
        BY <1>0
      <4>2. b # d
        BY <1>0, <1>1
      <4> QED BY <1>9, <3>1, <3>2, <4>1, <4>2
    <3> QED BY <3>2
  <2> QED BY <2>1, <2>2
<1>3. \A t \in Sizes : b \in bins[t] => t = s
  BY <1>0, <1>1 DEF Available, OwnedBut
<1>4. \A t \in Sizes : cached[t] = bins[t] \ {b}
  BY <1>3
<1>5. allocated[b] = s /\ \A a \in Buffers \ {b} : allocated[a] = size[a]
  BY <1>1
<1>6. cached \in [Sizes -> SUBSET Buffers] /\ allocated \in [Buffers -> Sizes \cup {0}]
  BY <1>1
<1>7. input[c].buf # c => /\ input[c].buf \in Buffers
                          /\ allocated[input[c].buf] = input[c].cap
  BY <1>2, <1>5 DEF OwnedBut
<1>8. OwnedBut(ins, cached, allocated, GivenUp(c, input[c]))
  <2>1. \A d \in Conns : \/ ins[d].buf = d /\ ins[d].cap = Inline
                         \/ ins[d].buf \in Buffers /\ allocated[ins[d].buf] = ins[d].cap
    <3> SUFFICES ASSUME NEW d \in Conns
                 PROVE  \/ ins[d].buf = d /\ ins[d].cap = Inline
                        \/ ins[d].buf \in Buffers /\ allocated[ins[d].buf] = ins[d].cap
      OBVIOUS
    <3>1. CASE d = c
      BY <1>1, <1>5, <3>1
    <3>2. CASE d # c
      <4>1. ins[d] = input[d] /\ input[d].buf # b
        BY <1>2, <3>2
      <4> QED BY <1>5, <1>9, <4>1
    <3> QED BY <3>1, <3>2
  <2>2. \A d, e \in Conns : ins[d].buf = ins[e].buf => d = e
    BY <1>2 DEF OwnedBut
  <2>3. \A t \in Sizes : \A a \in cached[t] :
          /\ allocated[a] = t /\ a \notin GivenUp(c, input[c])
          /\ \A d \in Conns : ins[d].buf # a
    BY <1>4, <1>5 DEF OwnedBut, GivenUp
  <2>4. \A a \in GivenUp(c, input[c]) :
          /\ a \in Buffers /\ allocated[a] \in Sizes /\ \A d \in Conns : ins[d].buf # a
    <3>1. ASSUME input[c].buf # c
          PROVE  /\ input[c].buf \in Buffers /\ allocated[input[c].buf] \in Sizes
                 /\ \A d \in Conns : ins[d].buf # input[c].buf
      <4>1. input[c].cap \in Sizes
        OBVIOUS
      <4>2. ASSUME NEW d \in Conns PROVE ins[d].buf # input[c].buf
        <5>1. CASE d = c
          BY <1>2, <5>1
        <5>2. CASE d # c
          BY <1>10, <5>2
        <5> QED BY <5>1, <5>2
      <4> QED BY <1>7, <3>1, <4>1, <4>2
    <3> QED BY <3>1 DEF GivenUp
  <2>5. \A a \in Buffers : allocated[a] # 0 => \/ \E d \in Conns : ins[d].buf = a
                                               \/ \E t \in Sizes : a \in cached[t]
                                               \/ a \in GivenUp(c, input[c])
    <3> SUFFICES ASSUME NEW a \in Buffers, a # b, size[a] # 0
                 PROVE  \/ \E d \in Conns : ins[d].buf = a
                        \/ \E t \in Sizes : a \in cached[t]
                        \/ a \in GivenUp(c, input[c])
      BY <1>5
    <3>1. CASE \E d \in Conns : input[d].buf = a
      <4>1. PICK d \in Conns : input[d].buf = a
        BY <3>1
      <4>2. CASE d = c
        BY <1>0, <4>1, <4>2 DEF GivenUp
      <4>3. CASE d # c
        BY <4>1, <4>3
      <4> QED BY <4>2, <4>3
    <3>2. CASE \E t \in Sizes : a \in bins[t]
      BY <1>4, <3>2
    <3> QED BY <3>1, <3>2 DEF OwnedBut
  <2> QED BY <2>1, <2>2, <2>3, <2>4, <2>5 DEF OwnedBut
<1> QED BY <1>1, <1>6, <1>7, <1>8

-----------------------------------------------------------------------------
(* Steps of one connection.                                                *)

(* A step of c, whose client is k, keeps the sessions if it keeps c's.     *)
LEMMA StepOfOne ==
  ASSUME Sessions, NEW c \in Conns, NEW k \in Clients, NEW sv \in {k, None},
         \A d \in Conns \ {c} : serving[d] # k,
         NEW in, NEW ar, NEW rq, NEW p \in Points, NEW cl,
         DOMAIN input' = Conns, input'[c] = in,
         \A d \in Conns \ {c} : input'[d] = input[d],
         arena' = [arena EXCEPT ![c] = ar], request' = [request EXCEPT ![c] = rq],
         pc' = [pc EXCEPT ![c] = p], serving' = [serving EXCEPT ![c] = sv],
         client' = [client EXCEPT ![k] = cl],
         ConnOK(c, in, ar, rq, p, sv, cl), ClientOK(cl)
  PROVE  Sessions'
<1>1. /\ Types /\ \A d, e \in Conns : serving[d] # None /\ serving[d] = serving[e] => d = e
      /\ \A d \in Conns : Session(d)
      /\ \A j \in Clients : client[j] # None => ClientOK(client[j])
  BY DEF Sessions
<1>2. /\ arena \in [Conns -> Nat] /\ request \in [Conns -> Pointers \cup {None}]
      /\ pc \in [Conns -> Points] /\ serving \in [Conns -> Clients \cup {None}]
      /\ client \in [Clients -> ClientStates \cup {None}]
  BY <1>1 DEF Types
<1>3. ar \in Nat /\ rq \in Pointers \cup {None} /\ cl \in ClientStates
  BY DEF ConnOK, RequestOK, ClientOK
<1>4. Types'
  BY <1>2, <1>3 DEF Types
<1>5. \A d, e \in Conns : serving'[d] # None /\ serving'[d] = serving'[e] => d = e
  BY <1>1, <1>2
<1>6. ASSUME NEW d \in Conns PROVE Session(d)'
  <2>1. CASE d = c
    <3>1. /\ input'[d] = in /\ arena'[d] = ar /\ request'[d] = rq /\ pc'[d] = p
          /\ serving'[d] = sv
      BY <1>2, <2>1
    <3>2. sv # None => client'[sv] = cl
      BY <1>2
    <3>3. ConnOK(c, in, ar, rq, p, sv, client'[sv])
      BY <3>2 DEF ConnOK
    <3> QED BY <2>1, <3>1, <3>3 DEF Session
  <2>2. CASE d # c
    <3>1. /\ input'[d] = input[d] /\ arena'[d] = arena[d] /\ request'[d] = request[d]
          /\ pc'[d] = pc[d] /\ serving'[d] = serving[d]
      BY <1>2, <2>2
    <3>2. serving[d] # None => client'[serving[d]] = client[serving[d]]
      BY <1>2, <2>2
    <3>3. ConnOK(d, input[d], arena[d], request[d], pc[d], serving[d], client'[serving[d]])
      BY <1>1, <3>2 DEF ConnOK, Session
    <3> QED BY <3>1, <3>3 DEF Session
  <2> QED BY <2>1, <2>2
<1>7. \A j \in Clients : client'[j] # None => ClientOK(client'[j])
  BY <1>1, <1>2
<1> QED BY <1>4, <1>5, <1>6, <1>7 DEF Sessions

(* Who is at a point other than idle serves a client, and nobody else does. *)
LEMMA Served ==
  ASSUME Sessions, NEW c \in Conns, pc[c] # "idle"
  PROVE  /\ serving[c] \in Clients /\ serving[c] # None
         /\ \A d \in Conns \ {c} : serving[d] # serving[c]
         /\ client[serving[c]] # None /\ ClientOK(client[serving[c]])
         /\ SessionOK(input[c], pc[c], serving[c], client[serving[c]])
         /\ IsInput(input[c]) /\ arena[c] \in 0..1 /\ request[c] \in Pointers \cup {None}
         /\ RequestOK(input[c], arena[c], request[c], pc[c], serving[c])
         /\ RoomOK(c, input[c], pc[c])
<1>1. Session(c) /\ Types
  BY DEF Sessions
<1>2. serving[c] # None /\ serving[c] \in Clients
  BY <1>1 DEF Session, ConnOK, Types
<1>3. SessionOK(input[c], pc[c], serving[c], client[serving[c]])
  BY <1>1, <1>2 DEF Session, ConnOK
<1>4. client[serving[c]] # None
  BY <1>3 DEF SessionOK
<1>5. \A d \in Conns \ {c} : serving[d] # serving[c]
  BY <1>2 DEF Sessions
<1> QED BY <1>1, <1>2, <1>3, <1>4, <1>5 DEF Sessions, Session, ConnOK, Types

(* A step that leaves the recycler and the connections' buffers alone.     *)
LEMMA MemoryKept ==
  ASSUME Memory, UNCHANGED <<bins, size>>,
         \A d \in Conns : input'[d].buf = input[d].buf /\ input'[d].cap = input[d].cap
  PROVE  Memory'
<1>1. BuffersOwned'
  <2>1. /\ \A c \in Conns : \/ input'[c].buf = c /\ input'[c].cap = Inline
                            \/ input'[c].buf \in Buffers /\ size'[input'[c].buf] = input'[c].cap
        /\ \A c, d \in Conns : input'[c].buf = input'[d].buf => c = d
    BY DEF Memory, BuffersOwned
  <2>2. \A s \in Sizes : \A b \in bins'[s] : size'[b] = s /\ \A c \in Conns : input'[c].buf # b
    BY DEF Memory, BuffersOwned
  <2>3. \A b \in Buffers : size'[b] # 0 => \/ \E c \in Conns : input'[c].buf = b
                                           \/ \E s \in Sizes : b \in bins'[s]
    BY DEF Memory, BuffersOwned
  <2> QED BY <2>1, <2>2, <2>3 DEF BuffersOwned
<1> QED BY <1>1 DEF Memory

-----------------------------------------------------------------------------
(* Clients.                                                                *)

(* The types of what is known of a client.                                 *)
LEMMA ClientFacts ==
  ASSUME NEW cl, ClientOK(cl)
  PROVE  /\ cl # None /\ IsScript(cl.script)
         /\ cl.received \in Nat /\ cl.consumed \in Nat /\ cl.taken \in Nat
         /\ cl.answers \in Seq(Statuses) /\ Len(cl.answers) \in Nat
<1>1. cl \in ClientStates
  BY DEF ClientOK
<1>2. cl # None /\ IsScript(cl.script)
  BY <1>1, HttpAssumption DEF ClientStates
<1> QED BY <1>1, <1>2 DEF ClientStates

(* A client's other fields keep their types when it is answered.           *)
LEMMA SetAnswers ==
  ASSUME NEW S, NEW A,
         NEW cl \in [script : S, received : Nat, consumed : Nat, taken : Nat, answers : A],
         NEW answers \in A
  PROVE  [cl EXCEPT !.answers = answers]
           \in [script : S, received : Nat, consumed : Nat, taken : Nat, answers : A]
OBVIOUS

(* An answer with a cause keeps a client as it should be.                  *)
LEMMA Answered ==
  ASSUME NEW cl, ClientOK(cl), NEW status \in Statuses,
         NEW n, n = Len(cl.answers), \A i \in 1..n : cl.answers[i] = 200,
         \/ n + 1 <= cl.taken /\ status \in {200, 500}
         \/ n = cl.taken /\ status \in {400, 413, 431} /\ (LimitsFit => Cause(cl, status)),
         NEW out, out = [cl EXCEPT !.answers = Append(@, status)]
  PROVE  /\ ClientOK(out)
         /\ out.script = cl.script /\ out.received = cl.received
         /\ out.consumed = cl.consumed /\ out.taken = cl.taken
         /\ Len(out.answers) = n + 1 /\ out.answers[n + 1] = status
         /\ \A i \in 1..n : out.answers[i] = 200
<1>1. /\ cl.taken \in Nat /\ n \in Nat /\ cl.answers \in Seq(Statuses)
  BY ClientFacts
<1>2. cl \in ClientStates
  BY DEF ClientOK
<1>3. /\ out.script = cl.script /\ out.received = cl.received /\ out.consumed = cl.consumed
      /\ out.taken = cl.taken /\ out.answers = Append(cl.answers, status)
  BY <1>2 DEF ClientStates
<1>4. out \in ClientStates
  <2> DEFINE answers == Append(cl.answers, status)
  <2>1. answers \in Seq(Statuses)
    BY <1>1
  <2>2. out = [cl EXCEPT !.answers = answers]
    OBVIOUS
  <2> HIDE DEF answers
  <2>3. [cl EXCEPT !.answers = answers] \in ClientStates
    BY <1>2, <2>1, SetAnswers, Zenon DEF ClientStates
  <2> QED BY <2>2, <2>3, Zenon
<1>5. /\ Len(out.answers) = n + 1 /\ out.answers[n + 1] = status
      /\ \A i \in 1..n : out.answers[i] = 200
  BY <1>1, <1>3
<1>6. ASSUME NEW i \in 1..Len(out.answers) PROVE AnswerOK(out, i)
  <2>1. CASE i <= n
    <3>1. out.answers[i] = 200 /\ i <= cl.taken + 1
      BY <1>1, <1>5, <2>1
    <3>2. i <= cl.taken
      BY <1>1, <2>1
    <3> QED BY <1>3, <3>1, <3>2 DEF AnswerOK
  <2>2. CASE i = n + 1
    BY <1>1, <1>3, <1>5, <2>2 DEF AnswerOK
  <2> QED BY <1>1, <1>5, <2>1, <2>2
<1>7. ASSUME LimitsFit, NEW i \in 1..Len(out.answers), i > cl.taken
      PROVE  Cause(out, out.answers[i])
  <2>1. i = n + 1 /\ n = cl.taken
    BY <1>1, <1>5, <1>7
  <2>2. Cause(cl, status)
    BY <1>1, <1>7, <2>1
  <2>3. NextRequest(out) = NextRequest(cl)
    BY <1>3 DEF NextRequest
  <2> QED BY <1>3, <1>5, <2>1, <2>2, <2>3 DEF Cause
<1> QED BY <1>3, <1>4, <1>5, <1>6, <1>7 DEF ClientOK

(* What the parser's verdict says of the next request.                     *)
LEMMA ParseFacts ==
  ASSUME NEW cl, ClientOK(cl), NEW len \in Nat, len > 0, cl.received = cl.consumed + len
  PROVE  LET r == NextRequest(cl)
             result == tryParse(cl, len)
         IN /\ cl.taken + 1 \in 1..Len(cl.script.requests)
            /\ r = cl.script.requests[cl.taken + 1] /\ Total(r) \in Nat
            /\ EndOf(cl.script, cl.taken + 1) = cl.consumed + Total(r)
            /\ result \in DOMAIN StatusOf \cup {"incomplete", "complete"}
            /\ result # "request_too_large"
            /\ result = "complete" => Accepted(r) /\ Total(r) <= len
            /\ result = "incomplete" => len < Total(r)
            /\ result = "invalid" => r.flaw # "none"
            /\ result = "header_too_large" => r.head > MaxHeader
            /\ result = "body_too_large" => r.body > MaxBody
<1> DEFINE requests == cl.script.requests
           t == cl.taken
           r == requests[t + 1]
<1>1. /\ t \in Nat /\ t <= Len(requests) /\ cl.consumed \in Nat
      /\ cl.consumed = EndOf(cl.script, t) /\ cl.received <= cl.script.bytes
  BY ClientFacts DEF ClientOK
<1>2. /\ requests \in Seq(Request) /\ cl.script.bytes \in Nat
      /\ \A i \in 1..Len(requests) :
           cl.script.ends[i] = EndOf(cl.script, i - 1) + Total(requests[i])
      /\ cl.script.bytes <= EndOf(cl.script, Len(requests))
  BY ClientFacts DEF IsScript
<1>3. t # Len(requests)
  <2>1. EndOf(cl.script, t) \in Nat /\ EndOf(cl.script, t) < cl.script.bytes
    BY <1>1, <1>2
  <2> SUFFICES ASSUME t = Len(requests) PROVE FALSE
    OBVIOUS
  <2>2. EndOf(cl.script, Len(requests)) = EndOf(cl.script, t)
    OBVIOUS
  <2> HIDE DEF t, requests
  <2> QED BY <1>2, <2>1, <2>2
<1>4. t + 1 \in 1..Len(requests)
  BY <1>1, <1>2, <1>3
<1>5. r \in Request
  BY <1>2, <1>4
<1>6. r.head \in Nat /\ r.body \in Nat /\ Total(r) = r.head + r.body /\ r.flaw \in Flaws
  BY <1>5 DEF Request, Total
<1>7. EndOf(cl.script, t + 1) = cl.consumed + Total(r)
  <2>1. cl.script.ends[t + 1] = EndOf(cl.script, (t + 1) - 1) + Total(r)
    BY <1>2, <1>4
  <2>2. (t + 1) - 1 = t /\ t + 1 # 0
    BY <1>1
  <2>3. EndOf(cl.script, t + 1) = cl.script.ends[t + 1]
    BY <2>2 DEF EndOf
  <2> QED BY <1>1, <2>1, <2>2, <2>3
<1>8. NextRequest(cl) = r
  BY DEF NextRequest
<1> HIDE DEF r, t, requests
<1>9. LET result == tryParse(cl, len) IN
            /\ result \in DOMAIN StatusOf \cup {"incomplete", "complete"}
            /\ result # "request_too_large"
            /\ result = "complete" => Accepted(r) /\ Total(r) <= len
            /\ result = "incomplete" => len < Total(r)
            /\ result = "invalid" => r.flaw # "none"
            /\ result = "header_too_large" => r.head > MaxHeader
            /\ result = "body_too_large" => r.body > MaxBody
  BY <1>6, <1>8, HttpAssumption DEF tryParse, StatusOf, Accepted, Flaws
<1> QED BY <1>4, <1>6, <1>7, <1>8, <1>9 DEF r, t, requests

-----------------------------------------------------------------------------
(* The steps of _handle_connection outside http_read_request.              *)

(* A step of c that leaves its buffer and the recycler alone.              *)
LEMMA PlainStep ==
  ASSUME IInv, NEW c \in Conns, pc[c] # "idle", UNCHANGED <<bufferVars, serving, up>>,
         NEW rq, request' = [request EXCEPT ![c] = rq],
         NEW p \in Points, p # "idle", Goto(c, p),
         NEW cl, client' = [client EXCEPT ![serving[c]] = cl], ClientOK(cl),
         RequestOK(input[c], arena[c], rq, p, serving[c]), RoomOK(c, input[c], p),
         SessionOK(input[c], p, serving[c], cl)
  PROVE  IInv'
<1>1. Sessions /\ Memory /\ up \in BOOLEAN
  BY DEF IInv
<1>2. UNCHANGED <<input, arena, bins, size, serving, up>>
  BY DEF bufferVars
<1>3. arena \in [Conns -> Nat] /\ serving \in [Conns -> Clients \cup {None}] /\ DOMAIN input = Conns
  BY <1>1 DEF Sessions, Types
<1>4. /\ serving[c] \in Clients /\ \A d \in Conns \ {c} : serving[d] # serving[c]
      /\ serving[c] # None /\ IsInput(input[c]) /\ arena[c] \in 0..1
  BY <1>1, Served
<1>5. arena' = [arena EXCEPT ![c] = arena[c]] /\ serving' = [serving EXCEPT ![c] = serving[c]]
  BY <1>2, <1>3
<1>6. ConnOK(c, input[c], arena[c], rq, p, serving[c], cl)
  BY <1>4 DEF ConnOK
<1>7. Sessions'
  BY <1>1, <1>2, <1>3, <1>4, <1>5, <1>6, StepOfOne DEF Goto
<1>8. Memory'
  BY <1>1, <1>2, MemoryKept
<1> QED BY <1>1, <1>2, <1>7, <1>8 DEF IInv

(* What the connection at work knows of its client.                        *)
LEMMA Working ==
  ASSUME IInv, NEW c \in Conns, pc[c] # "idle", NEW cl, cl = client[serving[c]]
  PROVE  /\ serving[c] \in Clients /\ serving[c] # None /\ ClientOK(cl) /\ cl # None
         /\ \A d \in Conns \ {c} : serving[d] # serving[c]
         /\ SessionOK(input[c], pc[c], serving[c], cl)
         /\ IsInput(input[c]) /\ arena[c] \in 0..1 /\ pc[c] \in Points
         /\ RequestOK(input[c], arena[c], request[c], pc[c], serving[c])
         /\ RoomOK(c, input[c], pc[c])
         /\ request = [request EXCEPT ![c] = request[c]]
         /\ client = [client EXCEPT ![serving[c]] = cl]
         /\ pc \in [Conns -> Points] /\ request[c] \in Pointers \cup {None}
         /\ cl.taken \in Nat /\ Len(cl.answers) \in Nat /\ cl.received \in Nat /\ cl.consumed \in Nat
<1>1. Sessions /\ Types
  BY DEF IInv, Sessions
<1>2. request = [request EXCEPT ![c] = request[c]] /\ client = [client EXCEPT ![serving[c]] = cl]
  BY <1>1, Served DEF Types
<1>3. ClientOK(cl)
  BY <1>1, Served
<1> QED BY <1>1, <1>2, <1>3, Served, ClientFacts DEF Types

(* Without a request object there is nothing to keep.                      *)
LEMMA NoRequest ==
  ASSUME NEW in, NEW ar, NEW p, NEW k
  PROVE  RequestOK(in, ar, None, p, k)
BY DEF RequestOK

(* Where a connection only closes, little is asked of it.                  *)
LEMMA ClosingOK ==
  ASSUME NEW c \in Conns, NEW in, NEW p, NEW q \in {"closing", "refuse"}, NEW k, NEW cl,
         RoomOK(c, in, p), SessionOK(in, p, k, cl), p \in Points \ {"idle"}, ClientOK(cl)
  PROVE  RoomOK(c, in, q) /\ SessionOK(in, q, k, cl)
BY ClientFacts DEF RoomOK, SessionOK, Points

(* To give up on a connection asks for nothing.                            *)
LEMMA ClosingKeeps ==
  ASSUME IInv, NEW c \in Conns, pc[c] # "idle", UNCHANGED <<bufferVars, serving, up, client>>,
         \/ Invalidated(c)
         \/ UNCHANGED request /\ pc[c] \in {"recv", "refuse"},
         Goto(c, "closing")
  PROVE  IInv'
<1> DEFINE cl == client[serving[c]]
<1>1. /\ ClientOK(cl) /\ pc[c] \in Points \ {"idle"}
      /\ SessionOK(input[c], pc[c], serving[c], cl) /\ RoomOK(c, input[c], pc[c])
      /\ RequestOK(input[c], arena[c], request[c], pc[c], serving[c])
      /\ request = [request EXCEPT ![c] = request[c]]
      /\ client = [client EXCEPT ![serving[c]] = cl]
  BY Working
<1> HIDE DEF cl
<1>2. RoomOK(c, input[c], "closing") /\ SessionOK(input[c], "closing", serving[c], cl)
  BY <1>1, ClosingOK
<1>3. request' = [request EXCEPT ![c] = None]
  BY <1>1 DEF Invalidated, RequestOK
<1>4. client' = [client EXCEPT ![serving[c]] = cl]
  BY <1>1
<1>5. "closing" \in Points /\ "closing" # "idle"
  BY DEF Points
<1> QED BY <1>1, <1>2, <1>3, <1>4, <1>5, NoRequest, PlainStep

(* An OSError from recv closes the connection.                             *)
LEMMA ReceiveFailsKeeps ==
  ASSUME IInv, NEW c \in Conns, ReceiveFails(c)
  PROVE  IInv'
BY ClosingKeeps DEF ReceiveFails

(* So does the end of a refusal.                                           *)
LEMMA RefusedKeeps ==
  ASSUME IInv, NEW c \in Conns, Refused(c)
  PROVE  IInv'
BY ClosingKeeps DEF Refused

(* A response that cannot be sent invalidates the request and closes.      *)
LEMMA AbandonKeeps ==
  ASSUME IInv, NEW c \in Conns, Abandon(c)
  PROVE  IInv'
BY ClosingKeeps DEF Abandon

(* So does one that cannot be formatted.                                   *)
LEMMA RespondRaisesKeeps ==
  ASSUME IInv, NEW c \in Conns, RespondRaises(c)
  PROVE  IInv'
BY ClosingKeeps DEF RespondRaises

(* Respond and HandlerRaises: the answer to the request at hand.           *)
LEMMA AnswerKeeps ==
  ASSUME IInv, NEW c \in Conns, pc[c] = "handler",
         UNCHANGED <<bufferVars, request, serving, up>>,
         NEW status, NEW p, Answer(c, status), Goto(c, p),
         <<p, status>> \in {<<"respond", 200>>, <<"fail", 500>>}
  PROVE  IInv'
<1> DEFINE cl == client[serving[c]]
           n == Len(cl.answers)
           out == [cl EXCEPT !.answers = Append(@, status)]
<1>0. \/ p = "respond" /\ status = 200
      \/ p = "fail" /\ status = 500
  OBVIOUS
<1>1. /\ ClientOK(cl) /\ SessionOK(input[c], pc[c], serving[c], cl) /\ RoomOK(c, input[c], pc[c])
      /\ RequestOK(input[c], arena[c], request[c], pc[c], serving[c])
      /\ request = [request EXCEPT ![c] = request[c]]
      /\ cl.taken \in Nat /\ n \in Nat /\ serving[c] \in Clients
  BY Working
<1>2. client \in [Clients -> ClientStates \cup {None}]
  BY DEF IInv, Sessions, Types
<1>3. client' = [client EXCEPT ![serving[c]] = out]
  BY <1>1, <1>2 DEF Answer
<1> HIDE DEF cl
<1>4. n = cl.taken - 1 /\ \A i \in 1..n : cl.answers[i] = 200
  BY <1>1 DEF SessionOK
<1>5. n + 1 <= cl.taken /\ status \in {200, 500} /\ status \in Statuses
  BY <1>0, <1>1, <1>4 DEF Statuses
<1>6. /\ ClientOK(out)
      /\ out.script = cl.script /\ out.received = cl.received
      /\ out.consumed = cl.consumed /\ out.taken = cl.taken
      /\ Len(out.answers) = n + 1 /\ out.answers[n + 1] = status
      /\ \A i \in 1..n : out.answers[i] = 200
  BY <1>1, <1>4, <1>5, Answered
<1> HIDE DEF n, out
<1>7. SessionOK(input[c], p, serving[c], out)
  <2>1. Len(out.answers) = out.taken
    BY <1>1, <1>4, <1>6
  <2>2. p = "respond" => \A i \in 1..Len(out.answers) : out.answers[i] = 200
    <3> SUFFICES ASSUME p = "respond", NEW i \in 1..(n + 1) PROVE out.answers[i] = 200
      BY <1>6
    <3>1. CASE i = n + 1
      BY <1>0, <1>6, <3>1
    <3>2. CASE i # n + 1
      <4>1. i \in 1..n
        BY <1>1, <3>2
      <4> QED BY <1>6, <4>1
    <3> QED BY <3>1, <3>2
  <2>3. /\ out # None /\ out.received = out.consumed + UnconsumedLen(input[c])
        /\ Holds(input[c], serving[c], out.consumed)
    BY <1>1, <1>6, ClientFacts DEF SessionOK
  <2> QED BY <1>0, <2>1, <2>2, <2>3 DEF SessionOK
<1>8. RoomOK(c, input[c], p) /\ RequestOK(input[c], arena[c], request[c], p, serving[c])
  BY <1>0, <1>1 DEF RoomOK, RequestOK
<1>9. request' = [request EXCEPT ![c] = request[c]] /\ p \in Points /\ p # "idle" /\ pc[c] # "idle"
  BY <1>0, <1>1 DEF Points
<1> QED BY <1>3, <1>6, <1>7, <1>8, <1>9, PlainStep

(* The handler returns.                                                    *)
LEMMA RespondKeeps ==
  ASSUME IInv, NEW c \in Conns, Respond(c)
  PROVE  IInv'
BY AnswerKeeps DEF Respond

(* The handler raises.                                                     *)
LEMMA HandlerRaisesKeeps ==
  ASSUME IInv, NEW c \in Conns, HandlerRaises(c)
  PROVE  IInv'
BY AnswerKeeps DEF HandlerRaises

(* The response is sent: the next call starts within the limits.           *)
LEMMA RespondedKeeps ==
  ASSUME IInv, NEW c \in Conns, Responded(c)
  PROVE  IInv'
<1> DEFINE cl == client[serving[c]]
<1>0. pc[c] = "respond" /\ UNCHANGED <<bufferVars, serving, up, client>> /\ Invalidated(c)
  BY DEF Responded
<1>1. CASE Goto(c, "closing")
  BY <1>0, <1>1, ClosingKeeps
<1>2. CASE Goto(c, "read")
  <2>1. /\ ClientOK(cl) /\ SessionOK(input[c], pc[c], serving[c], cl) /\ RoomOK(c, input[c], pc[c])
        /\ client = [client EXCEPT ![serving[c]] = cl]
    BY <1>0, Working
  <2> HIDE DEF cl
  <2>2. RoomOK(c, input[c], "read") /\ SessionOK(input[c], "read", serving[c], cl)
    BY <1>0, <2>1 DEF RoomOK, SessionOK
  <2>3. /\ request' = [request EXCEPT ![c] = None] /\ client' = [client EXCEPT ![serving[c]] = cl]
        /\ "read" \in Points /\ "read" # "idle" /\ pc[c] # "idle"
    BY <1>0, <2>1 DEF Invalidated, Points
  <2> QED BY <1>0, <1>2, <2>1, <2>2, <2>3, NoRequest, PlainStep
<1>3. Goto(c, "closing") \/ Goto(c, "read")
  BY DEF Responded
<1> QED BY <1>1, <1>2, <1>3

(* A connection that is idle holds nothing of an earlier client.           *)
LEMMA ConnectKeeps ==
  ASSUME IInv, NEW c \in Conns, NEW k \in Clients, Connect(c, k)
  PROVE  IInv'
<1>1. Sessions /\ Memory /\ up \in BOOLEAN /\ Types /\ Session(c)
  BY DEF IInv, Sessions
<1>2. UNCHANGED <<input, arena, bins, size, request, up>> /\ pc[c] = "idle" /\ client[k] = None
  BY DEF Connect, bufferVars
<1>3. PICK script \in Scripts :
        client' = [client EXCEPT ![k] =
          [script |-> script, received |-> 0, consumed |-> 0, taken |-> 0, answers |-> <<>>]]
  BY DEF Connect
<1> DEFINE cl == [script |-> script, received |-> 0, consumed |-> 0, taken |-> 0, answers |-> <<>>]
<1>4. ClientOK(cl) /\ cl.received = 0 /\ cl.consumed = 0 /\ cl.taken = 0 /\ Len(cl.answers) = 0
  <2>1. cl \in ClientStates
    BY DEF ClientStates
  <2>2. IsScript(script)
    BY HttpAssumption
  <2>3. Len(script.requests) \in Nat /\ script.bytes \in Nat
    BY <2>2 DEF IsScript
  <2> QED BY <2>1, <2>2, <2>3 DEF ClientOK, EndOf
<1>5. client' = [client EXCEPT ![k] = cl] /\ cl # None
  BY <1>3, <1>4, ClientFacts
<1> HIDE DEF cl
<1>6. /\ IsInput(input[c]) /\ arena[c] \in 0..1 /\ RoomOK(c, input[c], "idle")
      /\ RequestOK(input[c], arena[c], request[c], "idle", serving[c])
  BY <1>1, <1>2 DEF Session, ConnOK
<1>7. request[c] = None
  BY <1>6 DEF RequestOK
<1>8. /\ UnconsumedLen(input[c]) = 0 /\ input[c].rd = input[c].wr /\ RoomOK(c, input[c], "read")
      /\ input[c].rd \in Nat /\ input[c].wr \in Nat
  BY <1>6, InputFacts DEF RoomOK
<1>9. SessionOK(input[c], "read", k, cl)
  <2>1. Holds(input[c], k, cl.consumed)
    BY <1>8 DEF Holds
  <2> QED BY <1>4, <1>5, <1>8, <2>1 DEF SessionOK
<1>10. k # None
  BY HttpAssumption
<1>11. ConnOK(c, input[c], arena[c], None, "read", k, cl)
  BY <1>6, <1>8, <1>9, <1>10, NoRequest DEF ConnOK
<1>12. \A d \in Conns \ {c} : serving[d] # k
  <2> SUFFICES ASSUME NEW d \in Conns, serving[d] = k PROVE FALSE
    OBVIOUS
  <2>1. pc[d] # "idle"
    BY <1>1, <1>10 DEF Sessions, Session, ConnOK
  <2> QED BY <1>1, <1>2, <2>1, Served
<1>13. /\ arena' = [arena EXCEPT ![c] = arena[c]] /\ request' = [request EXCEPT ![c] = None]
       /\ pc' = [pc EXCEPT ![c] = "read"] /\ serving' = [serving EXCEPT ![c] = k]
       /\ DOMAIN input' = Conns /\ "read" \in Points
  BY <1>1, <1>2, <1>7 DEF Types, Connect, Goto, Points
<1>14. Sessions'
  BY <1>1, <1>2, <1>4, <1>5, <1>11, <1>12, <1>13, StepOfOne
<1>15. Memory'
  BY <1>1, <1>2, MemoryKept
<1> QED BY <1>1, <1>2, <1>14, <1>15 DEF IInv

(* Connection.reset gives the buffer back.                                 *)
LEMMA ClosedKeeps ==
  ASSUME IInv, NEW c \in Conns, Closed(c)
  PROVE  IInv'
<1> DEFINE cl == client[serving[c]]
           in == InlineBuffer(c)
<1>1. Sessions /\ Memory /\ up \in BOOLEAN /\ Types
  BY DEF IInv, Sessions
<1>2. /\ pc[c] = "closing" /\ input' = [input EXCEPT ![c] = in]
      /\ arena' = [arena EXCEPT ![c] = 0] /\ Release(c, input[c], bins, size)
      /\ serving' = [serving EXCEPT ![c] = None] /\ pc' = [pc EXCEPT ![c] = "idle"]
      /\ UNCHANGED <<request, client, up>>
  BY DEF Closed, Goto
<1>3. /\ ClientOK(cl) /\ serving[c] \in Clients /\ \A d \in Conns \ {c} : serving[d] # serving[c]
      /\ RequestOK(input[c], arena[c], request[c], pc[c], serving[c])
      /\ client = [client EXCEPT ![serving[c]] = cl]
      /\ request = [request EXCEPT ![c] = request[c]] /\ IsInput(input[c])
  BY <1>2, Working
<1>4. request[c] = None
  BY <1>2, <1>3 DEF RequestOK
<1>5. /\ DOMAIN input' = Conns /\ input'[c] = in /\ \A d \in Conns \ {c} : input'[d] = input[d]
  BY <1>1, <1>2 DEF Types
<1>6. IsInput(in) /\ in.buf = c /\ in.cap = Inline /\ UnconsumedLen(in) = 0
  BY InlineIs
<1> HIDE DEF cl, in
<1>7. RoomOK(c, in, "idle")
  BY <1>6, HttpAssumption DEF RoomOK, Limit
<1>8. ConnOK(c, in, 0, None, "idle", None, cl)
  BY <1>6, <1>7, NoRequest DEF ConnOK
<1>9. /\ request' = [request EXCEPT ![c] = None] /\ client' = [client EXCEPT ![serving[c]] = cl]
      /\ "idle" \in Points
  BY <1>2, <1>3, <1>4 DEF Points
<1>10. Sessions'
  <2> DEFINE k == serving[c]
             sv == None
             p == "idle"
  <2>1. /\ sv \in {k, None} /\ k \in Clients /\ \A d \in Conns \ {c} : serving[d] # k
        /\ p \in Points /\ client' = [client EXCEPT ![k] = cl]
        /\ serving' = [serving EXCEPT ![c] = sv] /\ pc' = [pc EXCEPT ![c] = p]
        /\ ConnOK(c, in, 0, None, p, sv, cl)
    BY <1>2, <1>3, <1>8, <1>9
  <2>2. /\ arena' = [arena EXCEPT ![c] = 0] /\ request' = [request EXCEPT ![c] = None]
        /\ Sessions /\ ClientOK(cl)
    BY <1>1, <1>2, <1>3, <1>9
  <2> HIDE DEF k, sv, p
  <2> QED BY <1>5, <2>1, <2>2, StepOfOne
<1>11. Memory'
  <2>1. /\ bins \in [Sizes -> SUBSET Buffers] /\ size \in [Buffers -> Sizes \cup {0}]
        /\ BuffersOwned
    BY <1>1 DEF Memory
  <2>2. /\ \A d \in Conns : \/ input[d].buf = d /\ input[d].cap = Inline
                            \/ input[d].buf \in Buffers /\ size[input[d].buf] = input[d].cap
        /\ \A d, e \in Conns : input[d].buf = input[e].buf => d = e
        /\ \A s \in Sizes : \A b \in bins[s] : size[b] = s /\ \A d \in Conns : input[d].buf # b
        /\ \A b \in Buffers : size[b] # 0 => \/ \E d \in Conns : input[d].buf = b
                                             \/ \E s \in Sizes : b \in bins[s]
    BY <2>1 DEF BuffersOwned
  <2>3. Conns \cap Buffers = {} /\ input[c].cap \in Sizes
    BY <1>3, InputFacts, HttpAssumption
  <2>4. input[c].buf # c => input[c].buf \in Buffers /\ size[input[c].buf] = input[c].cap
    BY <2>2
  <2>5. OwnedBut(input', bins, size, GivenUp(c, input[c]))
    <3>1. \A d \in Conns : \/ input'[d].buf = d /\ input'[d].cap = Inline
                           \/ input'[d].buf \in Buffers /\ size[input'[d].buf] = input'[d].cap
      BY <1>5, <1>6, <2>2
    <3>2. \A d \in Conns \ {c} : input'[d].buf # c
      BY <1>5, <2>2, <2>3
    <3>3. \A d, e \in Conns : input'[d].buf = input'[e].buf => d = e
      BY <1>5, <1>6, <2>2, <3>2
    <3>4. \A s \in Sizes : \A b \in bins[s] :
            size[b] = s /\ b \notin GivenUp(c, input[c]) /\ \A d \in Conns : input'[d].buf # b
      BY <1>5, <1>6, <2>1, <2>2, <2>3 DEF GivenUp
    <3>5. \A b \in GivenUp(c, input[c]) :
            b \in Buffers /\ size[b] \in Sizes /\ \A d \in Conns : input'[d].buf # b
      BY <1>5, <1>6, <2>2, <2>3, <2>4 DEF GivenUp
    <3>6. \A b \in Buffers : size[b] # 0 => \/ \E d \in Conns : input'[d].buf = b
                                            \/ \E s \in Sizes : b \in bins[s]
                                            \/ b \in GivenUp(c, input[c])
      <4> SUFFICES ASSUME NEW b \in Buffers, size[b] # 0, \A s \in Sizes : b \notin bins[s]
                   PROVE  \/ \E d \in Conns : input'[d].buf = b
                          \/ b \in GivenUp(c, input[c])
        OBVIOUS
      <4>1. PICK d \in Conns : input[d].buf = b
        BY <2>2
      <4>2. CASE d = c
        BY <2>3, <4>1, <4>2 DEF GivenUp
      <4>3. CASE d # c
        BY <1>5, <4>1, <4>3
      <4> QED BY <4>2, <4>3
    <3> QED BY <3>1, <3>3, <3>4, <3>5, <3>6 DEF OwnedBut
  <2>6. /\ bins' \in [Sizes -> SUBSET Buffers] /\ size' \in [Buffers -> Sizes \cup {0}]
        /\ OwnedBut(input', bins', size', {})
    BY <1>2, <2>1, <2>3, <2>4, <2>5, ReleaseOwns
  <2>7. BuffersOwned'
    BY <2>6 DEF OwnedBut, BuffersOwned
  <2> QED BY <2>6, <2>7 DEF Memory
<1> QED BY <1>1, <1>2, <1>10, <1>11 DEF IInv

-----------------------------------------------------------------------------
(* http_read_request.                                                      *)

(* A call of http_read_request by c whose buffer and client are, where the *)
(* code stands, "in" and "cl".                                             *)
Reading(c, in, cl) ==
  /\ pc[c] \in {"read", "recv"}
  /\ IsInput(in) /\ in.buf = input[c].buf /\ in.cap = input[c].cap
  /\ ClientOK(cl)
  /\ cl.received = cl.consumed + UnconsumedLen(in)
  /\ Holds(in, serving[c], cl.consumed)
  /\ Len(cl.answers) = cl.taken
  /\ \A i \in 1..Len(cl.answers) : cl.answers[i] = 200

(* A step of http_read_request keeps the invariant if it keeps c's session.*)
LEMMA ReadStep ==
  ASSUME IInv, NEW c \in Conns, pc[c] # "idle", serving' = serving, up' \in BOOLEAN, Memory',
         NEW in, IsInput(in), DOMAIN input' = Conns, input'[c] = in,
         \A d \in Conns \ {c} : input'[d] = input[d],
         NEW ar \in 0..1, arena' = [arena EXCEPT ![c] = ar],
         NEW rq, request' = [request EXCEPT ![c] = rq],
         NEW p \in Points, p # "idle", Goto(c, p),
         NEW cl, client' = [client EXCEPT ![serving[c]] = cl], ClientOK(cl),
         RequestOK(in, ar, rq, p, serving[c]), RoomOK(c, in, p),
         SessionOK(in, p, serving[c], cl)
  PROVE  IInv'
<1>1. Sessions /\ serving \in [Conns -> Clients \cup {None}]
  BY DEF IInv, Sessions, Types
<1>2. serving[c] \in Clients /\ \A d \in Conns \ {c} : serving[d] # serving[c]
  BY <1>1, Served
<1>3. serving' = [serving EXCEPT ![c] = serving[c]]
  BY <1>1
<1>4. ConnOK(c, in, ar, rq, p, serving[c], cl)
  BY <1>1, Served DEF ConnOK
<1>5. Sessions'
  BY <1>1, <1>2, <1>3, <1>4, StepOfOne DEF Goto
<1> QED BY <1>5 DEF IInv

(* input' when connection c's buffer becomes "in".                         *)
LEMMA InputStep ==
  ASSUME IInv, NEW c \in Conns, NEW in, input' = [input EXCEPT ![c] = in]
  PROVE  /\ DOMAIN input' = Conns /\ input'[c] = in
         /\ \A d \in Conns \ {c} : input'[d] = input[d]
BY DEF IInv, Sessions, Types

(* A step that changes only the positions and the content of a buffer.     *)
LEMMA SameBuffer ==
  ASSUME IInv, NEW c \in Conns, NEW in, input' = [input EXCEPT ![c] = in],
         in.buf = input[c].buf, in.cap = input[c].cap, UNCHANGED <<bins, size>>
  PROVE  Memory'
<1>1. Memory
  BY DEF IInv
<1>2. \A d \in Conns : input'[d].buf = input[d].buf /\ input'[d].cap = input[d].cap
  BY InputStep
<1> QED BY <1>1, <1>2, MemoryKept

(* What a read in progress does not touch.                                 *)
LEMMA ReadingFacts ==
  ASSUME IInv, NEW c \in Conns, NEW in, NEW cl, Reading(c, in, cl)
  PROVE  /\ pc[c] # "idle" /\ request[c] = None
         /\ request = [request EXCEPT ![c] = None]
         /\ serving[c] \in Clients /\ serving[c] # None
         /\ LimitsFit /\ in.buf # c => in.cap <= MaxClass
         /\ UnconsumedLen(in) \in Nat /\ cl.consumed \in Nat /\ cl.received \in Nat
         /\ cl.taken \in Nat /\ cl # None
<1>1. pc[c] \in {"read", "recv"} /\ pc[c] # "idle"
  BY DEF Reading
<1>2. /\ RequestOK(input[c], arena[c], request[c], pc[c], serving[c])
      /\ request = [request EXCEPT ![c] = request[c]]
      /\ serving[c] \in Clients /\ serving[c] # None /\ RoomOK(c, input[c], pc[c])
  BY <1>1, Working
<1>3. request[c] = None
  BY <1>1, <1>2 DEF RequestOK
<1>4. /\ UnconsumedLen(in) \in Nat /\ cl.consumed \in Nat /\ cl.received \in Nat
      /\ cl.taken \in Nat /\ cl # None
  BY InputFacts, ClientFacts DEF Reading
<1>5. LimitsFit /\ in.buf # c => in.cap <= MaxClass
  BY <1>2 DEF Reading, RoomOK
<1> QED BY <1>1, <1>2, <1>3, <1>4, <1>5

(* An answer with its cause refuses the request.                           *)
LEMMA RefuseKeeps ==
  ASSUME IInv, NEW c \in Conns, NEW in, NEW cl, Reading(c, in, cl), serving' = serving,
         NEW ar \in 0..1, arena' = [arena EXCEPT ![c] = ar],
         NEW why \in DOMAIN StatusOf, Refuse(c, in, cl, why),
         LimitsFit => Cause(cl, StatusOf[why])
  PROVE  IInv'
<1> DEFINE status == StatusOf[why]
           n == Len(cl.answers)
           out == [cl EXCEPT !.answers = Append(@, status)]
<1>1. /\ pc[c] # "idle" /\ request = [request EXCEPT ![c] = None]
      /\ LimitsFit /\ in.buf # c => in.cap <= MaxClass
  BY ReadingFacts
<1>2. /\ input' = [input EXCEPT ![c] = in] /\ client' = [client EXCEPT ![serving[c]] = out]
      /\ Goto(c, "refuse") /\ UNCHANGED <<bins, size, request, up>>
  BY DEF Refuse
<1>3. status \in {400, 413, 431}
  BY DEF StatusOf
<1>4. /\ IsInput(in) /\ in.buf = input[c].buf /\ in.cap = input[c].cap
      /\ ClientOK(cl) /\ n = cl.taken /\ \A i \in 1..n : cl.answers[i] = 200
      /\ cl.received = cl.consumed + UnconsumedLen(in) /\ Holds(in, serving[c], cl.consumed)
  BY DEF Reading
<1>5. /\ ClientOK(out)
      /\ out.received = cl.received /\ out.consumed = cl.consumed /\ out.taken = cl.taken
      /\ Len(out.answers) = n + 1
  <2>1. status \in Statuses
    BY <1>3 DEF Statuses
  <2>2. LimitsFit => Cause(cl, status)
    OBVIOUS
  <2> HIDE DEF status
  <2> QED BY <1>3, <1>4, <2>1, <2>2, Answered
<1> HIDE DEF status, out
<1>6. SessionOK(in, "refuse", serving[c], out)
  <2>1. out # None /\ out.taken \in Nat /\ n \in Nat
    BY <1>4, <1>5, ClientFacts
  <2> HIDE DEF n
  <2> QED BY <1>4, <1>5, <2>1 DEF SessionOK
<1>7. RoomOK(c, in, "refuse")
  BY <1>1 DEF RoomOK
<1>8. Memory' /\ up' \in BOOLEAN
  BY <1>2, <1>4, SameBuffer DEF IInv
<1>9. /\ DOMAIN input' = Conns /\ input'[c] = in /\ \A d \in Conns \ {c} : input'[d] = input[d]
      /\ request' = [request EXCEPT ![c] = None] /\ "refuse" \in Points /\ "refuse" # "idle"
  BY <1>1, <1>2, InputStep DEF Points
<1> QED BY <1>1, <1>2, <1>4, <1>5, <1>6, <1>7, <1>8, <1>9, NoRequest, ReadStep

(* Out of memory closes the connection, whatever it holds.                 *)
LEMMA OutOfMemoryKeeps ==
  ASSUME IInv, NEW c \in Conns, NEW in, NEW cl, Reading(c, in, cl), serving' = serving,
         NEW ar \in 0..1, arena' = [arena EXCEPT ![c] = ar], OutOfMemory(c, in, cl)
  PROVE  IInv'
<1>1. /\ pc[c] # "idle" /\ request = [request EXCEPT ![c] = None] /\ cl # None
      /\ LimitsFit /\ in.buf # c => in.cap <= MaxClass
  BY ReadingFacts
<1>2. /\ input' = [input EXCEPT ![c] = in] /\ client' = [client EXCEPT ![serving[c]] = cl]
      /\ Goto(c, "closing") /\ UNCHANGED <<bins, size, request>> /\ up' = FALSE
  BY DEF OutOfMemory
<1>3. /\ IsInput(in) /\ in.buf = input[c].buf /\ in.cap = input[c].cap /\ ClientOK(cl)
  BY DEF Reading
<1>4. SessionOK(in, "closing", serving[c], cl)
  BY <1>1, ReadingFacts DEF Reading, SessionOK
<1>5. RoomOK(c, in, "closing")
  BY <1>1 DEF RoomOK
<1>6. Memory' /\ up' \in BOOLEAN
  BY <1>2, <1>3, SameBuffer
<1>7. /\ DOMAIN input' = Conns /\ input'[c] = in /\ \A d \in Conns \ {c} : input'[d] = input[d]
      /\ request' = [request EXCEPT ![c] = None] /\ "closing" \in Points /\ "closing" # "idle"
  BY <1>1, <1>2, InputStep DEF Points
<1> QED BY <1>1, <1>2, <1>3, <1>4, <1>5, <1>6, <1>7, NoRequest, ReadStep

(* The next request of a client, of n bytes, is taken.                     *)
Takes(cl, n, out) ==
  /\ n \in Nat /\ cl.consumed + n <= cl.received
  /\ cl.taken + 1 \in 1..Len(cl.script.requests)
  /\ EndOf(cl.script, cl.taken + 1) = cl.consumed + n
  /\ Accepted(cl.script.requests[cl.taken + 1]) /\ Len(cl.answers) = cl.taken
  /\ out = [cl EXCEPT !.taken = @ + 1, !.consumed = @ + n]

(* A client whose next request is complete has it taken.                   *)
LEMMA Taken ==
  ASSUME NEW cl, ClientOK(cl), NEW n, NEW out, Takes(cl, n, out)
  PROVE  /\ ClientOK(out) /\ out.received = cl.received /\ out.consumed = cl.consumed + n
         /\ out.taken = cl.taken + 1 /\ out.answers = cl.answers
<1> DEFINE taken == cl.taken + 1
           consumed == cl.consumed + n
           mid == [cl EXCEPT !.taken = taken]
<1>0. /\ n \in Nat /\ cl.consumed + n <= cl.received
      /\ cl.taken + 1 \in 1..Len(cl.script.requests)
      /\ EndOf(cl.script, cl.taken + 1) = cl.consumed + n
      /\ Accepted(cl.script.requests[cl.taken + 1]) /\ Len(cl.answers) = cl.taken
      /\ out = [cl EXCEPT !.taken = @ + 1, !.consumed = @ + n]
  BY DEF Takes
<1> USE <1>0
<1>1. /\ cl \in ClientStates /\ cl.taken \in Nat /\ cl.consumed \in Nat /\ taken \in Nat
      /\ consumed \in Nat /\ Len(cl.answers) \in Nat
  BY ClientFacts DEF ClientOK
<1>2. out = [mid EXCEPT !.consumed = consumed]
  <2>1. out = [[cl EXCEPT !.taken = cl.taken + 1] EXCEPT !.consumed = cl.consumed + n]
    BY Zenon
  <2> QED BY <2>1, Zenon
<1> HIDE DEF taken, consumed
<1>3. /\ mid \in ClientStates /\ mid.taken = taken /\ mid.script = cl.script
      /\ mid.received = cl.received /\ mid.consumed = cl.consumed /\ mid.answers = cl.answers
  BY <1>1 DEF ClientStates
<1> HIDE DEF mid
<1>4. /\ out \in ClientStates /\ out.taken = taken /\ out.script = cl.script
      /\ out.received = cl.received /\ out.consumed = consumed /\ out.answers = cl.answers
  BY <1>1, <1>2, <1>3 DEF ClientStates
<1>5. \A i \in 1..taken : Accepted(cl.script.requests[i])
  BY <1>1 DEF ClientOK, taken
<1>6. \A i \in 1..Len(cl.answers) : i <= cl.taken /\ i <= taken
  BY <1>1 DEF taken
<1>7. \A i \in 1..Len(out.answers) : AnswerOK(out, i)
  BY <1>4, <1>6 DEF ClientOK, AnswerOK
<1>8. \A i \in 1..Len(out.answers) : ~(i > out.taken)
  BY <1>1, <1>4 DEF taken
<1>9. /\ out.taken <= Len(out.script.requests) /\ out.consumed = EndOf(out.script, out.taken)
      /\ out.consumed <= out.received
  BY <1>1, <1>4 DEF taken, consumed
<1>10. out.received <= out.script.bytes
  BY <1>4 DEF ClientOK
<1>11. ClientOK(out)
  BY <1>4, <1>5, <1>7, <1>8, <1>9, <1>10 DEF ClientOK
<1> QED BY <1>4, <1>11 DEF taken, consumed

(* The request object points at the bytes that are consumed.               *)
LEMMA DeliverKeeps ==
  ASSUME IInv, NEW c \in Conns, NEW in, NEW cl, Reading(c, in, cl), serving' = serving,
         arena' = [arena EXCEPT ![c] = 1], UnconsumedLen(in) > 0, UnconsumedLen(in) <= Limit,
         tryParse(cl, UnconsumedLen(in)) = "complete", Deliver(c, in, cl)
  PROVE  IInv'
<1> DEFINE n == Total(NextRequest(cl))
           out == consume(in, n)
           rq == [buf |-> in.buf, at |-> in.rd, len |-> n, first |-> cl.consumed]
           after == [cl EXCEPT !.taken = @ + 1, !.consumed = @ + n]
           k == serving[c]
<1>1. /\ pc[c] # "idle" /\ serving[c] \in Clients /\ request[c] = None
      /\ LimitsFit /\ in.buf # c => in.cap <= MaxClass
      /\ cl.consumed \in Nat /\ UnconsumedLen(in) \in Nat
  BY ReadingFacts
<1>2. /\ request' = [request EXCEPT ![c] = rq] /\ input' = [input EXCEPT ![c] = out]
      /\ client' = [client EXCEPT ![serving[c]] = after]
      /\ Goto(c, "handler") /\ UNCHANGED <<bins, size, up>>
  BY DEF Deliver
<1>3. /\ IsInput(in) /\ in.buf = input[c].buf /\ in.cap = input[c].cap /\ ClientOK(cl)
      /\ cl.received = cl.consumed + UnconsumedLen(in) /\ Holds(in, k, cl.consumed)
      /\ Len(cl.answers) = cl.taken /\ \A i \in 1..Len(cl.answers) : cl.answers[i] = 200
  BY DEF Reading
<1>4. /\ cl.taken + 1 \in 1..Len(cl.script.requests)
      /\ NextRequest(cl) = cl.script.requests[cl.taken + 1] /\ n \in Nat
      /\ EndOf(cl.script, cl.taken + 1) = cl.consumed + n
      /\ Accepted(NextRequest(cl)) /\ n <= UnconsumedLen(in)
  BY <1>1, <1>3, ParseFacts
<1> HIDE DEF n, k
<1>5. /\ IsInput(out) /\ out.buf = in.buf /\ out.cap = in.cap /\ out.data = in.data
      /\ out.wr = in.wr /\ UnconsumedLen(out) = UnconsumedLen(in) - n
      /\ Holds(out, k, cl.consumed + n)
  BY <1>1, <1>3, <1>4, ConsumeKeeps
<1>6. cl.consumed + n <= cl.received
  BY <1>1, <1>3, <1>4
<1>7. /\ ClientOK(after) /\ after.received = cl.received /\ after.consumed = cl.consumed + n
      /\ after.taken = cl.taken + 1 /\ after.answers = cl.answers
  <2>1. Accepted(cl.script.requests[cl.taken + 1])
    BY <1>4
  <2>2. after = [cl EXCEPT !.taken = @ + 1, !.consumed = @ + n]
    OBVIOUS
  <2> HIDE DEF after
  <2>3. Takes(cl, n, after)
    BY <1>3, <1>4, <1>6, <2>1, <2>2 DEF Takes
  <2> QED BY <1>3, <2>3, Taken
<1>8. /\ in.rd \in Nat /\ in.wr \in Nat /\ in.wr <= in.cap /\ in.cap \in Nat
      /\ UnconsumedLen(in) = in.wr - in.rd /\ in.buf \in Conns \cup Buffers
  BY <1>3, InputFacts
<1>9. RequestOK(out, 1, rq, "handler", k)
  <2>1. rq \in Pointers
    BY <1>1, <1>4, <1>8 DEF Pointers
  <2>2. rq.buf = out.buf /\ rq.at = in.rd /\ rq.len = n /\ rq.first = cl.consumed
    BY <1>5
  <2>3. in.rd + n <= in.cap
    BY <1>4, <1>8
  <2>4. ASSUME NEW i \in 0..(n - 1) PROVE out.data[in.rd + i] = <<k, cl.consumed + i>>
    <3>1. in.rd + i \in in.rd..(in.wr - 1) /\ cl.consumed + (in.rd + i) - in.rd = cl.consumed + i
      BY <1>1, <1>4, <1>8
    <3> QED BY <1>3, <1>5, <3>1 DEF Holds
  <2> HIDE DEF rq, out
  <2> QED BY <1>5, <2>1, <2>2, <2>3, <2>4 DEF RequestOK
<1> HIDE DEF out, rq, after
<1>10. RoomOK(c, out, "handler")
  <2>1. UnconsumedLen(out) <= Limit
    BY <1>1, <1>4, <1>5, HttpAssumption DEF Limit
  <2> QED BY <1>1, <1>5, <2>1 DEF RoomOK
<1>11. SessionOK(out, "handler", k, after)
  <2>1. after # None /\ Len(after.answers) = after.taken - 1
    BY <1>3, <1>7, ClientFacts
  <2>2. after.received = after.consumed + UnconsumedLen(out)
    BY <1>1, <1>3, <1>4, <1>5, <1>7
  <2> QED BY <1>3, <1>5, <1>7, <2>1, <2>2 DEF SessionOK
<1>12. Memory' /\ up' \in BOOLEAN
  BY <1>2, <1>3, <1>5, SameBuffer DEF IInv
<1>15. "handler" \in Points /\ "handler" # "idle" /\ 1 \in 0..1
  BY DEF Points
<1>13. /\ DOMAIN input' = Conns /\ input'[c] = out /\ \A d \in Conns \ {c} : input'[d] = input[d]
  BY <1>2, InputStep
<1>14. RequestOK(out, 1, rq, "handler", serving[c]) /\ SessionOK(out, "handler", serving[c], after)
  BY <1>9, <1>11 DEF k
<1> QED BY <1>1, <1>2, <1>5, <1>7, <1>10, <1>12, <1>13, <1>15, <1>14, ReadStep

(* grow gives connection c a buffer of its own with the unconsumed bytes.  *)
LEMMA GrowKeeps ==
  ASSUME IInv, NEW c \in Conns, NEW in, IsInput(in),
         in.buf = input[c].buf, in.cap = input[c].cap, grow(c, in)
  PROVE  /\ Memory'
         /\ \E out : /\ input' = [input EXCEPT ![c] = out] /\ IsInput(out)
                     /\ out.cap = SizeClass(UnconsumedLen(in) + RecvSize)
                     /\ out.wr = UnconsumedLen(in) /\ UnconsumedLen(out) = UnconsumedLen(in)
                     /\ \A k, n : n \in Nat /\ Holds(in, k, n) => Holds(out, k, n)
<1> DEFINE s == SizeClass(UnconsumedLen(in) + RecvSize)
<1>1. PICK b \in Available(s) :
        /\ input' = [input EXCEPT ![c] =
             Input(b, s, 0, UnconsumedLen(in), MovedTo(Blank(s), in))]
        /\ Release(c, in, [bins EXCEPT ![s] = @ \ {b}], [size EXCEPT ![b] = s])
  BY DEF grow
<1>2. /\ UnconsumedLen(in) \in Nat /\ in.cap \in Sizes /\ UnconsumedLen(in) <= in.cap
      /\ RecvSize \in Nat /\ UnconsumedLen(in) + RecvSize \in Nat
  BY InputFacts, HttpAssumption
<1>3. s \in Sizes /\ UnconsumedLen(in) <= s
  <2>1. /\ s \in Sizes /\ in.cap \in Nat /\ s \in Nat
    BY <1>2, SizeClassIs, HttpAssumption
  <2>2. CASE \E t \in Sizes : t >= UnconsumedLen(in) + RecvSize
    <3>1. s >= UnconsumedLen(in) + RecvSize
      BY <1>2, <2>2, SizeClassIs
    <3> QED BY <1>2, <2>1, <3>1
  <2>3. CASE ~ \E t \in Sizes : t >= UnconsumedLen(in) + RecvSize
    <3>1. in.cap <= s
      BY <1>2, <2>3, SizeClassIs
    <3> QED BY <1>2, <2>1, <3>1
  <2> QED BY <2>1, <2>2, <2>3
<1> DEFINE out == Input(b, s, 0, UnconsumedLen(in), MovedTo(Blank(s), in))
           cached == [bins EXCEPT ![s] = @ \ {b}]
           allocated == [size EXCEPT ![b] = s]
<1>4. input' = [input EXCEPT ![c] = out] /\ Release(c, in, cached, allocated)
  BY <1>1
<1> HIDE DEF s
<1>5. b \in Buffers
  BY <1>3 DEF Available, IInv, Memory
<1>6. /\ IsInput(out) /\ out.buf = b /\ out.cap = s /\ out.wr = UnconsumedLen(in)
      /\ UnconsumedLen(out) = UnconsumedLen(in)
      /\ \A k, n : n \in Nat /\ Holds(in, k, n) => Holds(out, k, n)
  BY <1>3, <1>5, BlankIs, MovedKeeps
<1> HIDE DEF out
<1>7. /\ bins \in [Sizes -> SUBSET Buffers] /\ size \in [Buffers -> Sizes \cup {0}]
      /\ OwnedBut(input, bins, size, {})
  BY OwnedIs DEF IInv, Memory
<1>8. \A d \in Conns : input[d].cap \in Sizes
  BY InputFacts DEF IInv, Sessions, Session, ConnOK
<1>9. input'[c].buf = b /\ input'[c].cap = s /\ \A d \in Conns \ {c} : input'[d] = input[d]
  BY <1>4, <1>6, InputStep
<1>10. /\ cached \in [Sizes -> SUBSET Buffers] /\ allocated \in [Buffers -> Sizes \cup {0}]
       /\ input[c].buf # c => allocated[input[c].buf] = input[c].cap
       /\ OwnedBut(input', cached, allocated, GivenUp(c, input[c]))
  <2>1. cached = [bins EXCEPT ![s] = @ \ {b}] /\ allocated = [size EXCEPT ![b] = s]
    OBVIOUS
  <2>2. b \in Available(s)
    BY DEF s
  <2> DEFINE ins == input'
  <2>3. ins[c].buf = b /\ ins[c].cap = s /\ \A d \in Conns \ {c} : ins[d] = input[d]
    BY <1>9
  <2>5. Acquired(c, s, b, ins, cached, allocated)
    BY <2>1, <2>2, <2>3 DEF Acquired
  <2> HIDE DEF cached, allocated, ins
  <2>4. /\ cached \in [Sizes -> SUBSET Buffers] /\ allocated \in [Buffers -> Sizes \cup {0}]
        /\ input[c].buf # c => allocated[input[c].buf] = input[c].cap
        /\ OwnedBut(ins, cached, allocated, GivenUp(c, input[c]))
    BY <1>3, <1>7, <1>8, <2>5, AcquireOwns
  <2> QED BY <2>4 DEF ins
<1> HIDE DEF cached, allocated
<1>11. GivenUp(c, input[c]) = GivenUp(c, in)
  BY DEF GivenUp
<1>12. /\ bins' \in [Sizes -> SUBSET Buffers] /\ size' \in [Buffers -> Sizes \cup {0}]
       /\ OwnedBut(input', bins', size', {})
  BY <1>2, <1>4, <1>10, <1>11, ReleaseOwns
<1>13. Memory'
  BY <1>12 DEF OwnedBut, BuffersOwned, Memory
<1> QED BY <1>4, <1>6, <1>13 DEF s

(* The room that a receive needs, within the limits, fits a size class that *)
(* is no larger than the limits' own.                                       *)
LEMMA ClassFits ==
  ASSUME LimitsFit, NEW len \in Nat, len <= Limit
  PROVE  /\ SizeClass(len + RecvSize) \in Nat
         /\ SizeClass(len + RecvSize) >= len + RecvSize
         /\ SizeClass(len + RecvSize) <= MaxClass
<1>1. Limit \in Nat /\ RecvSize \in Nat /\ len + RecvSize \in Nat /\ Limit + RecvSize \in Nat
  BY HttpAssumption DEF Limit
<1>2. PICK t \in Sizes : t >= Limit + RecvSize
  BY DEF LimitsFit, Limit
<1>3. t \in Nat /\ MaxClass \in Sizes /\ MaxClass \in Nat
  BY <1>1, SizeClassIs, HttpAssumption DEF MaxClass
<1>4. MaxClass >= Limit + RecvSize
  BY <1>1, <1>2, SizeClassIs DEF MaxClass
<1>5. MaxClass >= len + RecvSize
  BY <1>1, <1>3, <1>4
<1>6. SizeClass(len + RecvSize) \in Sizes /\ SizeClass(len + RecvSize) >= len + RecvSize
  BY <1>1, <1>3, <1>5, SizeClassIs
<1>7. SizeClass(len + RecvSize) <= MaxClass
  BY <1>1, <1>3, <1>5, SizeClassIs
<1> QED BY <1>6, <1>7, HttpAssumption

(* reserveFree leaves a buffer with the same content and, within limits     *)
(* that fit, with the room for a receive.                                   *)
LEMMA ReserveKeeps ==
  ASSUME IInv, NEW c \in Conns, NEW in, NEW cl, Reading(c, in, cl),
         UnconsumedLen(in) <= Limit, reserveFree(c, in)
  PROVE  /\ Memory'
         /\ \E out : /\ input' = [input EXCEPT ![c] = out] /\ IsInput(out)
                     /\ UnconsumedLen(out) = UnconsumedLen(in)
                     /\ Holds(out, serving[c], cl.consumed)
                     /\ RoomOK(c, out, "recv")
<1>1. /\ LimitsFit /\ in.buf # c => in.cap <= MaxClass
      /\ UnconsumedLen(in) \in Nat /\ cl.consumed \in Nat
  BY ReadingFacts
<1>2. /\ IsInput(in) /\ in.buf = input[c].buf /\ in.cap = input[c].cap
      /\ Holds(in, serving[c], cl.consumed)
  BY DEF Reading
<1>3. /\ in.cap \in Nat /\ in.wr \in Nat /\ in.rd \in Nat /\ UnconsumedLen(in) = in.wr - in.rd
      /\ RecvSize \in Nat
  BY <1>2, InputFacts, HttpAssumption
<1>4. CASE Fits(in) /\ input' = [input EXCEPT ![c] = in] /\ UNCHANGED <<bins, size>>
  <2>1. in.cap - in.wr >= RecvSize
    BY <1>4 DEF Fits
  <2>2. RoomOK(c, in, "recv")
    BY <1>1, <2>1 DEF RoomOK
  <2>3. Memory'
    BY <1>2, <1>4, SameBuffer
  <2> QED BY <1>2, <1>4, <2>2, <2>3
<1>5. CASE CompactFits(in) /\ input' = [input EXCEPT ![c] = compact(in)] /\ UNCHANGED <<bins, size>>
  <2> DEFINE out == compact(in)
  <2>1. /\ IsInput(out) /\ out.buf = in.buf /\ out.cap = in.cap
        /\ out.wr = UnconsumedLen(in) /\ UnconsumedLen(out) = UnconsumedLen(in)
        /\ Holds(out, serving[c], cl.consumed)
    BY <1>1, <1>2, CompactKeeps
  <2> HIDE DEF out
  <2>2. out.cap - out.wr >= RecvSize
    BY <1>1, <1>3, <1>5, <2>1 DEF CompactFits
  <2>3. RoomOK(c, out, "recv")
    BY <1>1, <2>1, <2>2 DEF RoomOK
  <2>4. input' = [input EXCEPT ![c] = out]
    BY <1>5 DEF out
  <2>5. Memory'
    BY <1>2, <1>5, <2>1, <2>4, SameBuffer
  <2> QED BY <2>1, <2>3, <2>4, <2>5
<1>6. CASE grow(c, in)
  <2>1. PICK out : /\ input' = [input EXCEPT ![c] = out] /\ IsInput(out)
                   /\ out.cap = SizeClass(UnconsumedLen(in) + RecvSize)
                   /\ out.wr = UnconsumedLen(in) /\ UnconsumedLen(out) = UnconsumedLen(in)
                   /\ \A k, n : n \in Nat /\ Holds(in, k, n) => Holds(out, k, n)
    BY <1>2, <1>6, GrowKeeps
  <2>2. LimitsFit => /\ out.cap \in Nat /\ out.cap >= UnconsumedLen(in) + RecvSize
                     /\ out.cap <= MaxClass
    BY <1>1, <2>1, ClassFits
  <2>3. LimitsFit => out.cap - out.wr >= RecvSize
    BY <1>1, <1>3, <2>1, <2>2
  <2>4. RoomOK(c, out, "recv")
    BY <1>1, <2>1, <2>2, <2>3 DEF RoomOK
  <2>5. Memory'
    BY <1>2, <1>6, GrowKeeps
  <2>6. Holds(out, serving[c], cl.consumed)
    BY <1>1, <1>2, <2>1
  <2> QED BY <2>1, <2>4, <2>5, <2>6
<1> QED BY <1>4, <1>5, <1>6 DEF reserveFree

(* A receive is offered the room it asks for, or memory is out.            *)
LEMMA StartRecvKeeps ==
  ASSUME IInv, NEW c \in Conns, NEW in, NEW cl, Reading(c, in, cl), serving' = serving,
         NEW ar \in 0..1, arena' = [arena EXCEPT ![c] = ar],
         UnconsumedLen(in) <= Limit,
         UnconsumedLen(in) > 0 => tryParse(cl, UnconsumedLen(in)) = "incomplete",
         StartRecv(c, in, cl)
  PROVE  IInv'
<1>1. CASE /\ reserveFree(c, in) /\ client' = [client EXCEPT ![serving[c]] = cl]
           /\ Goto(c, "recv") /\ UNCHANGED <<request, up>>
  <2>1. PICK out : /\ input' = [input EXCEPT ![c] = out] /\ IsInput(out)
                   /\ UnconsumedLen(out) = UnconsumedLen(in)
                   /\ Holds(out, serving[c], cl.consumed) /\ RoomOK(c, out, "recv")
    BY <1>1, ReserveKeeps
  <2>2. Memory' /\ up' \in BOOLEAN
    BY <1>1, ReserveKeeps DEF IInv
  <2>3. /\ pc[c] # "idle" /\ request = [request EXCEPT ![c] = None] /\ cl # None
    BY ReadingFacts
  <2>4. /\ ClientOK(cl) /\ SessionOK(out, "recv", serving[c], cl)
    BY <2>1, <2>3 DEF Reading, SessionOK
  <2>5. /\ DOMAIN input' = Conns /\ input'[c] = out /\ \A d \in Conns \ {c} : input'[d] = input[d]
    BY <2>1, InputStep
  <2>6. request' = [request EXCEPT ![c] = None] /\ "recv" \in Points /\ "recv" # "idle"
    BY <1>1, <2>3 DEF Points
  <2> QED BY <1>1, <2>1, <2>2, <2>3, <2>4, <2>5, <2>6, NoRequest, ReadStep
<1>2. CASE OutOfMemory(c, in, cl)
  BY <1>2, OutOfMemoryKeeps
<1> QED BY <1>1, <1>2 DEF StartRecv

(* tryParse and what follows from its verdict.                             *)
LEMMA ParseKeeps ==
  ASSUME IInv, NEW c \in Conns, NEW in, NEW cl, Reading(c, in, cl), serving' = serving,
         arena' = ArenaAfterParse(c), UnconsumedLen(in) > 0, UnconsumedLen(in) <= Limit,
         Parse(c, in, cl)
  PROVE  IInv'
<1> DEFINE result == tryParse(cl, UnconsumedLen(in))
<1>1. arena' = [arena EXCEPT ![c] = 1] /\ 1 \in 0..1
  BY DEF ArenaAfterParse
<1>2. CASE result = "complete" /\ Deliver(c, in, cl)
  BY <1>1, <1>2, DeliverKeeps
<1>3. CASE result = "incomplete" /\ StartRecv(c, in, cl)
  BY <1>1, <1>3, StartRecvKeeps
<1>4. CASE result \in DOMAIN StatusOf /\ Refuse(c, in, cl, result)
  <2>1. /\ result # "request_too_large"
        /\ result = "invalid" => NextRequest(cl).flaw # "none"
        /\ result = "header_too_large" => NextRequest(cl).head > MaxHeader
        /\ result = "body_too_large" => NextRequest(cl).body > MaxBody
    BY ReadingFacts, ParseFacts DEF Reading
  <2> HIDE DEF result
  <2>2. Cause(cl, StatusOf[result])
    BY <1>4, <2>1 DEF Cause, StatusOf
  <2> QED BY <1>1, <1>4, <2>2, RefuseKeeps
<1>5. CASE OutOfMemory(c, in, cl)
  BY <1>1, <1>5, OutOfMemoryKeeps
<1> QED BY <1>2, <1>3, <1>4, <1>5 DEF Parse

(* A call of http_read_request parses what was left over, or receives.     *)
LEMMA ReadRequestKeeps ==
  ASSUME IInv, NEW c \in Conns, ReadRequest(c)
  PROVE  IInv'
<1> DEFINE in == resetForNewRequest(input[c])
           cl == client[serving[c]]
<1>1. /\ pc[c] = "read" /\ serving' = serving
      /\ IF UnconsumedLen(in) > 0
         THEN arena' = ArenaAfterParse(c) /\ Parse(c, in, cl)
         ELSE arena' = [arena EXCEPT ![c] = 0] /\ StartRecv(c, in, cl)
  BY DEF ReadRequest
<1>2. /\ ClientOK(cl) /\ SessionOK(input[c], "read", serving[c], cl) /\ RoomOK(c, input[c], "read")
      /\ IsInput(input[c]) /\ cl.consumed \in Nat
  BY <1>1, Working
<1>3. /\ IsInput(in) /\ in.buf = input[c].buf /\ in.cap = input[c].cap
      /\ UnconsumedLen(in) = UnconsumedLen(input[c])
      /\ \A k, n : n \in Nat /\ Holds(input[c], k, n) => Holds(in, k, n)
  BY <1>2, ResetKeeps
<1> HIDE DEF in, cl
<1>4. Reading(c, in, cl)
  BY <1>1, <1>2, <1>3 DEF Reading, SessionOK
<1>5. UnconsumedLen(in) \in Nat /\ UnconsumedLen(in) <= Limit
  BY <1>2, <1>3, InputFacts DEF RoomOK
<1>6. CASE UnconsumedLen(in) > 0
  BY <1>1, <1>4, <1>5, <1>6, ParseKeeps
<1>7. CASE ~(UnconsumedLen(in) > 0)
  <2>1. 0 \in 0..1
    OBVIOUS
  <2> QED BY <1>1, <1>4, <1>5, <1>7, <2>1, StartRecvKeeps
<1> QED BY <1>6, <1>7

(* A client's other fields keep their types when its bytes are received.   *)
LEMMA SetReceived ==
  ASSUME NEW S, NEW A, NEW received \in Nat,
         NEW cl \in [script : S, received : Nat, consumed : Nat, taken : Nat, answers : A]
  PROVE  [cl EXCEPT !.received = received]
           \in [script : S, received : Nat, consumed : Nat, taken : Nat, answers : A]
OBVIOUS

(* A client of which another n bytes are received.                         *)
LEMMA Received ==
  ASSUME NEW cl, ClientOK(cl), NEW n \in Nat, cl.received + n <= cl.script.bytes,
         Len(cl.answers) = cl.taken,
         NEW out, out = [cl EXCEPT !.received = @ + n]
  PROVE  /\ ClientOK(out) /\ out.received = cl.received + n /\ out.consumed = cl.consumed
         /\ out.taken = cl.taken /\ out.answers = cl.answers /\ out.script = cl.script
<1> DEFINE received == cl.received + n
<1>1. /\ cl \in ClientStates /\ cl.taken \in Nat /\ cl.consumed \in Nat /\ received \in Nat
      /\ cl.consumed <= received /\ received <= cl.script.bytes /\ Len(cl.answers) \in Nat
  BY ClientFacts DEF ClientOK
<1>2. out = [cl EXCEPT !.received = received]
  OBVIOUS
<1> HIDE DEF received
<1>3. [cl EXCEPT !.received = received] \in ClientStates
  BY <1>1, SetReceived, Zenon DEF ClientStates
<1>4. out \in ClientStates
  BY <1>2, <1>3, Zenon
<1>5. /\ out.received = received /\ out.consumed = cl.consumed /\ out.taken = cl.taken
      /\ out.answers = cl.answers /\ out.script = cl.script
  BY <1>1, <1>2 DEF ClientStates
<1>6. \A i \in 1..Len(out.answers) : AnswerOK(out, i) /\ ~(i > out.taken)
  BY <1>1, <1>5 DEF ClientOK, AnswerOK
<1>7. ClientOK(out)
  BY <1>1, <1>4, <1>5, <1>6 DEF ClientOK
<1> QED BY <1>5, <1>7 DEF received

(* What was received is parsed with what was there.                        *)
LEMMA ReceiveKeeps ==
  ASSUME IInv, NEW c \in Conns, Receive(c)
  PROVE  IInv'
<1> DEFINE cl == client[serving[c]]
<1>1. PICK n \in 1..RecvLen(input[c]) :
        /\ cl.received + n <= cl.script.bytes
        /\ LET bytes == [i \in 1..n |-> <<serving[c], cl.received + i - 1>>]
               in == commitWrite(input[c], bytes)
               read == [cl EXCEPT !.received = @ + n]
           IN IF UnconsumedLen(in) > MaxHeader + MaxBody
              THEN Refuse(c, in, read, "request_too_large") /\ UNCHANGED arena
              ELSE Parse(c, in, read) /\ arena' = ArenaAfterParse(c)
  BY DEF Receive
<1> DEFINE in == commitWrite(input[c], [i \in 1..n |-> <<serving[c], cl.received + i - 1>>])
           read == [cl EXCEPT !.received = @ + n]
<1>2. /\ pc[c] = "recv" /\ serving' = serving
      /\ IF UnconsumedLen(in) > Limit
         THEN Refuse(c, in, read, "request_too_large") /\ UNCHANGED arena
         ELSE Parse(c, in, read) /\ arena' = ArenaAfterParse(c)
  BY <1>1 DEF Receive, Limit
<1>3. /\ ClientOK(cl) /\ SessionOK(input[c], "recv", serving[c], cl)
      /\ IsInput(input[c]) /\ serving[c] \in Clients /\ arena[c] \in 0..1
      /\ cl.consumed \in Nat /\ cl.received \in Nat
  BY <1>2, Working
<1>4. arena = [arena EXCEPT ![c] = arena[c]]
  BY DEF IInv, Sessions, Types
<1>5. /\ input[c].cap \in Nat /\ input[c].wr \in Nat /\ input[c].wr <= input[c].cap
      /\ UnconsumedLen(input[c]) \in Nat /\ RecvSize \in Nat
  BY <1>3, InputFacts, HttpAssumption
<1>6. n \in Nat /\ n > 0 /\ input[c].wr + n <= input[c].cap
  <2>1. RecvLen(input[c]) \in Nat /\ RecvLen(input[c]) <= input[c].cap - input[c].wr
    BY <1>5 DEF RecvLen
  <2> QED BY <1>5, <2>1
<1>7. cl.received = cl.consumed + UnconsumedLen(input[c])
  BY <1>3 DEF SessionOK
<1>8. /\ IsInput(in) /\ in.buf = input[c].buf /\ in.cap = input[c].cap
      /\ UnconsumedLen(in) = UnconsumedLen(input[c]) + n
      /\ Holds(input[c], serving[c], cl.consumed) => Holds(in, serving[c], cl.consumed)
  <2> DEFINE k == serving[c]
             received == cl.received
             m == cl.consumed
  <2>1. received = m + UnconsumedLen(input[c]) /\ k \in Clients /\ m \in Nat
    BY <1>3, <1>7
  <2>2. Commits(input[c], k, received, n, in)
    BY DEF Commits
  <2>3. IsInput(input[c])
    BY <1>3
  <2> HIDE DEF k, received, m, in, cl
  <2>4. /\ IsInput(in) /\ in.buf = input[c].buf /\ in.cap = input[c].cap
        /\ UnconsumedLen(in) = UnconsumedLen(input[c]) + n
        /\ Holds(input[c], k, m) => Holds(in, k, m)
    BY <1>6, <2>1, <2>2, <2>3, CommitKeeps
  <2> QED BY <2>4 DEF k, m
<1> HIDE DEF in
<1>9. /\ ClientOK(read) /\ read.received = cl.received + n /\ read.consumed = cl.consumed
      /\ read.taken = cl.taken /\ read.answers = cl.answers
  <2>1. ClientOK(cl) /\ Len(cl.answers) = cl.taken /\ cl.received + n <= cl.script.bytes
    BY <1>1, <1>3 DEF SessionOK
  <2> HIDE DEF cl
  <2> QED BY <1>6, <2>1, Received
<1> HIDE DEF read, cl
<1>10. read.received = read.consumed + UnconsumedLen(in)
  BY <1>3, <1>5, <1>6, <1>7, <1>8, <1>9
<1>11. Reading(c, in, read)
  BY <1>2, <1>3, <1>8, <1>9, <1>10 DEF Reading, SessionOK
<1>12. UnconsumedLen(in) \in Nat /\ UnconsumedLen(in) > 0 /\ Limit \in Nat
  BY <1>5, <1>6, <1>8, HttpAssumption DEF Limit
<1>13. CASE UnconsumedLen(in) > Limit
  <2>1. Refuse(c, in, read, "request_too_large") /\ arena' = [arena EXCEPT ![c] = arena[c]]
    BY <1>2, <1>4, <1>13
  <2>2. StatusOf["request_too_large"] = 413 /\ "request_too_large" \in DOMAIN StatusOf
    BY DEF StatusOf
  <2>3. read.received - read.consumed > Limit
    BY <1>3, <1>9, <1>10, <1>12, <1>13
  <2>4. Cause(read, 413)
    BY <2>3 DEF Cause
  <2> DEFINE why == "request_too_large"
             ar == arena[c]
  <2>5. /\ why \in DOMAIN StatusOf
        /\ LimitsFit => Cause(read, StatusOf[why])
        /\ Refuse(c, in, read, why) /\ arena' = [arena EXCEPT ![c] = ar] /\ ar \in 0..1
        /\ serving' = serving
    BY <1>2, <1>3, <2>1, <2>2, <2>4
  <2> HIDE DEF why, ar
  <2> QED BY <1>11, <2>5, RefuseKeeps
<1>14. CASE ~(UnconsumedLen(in) > Limit)
  BY <1>2, <1>11, <1>12, <1>14, ParseKeeps
<1> QED BY <1>13, <1>14

(* The end of the stream, which refuses what is not a whole request.       *)
LEMMA ReceiveNothingKeeps ==
  ASSUME IInv, NEW c \in Conns, ReceiveNothing(c)
  PROVE  IInv'
<1> DEFINE cl == client[serving[c]]
           in == input[c]
           len == UnconsumedLen(input[c])
<1>1. /\ pc[c] = "recv" /\ UNCHANGED <<arena, serving>>
      /\ cl.received = cl.script.bytes \/ RecvLen(in) = 0
      /\ IF len > 0 THEN Refuse(c, in, cl, "invalid")
         ELSE Goto(c, "closing") /\ UNCHANGED <<input, bins, size, request, client, up>>
  BY DEF ReceiveNothing
<1>2. /\ ClientOK(cl) /\ SessionOK(in, "recv", serving[c], cl)
      /\ IsInput(in) /\ arena[c] \in 0..1 /\ RoomOK(c, in, "recv")
      /\ cl.consumed \in Nat /\ cl.received \in Nat /\ cl.taken \in Nat
  BY <1>1, Working
<1>3. CASE len > 0
  <2>1. arena' = [arena EXCEPT ![c] = arena[c]] /\ serving' = serving
    BY <1>1 DEF IInv, Sessions, Types
  <2>2. Reading(c, in, cl)
    BY <1>1, <1>2 DEF Reading, SessionOK
  <2>3. /\ len \in Nat /\ cl.received = cl.consumed + len /\ tryParse(cl, len) = "incomplete"
    BY <1>2, <1>3, InputFacts DEF SessionOK
  <2>4. len < Total(NextRequest(cl)) /\ Total(NextRequest(cl)) \in Nat
    <3> HIDE DEF cl, len
    <3> QED BY <1>2, <1>3, <2>3, ParseFacts
  <2>5. ASSUME LimitsFit PROVE Cause(cl, 400)
    <3>1. in.cap - in.wr >= RecvSize /\ RecvSize \in Nat \ {0}
      BY <1>2, <2>5, HttpAssumption DEF RoomOK
    <3>2. in.cap \in Nat /\ in.wr \in Nat
      BY <1>2, InputFacts
    <3>3. RecvLen(in) # 0
      BY <3>1, <3>2 DEF RecvLen
    <3>4. cl.script.bytes = cl.consumed + len
      BY <1>1, <2>3, <3>3
    <3> HIDE DEF cl, len
    <3>5. cl.script.bytes < cl.consumed + Total(NextRequest(cl))
      BY <1>2, <2>3, <2>4, <3>4
    <3> QED BY <3>5 DEF Cause
  <2>6. StatusOf["invalid"] = 400 /\ "invalid" \in DOMAIN StatusOf
    BY DEF StatusOf
  <2> HIDE DEF cl, in
  <2> DEFINE why == "invalid"
             ar == arena[c]
  <2>7. /\ why \in DOMAIN StatusOf
        /\ LimitsFit => Cause(cl, StatusOf[why])
        /\ Refuse(c, in, cl, why) /\ arena' = [arena EXCEPT ![c] = ar] /\ ar \in 0..1
        /\ serving' = serving
    BY <1>1, <1>2, <1>3, <2>1, <2>5, <2>6
  <2> HIDE DEF why, ar
  <2> QED BY <2>2, <2>7, RefuseKeeps
<1>4. CASE ~(len > 0)
  <2>1. /\ UNCHANGED <<bufferVars, serving, up, client, request>> /\ Goto(c, "closing")
        /\ pc[c] = "recv"
    BY <1>1, <1>4 DEF bufferVars
  <2> QED BY <2>1, ClosingKeeps
<1> QED BY <1>3, <1>4

-----------------------------------------------------------------------------
(* Theorems.                                                               *)

(* Nothing is connected, nothing allocated.                                *)
LEMMA InitIInv == Init => IInv
<1> SUFFICES ASSUME Init PROVE IInv
  OBVIOUS
<1> USE DEF Init
<1>1. Types
  BY DEF Types, Points
<1>2. ASSUME NEW c \in Conns PROVE Session(c)
  <2>1. /\ IsInput(InlineBuffer(c)) /\ InlineBuffer(c).buf = c
        /\ UnconsumedLen(InlineBuffer(c)) = 0
    BY InlineIs
  <2>2. RoomOK(c, InlineBuffer(c), "idle")
    BY <2>1, HttpAssumption DEF RoomOK, Limit
  <2>3. /\ input[c] = InlineBuffer(c) /\ arena[c] = 0 /\ request[c] = None /\ pc[c] = "idle"
        /\ serving[c] = None
    OBVIOUS
  <2>4. ConnOK(c, InlineBuffer(c), 0, None, "idle", None, client[None])
    BY <2>1, <2>2, NoRequest DEF ConnOK
  <2> QED BY <2>3, <2>4 DEF Session
<1>3. Sessions
  BY <1>1, <1>2 DEF Sessions
<1>4. \A c \in Conns : input[c].buf = c /\ input[c].cap = Inline
  BY InlineIs
<1>5. BuffersOwned
  BY <1>4 DEF BuffersOwned
<1> QED BY <1>3, <1>5 DEF IInv, Memory

(* Stuttering.                                                             *)
LEMMA UnchangedIInv == IInv /\ UNCHANGED vars => IInv'
<1> SUFFICES ASSUME IInv, UNCHANGED vars PROVE IInv'
  OBVIOUS
<1>1. UNCHANGED <<input, arena, bins, size, request, pc, serving, client, up>>
  BY DEF vars, bufferVars
<1>2. Sessions'
  BY <1>1 DEF IInv, Sessions, Types, Session
<1>3. Memory'
  BY <1>1 DEF IInv, Memory, BuffersOwned
<1> QED BY <1>1, <1>2, <1>3 DEF IInv

(* Every action keeps the invariant.                                       *)
LEMMA NextIInv == IInv /\ [Next]_vars => IInv'
<1> SUFFICES ASSUME IInv, Next PROVE IInv'
  BY UnchangedIInv
<1>1. ASSUME NEW c \in Conns, Step(c) PROVE IInv'
  BY <1>1, ReadRequestKeeps, ReceiveKeeps, ReceiveNothingKeeps, ReceiveFailsKeeps,
     RespondKeeps, RespondRaisesKeeps, HandlerRaisesKeeps, RespondedKeeps, AbandonKeeps,
     RefusedKeeps, ClosedKeeps, ConnectKeeps DEF Step
<1>2. CASE Quiet
  BY <1>2, UnchangedIInv DEF Quiet
<1> QED BY <1>1, <1>2 DEF Next

(* The inductive invariant: each connection and the client it serves agree  *)
(* on what was received, consumed and answered, and the recycler, the       *)
(* connections and the allocator on where every buffer is.                  *)
THEOREM Invariant == Spec => []IInv
BY InitIInv, NextIInv, PTL DEF Spec

(* The invariant implies every property of the run.                        *)
LEMMA Consequences ==
  ASSUME IInv
  PROVE  /\ HttpTypeOK /\ BytesInOrder /\ LiveRequestIntact /\ BuffersOwned
         /\ ReceiveBounded /\ AnswersInOrder /\ AnswersJustified
<1>1. Types /\ Sessions /\ Memory /\ \A k \in Clients : client[k] # None => ClientOK(client[k])
  BY DEF IInv, Sessions
<1>2. \A c \in Conns :
        /\ IsInput(input[c]) /\ arena[c] \in 0..1 /\ RoomOK(c, input[c], pc[c])
        /\ RequestOK(input[c], arena[c], request[c], pc[c], serving[c])
        /\ serving[c] # None => SessionOK(input[c], pc[c], serving[c], client[serving[c]])
  BY <1>1 DEF Sessions, Session, ConnOK
<1>3. HttpTypeOK
  BY <1>1, <1>2 DEF HttpTypeOK, IInv, Types, Points, Pointers, Memory, IsInput
<1>4. BytesInOrder
  BY <1>2 DEF BytesInOrder, SessionOK, Holds
<1>5. LiveRequestIntact
  <2> SUFFICES ASSUME NEW c \in Conns, request[c] # None
               PROVE  LET r == request[c] IN
                      /\ r.buf = input[c].buf /\ arena[c] > 0 /\ r.at + r.len <= input[c].cap
                      /\ \A i \in 0..(r.len - 1) :
                           input[c].data[r.at + i] = <<serving[c], r.first + i>>
    BY DEF LiveRequestIntact
  <2> QED BY <1>2 DEF RequestOK
<1>6. ReceiveBounded
  <2> SUFFICES ASSUME LimitsFit, NEW c \in Conns
               PROVE  /\ pc[c] = "recv" => /\ input[c].cap - input[c].wr >= RecvSize
                                           /\ UnconsumedLen(input[c]) <= MaxHeader + MaxBody
                      /\ input[c].buf # c =>
                           input[c].cap <= SizeClass(MaxHeader + MaxBody + RecvSize)
                      /\ arena[c] <= 1
    BY DEF ReceiveBounded
  <2> QED BY <1>2 DEF RoomOK, Limit, MaxClass
<1>7. AnswersInOrder
  <2>1. ASSUME NEW c \in Conns, serving[c] # None
        PROVE  LET cl == client[serving[c]] IN
               CASE pc[c] = "handler" -> Len(cl.answers) = cl.taken - 1
                 [] pc[c] \in {"refuse", "closing"} -> Len(cl.answers) >= cl.taken - 1
                 [] OTHER -> Len(cl.answers) = cl.taken
    <3>1. pc[c] \in Points \ {"idle"}
      BY <1>1, <2>1 DEF Types, Sessions, Session, ConnOK
    <3>2. SessionOK(input[c], pc[c], serving[c], client[serving[c]])
      BY <1>2, <2>1
    <3> QED BY <3>1, <3>2 DEF SessionOK, Points
  <2>2. ASSUME NEW k \in Clients, client[k] # None
        PROVE  LET cl == client[k] IN
               \A i \in 1..Len(cl.answers) :
                 /\ i < Len(cl.answers) => cl.answers[i] = 200
                 /\ IF i <= cl.taken THEN cl.answers[i] \in {200, 500}
                    ELSE i = cl.taken + 1 /\ cl.answers[i] \in {400, 413, 431}
    BY <1>1, <2>2 DEF ClientOK, AnswerOK
  <2> QED BY <2>1, <2>2 DEF AnswersInOrder
<1>8. AnswersJustified
  <2> SUFFICES ASSUME LimitsFit, NEW k \in Clients, client[k] # None,
                      NEW i \in 1..Len(client[k].answers)
               PROVE  /\ i <= client[k].taken => Accepted(client[k].script.requests[i])
                      /\ ~(i <= client[k].taken) => Cause(client[k], client[k].answers[i])
    BY DEF AnswersJustified, Cause, Limit
  <2> DEFINE cl == client[k]
  <2>1. ClientOK(cl) /\ cl.taken \in Nat
    BY <1>1, ClientFacts
  <2> HIDE DEF cl
  <2>2. /\ \A j \in 1..cl.taken : Accepted(cl.script.requests[j])
        /\ \A j \in 1..Len(cl.answers) : j > cl.taken => Cause(cl, cl.answers[j])
    BY <2>1 DEF ClientOK
  <2>3. i \in 1..Len(cl.answers) /\ i \in Nat
    BY DEF cl
  <2>4. i <= cl.taken => Accepted(cl.script.requests[i])
    BY <2>1, <2>2, <2>3
  <2>5. ~(i <= cl.taken) => Cause(cl, cl.answers[i])
    BY <2>1, <2>2, <2>3
  <2> QED BY <2>4, <2>5 DEF cl
<1>9. BuffersOwned
  BY <1>1 DEF Memory
<1> QED BY <1>3, <1>4, <1>5, <1>6, <1>7, <1>8, <1>9

(* Types, and read_pos <= write_pos <= capacity in every InputBuffer.      *)
THEOREM TypeCorrect == Spec => []HttpTypeOK
BY Invariant, Consequences, PTL

(* What a connection has not consumed is what its client sent since the last *)
(* request: no byte is lost, repeated, moved or another connection's.      *)
THEOREM Bytes == Spec => []BytesInOrder
BY Invariant, Consequences, PTL

(* While a request object has its pointers, they point at its own bytes.   *)
THEOREM Requests == Spec => []LiveRequestIntact
BY Invariant, Consequences, PTL

(* Every allocation is lent to one connection or cached in the bin of its  *)
(* size, and whoever has it knows its size.                                *)
THEOREM Ownership == Spec => []BuffersOwned
BY Invariant, Consequences, PTL

(* Within limits that fit the largest size class, a receive has its room    *)
(* and what a connection holds is bounded.                                 *)
THEOREM Bounded == Spec => []ReceiveBounded
BY Invariant, Consequences, PTL

(* One answer per request, in order, and nothing after a refusal or a 500. *)
THEOREM Order == Spec => []AnswersInOrder
BY Invariant, Consequences, PTL

(* Within limits that fit, an answer has its cause in what the client sent. *)
THEOREM Justified == Spec => []AnswersJustified
BY Invariant, Consequences, PTL

-----------------------------------------------------------------------------
(* HttpRead implements Exchange: every step of a connection is a step of   *)
(* the exchange with the client it serves, or one that no client can see.  *)
(* What a step does to its client comes from the action, that it is        *)
(* allowed to comes from the invariant after the step.                     *)

(* Client cl, when it is the turn of "turn".                               *)
Seen(cl, turn) ==
  [script |-> cl.script, taken |-> cl.taken, answers |-> cl.answers, turn |-> turn]

(* A client that has not connected.                                        *)
Absent == [script |-> None, taken |-> 0, answers |-> <<>>, turn |-> "nobody"]

(* TurnOf, when connection c serves sv[c] and stands at p[c].              *)
TurnBy(k, sv, p) ==
  IF \E c \in Conns : sv[c] = k THEN TurnAt[p[CHOOSE c \in Conns : sv[c] = k]] ELSE "over"

(* A client's turn is where the one connection that serves it stands.      *)
LEMMA TurnServed ==
  ASSUME NEW c \in Conns, NEW k, NEW sv, NEW p,
         sv[c] = k, \A d \in Conns \ {c} : sv[d] # k
  PROVE  TurnBy(k, sv, p) = TurnAt[p[c]]
<1>1. (CHOOSE d \in Conns : sv[d] = k) = c
  OBVIOUS
<1> QED BY <1>1 DEF TurnBy

(* It is over when no connection serves it.                                *)
LEMMA TurnUnserved ==
  ASSUME NEW k, NEW sv, NEW p, \A c \in Conns : sv[c] # k
  PROVE  TurnBy(k, sv, p) = "over"
BY DEF TurnBy

(* A step of connection c, whose client is or becomes k.                   *)
StepFor(k, c, cl, turn) ==
  /\ k \in Clients /\ serving[c] \in {k, None} /\ serving'[c] \in {k, None}
  /\ \A d \in Conns \ {c} : serving'[d] = serving[d] /\ pc'[d] = pc[d] /\ serving[d] # k
  /\ client' = [client EXCEPT ![k] = cl] /\ cl # None
  /\ turn = IF serving'[c] = k THEN TurnAt[pc'[c]] ELSE "over"

(* It shows only in k's exchange.                                          *)
LEMMA ShowsInOne ==
  ASSUME Sessions, NEW c \in Conns, NEW k, NEW cl, NEW turn, StepFor(k, c, cl, turn)
  PROVE  Exchanged' = [Exchanged EXCEPT ![k] = Seen(cl, turn)]
<1> USE DEF StepFor
<1>0. /\ k # None /\ client \in [Clients -> ClientStates \cup {None}]
      /\ client'[k] = cl /\ \A j \in Clients \ {k} : client'[j] = client[j] /\ j # None
      /\ \A d, e \in Conns : serving[d] # None /\ serving[d] = serving[e] => d = e
  BY HttpAssumption DEF Sessions, Types
<1>1. ASSUME NEW j \in Clients
      PROVE  TurnOf(j) = TurnBy(j, serving, pc) /\ TurnOf(j)' = TurnBy(j, serving', pc')
  BY DEF TurnOf, TurnBy
<1>2. TurnBy(k, serving', pc') = turn
  <2>1. CASE serving'[c] = k
    BY <1>0, <2>1, TurnServed
  <2>2. CASE serving'[c] # k
    BY <2>2, TurnUnserved
  <2> QED BY <2>1, <2>2
<1>3. ASSUME NEW j \in Clients \ {k}
      PROVE  TurnBy(j, serving', pc') = TurnBy(j, serving, pc)
  <2>1. serving[c] # j /\ serving'[c] # j
    BY <1>0
  <2>2. CASE \A d \in Conns : serving[d] # j
    <3>1. \A d \in Conns : serving'[d] # j
      BY <2>1, <2>2
    <3> QED BY <2>2, <3>1, TurnUnserved
  <2>3. ASSUME NEW d \in Conns, serving[d] = j
        PROVE  TurnBy(j, serving', pc') = TurnBy(j, serving, pc)
    <3>1. d # c /\ pc'[d] = pc[d] /\ serving'[d] = j
      BY <2>1, <2>3
    <3>2. \A e \in Conns \ {d} : serving[e] # j /\ serving'[e] # j
      BY <1>0, <2>1, <2>3
    <3>3. TurnBy(j, serving, pc) = TurnAt[pc[d]]
      BY <2>3, <3>2, TurnServed
    <3>4. TurnBy(j, serving', pc') = TurnAt[pc'[d]]
      BY <3>1, <3>2, TurnServed
    <3> QED BY <3>1, <3>3, <3>4
  <2> QED BY <2>2, <2>3
<1>4. ASSUME NEW j \in Clients PROVE Exchanged'[j] = [Exchanged EXCEPT ![k] = Seen(cl, turn)][j]
  <2>1. Exchanged'[j] = IF client'[j] = None THEN Absent ELSE Seen(client'[j], TurnOf(j)')
    BY DEF Exchanged, Seen, Absent
  <2>2. Exchanged[j] = IF client[j] = None THEN Absent ELSE Seen(client[j], TurnOf(j))
    BY DEF Exchanged, Seen, Absent
  <2>3. k \in DOMAIN Exchanged /\ j \in DOMAIN Exchanged
    BY DEF Exchanged
  <2>4. CASE j = k
    BY <1>0, <1>1, <1>2, <2>1, <2>3, <2>4
  <2>5. CASE j # k
    BY <1>0, <1>1, <1>3, <2>1, <2>2, <2>3, <2>5
  <2> QED BY <2>4, <2>5
<1> QED BY <1>4 DEF Exchanged

-----------------------------------------------------------------------------
(* Steps of one exchange.                                                  *)

(* The exchange with k goes from client cl at turn t to client out at u.   *)
Changes(k, cl, t, out, u) ==
  /\ k \in Clients /\ Exchanged[k] = Seen(cl, t) /\ cl.taken \in Nat
  /\ Exchanged' = [Exchanged EXCEPT ![k] = Seen(out, u)]
  /\ out.script = cl.script

(* A step of Exchange, or none.                                            *)
Allowed == E!Next \/ Exchanged' = Exchanged

(* What is received or invalidated does not show.                          *)
LEMMA HiddenStep ==
  ASSUME NEW k, NEW cl, NEW out, NEW t, Changes(k, cl, t, out, t),
         out.taken = cl.taken, out.answers = cl.answers
  PROVE  Allowed
<1>1. Seen(out, t) = Seen(cl, t)
  BY DEF Changes, Seen
<1>2. Exchanged' = Exchanged
  BY <1>1 DEF Changes, Exchanged
<1> QED BY <1>2 DEF Allowed

(* A connection may be given up at any turn.                               *)
LEMMA HangUpStep ==
  ASSUME NEW k, NEW cl, NEW out, NEW t \in {"client", "handler", "sending"},
         Changes(k, cl, t, out, "over"),
         out.taken = cl.taken, out.answers = cl.answers
  PROVE  Allowed
<1>1. E!HangUp(k)
  BY DEF Changes, Seen, E!HangUp, E!Continues
<1> QED BY <1>1 DEF Allowed, E!Next, Changes

(* The next request is taken when it is fit for the handler.               *)
LEMMA TakeStep ==
  ASSUME NEW k, NEW cl, NEW out, Changes(k, cl, "client", out, "handler"),
         out.taken = cl.taken + 1, out.answers = cl.answers,
         ClientOK(out)
  PROVE  Allowed
<1>1. /\ cl.taken \in Nat /\ cl.taken + 1 <= Len(cl.script.requests)
      /\ cl.taken + 1 \in 1..out.taken
  BY DEF Changes, ClientOK
<1>2. Accepted(cl.script.requests[cl.taken + 1])
  BY <1>1 DEF Changes, ClientOK
<1>3. cl.script.requests[cl.taken + 1] \in Request
  <2>1. IsScript(cl.script)
    BY ClientFacts DEF Changes
  <2>2. cl.script.requests \in Seq(Request)
    BY <2>1 DEF IsScript
  <2> QED BY <1>1, <2>2
<1>4. cl.taken < Len(cl.script.requests)
  <2>1. cl.script.requests \in Seq(Request)
    BY ClientFacts DEF Changes, IsScript
  <2>2. Len(cl.script.requests) \in Nat
    BY <2>1
  <2> QED BY <1>1, <2>2
<1>5. E!Take(k)
  BY <1>2, <1>3, <1>4 DEF Changes, Seen, E!Take, E!Continues, E!Turn
<1> QED BY <1>5 DEF Allowed, E!Next, Changes

(* A request is refused at the client's turn.                              *)
LEMMA RefuseStep ==
  ASSUME NEW k, NEW cl, NEW out, Changes(k, cl, "client", out, "over"),
         NEW status \in {400, 413, 431},
         out.taken = cl.taken, out.answers = Append(cl.answers, status)
  PROVE  Allowed
<1>1. Append(Exchanged[k].answers, status) = out.answers
  BY DEF Changes, Seen
<1>2. E!Turn(k, "client")
  BY DEF Changes, Seen, E!Turn
<1>3. E!Continues(k, Exchanged[k].taken, out.answers, "over")
  BY DEF Changes, Seen, E!Continues
<1>4. E!Continues(k, Exchanged[k].taken, Append(Exchanged[k].answers, status), "over")
  BY <1>1, <1>3
<1>5. E!Refuse(k)
  BY <1>2, <1>4 DEF E!Refuse
<1> QED BY <1>5 DEF Allowed, E!Next, Changes

(* The handler's answer, and the 500 for a handler that raised.            *)
LEMMA AnswerStep ==
  ASSUME NEW k, NEW cl, NEW out, NEW status, NEW turn,
         \/ status = 200 /\ turn = "sending"
         \/ status = 500 /\ turn = "over",
         Changes(k, cl, "handler", out, turn),
         out.taken = cl.taken, out.answers = Append(cl.answers, status)
  PROVE  Allowed
<1>1. Append(Exchanged[k].answers, status) = out.answers
  BY DEF Changes, Seen
<1>2. E!Turn(k, "handler")
  BY DEF Changes, Seen, E!Turn
<1>3. E!Continues(k, Exchanged[k].taken, out.answers, turn)
  BY DEF Changes, Seen, E!Continues
<1>4. E!Respond(k) \/ E!Fail(k)
  BY <1>1, <1>2, <1>3, Zenon DEF E!Respond, E!Fail
<1> QED BY <1>4 DEF Allowed, E!Next, Changes

(* The connection is kept when the request asked for it.                   *)
LEMMA KeepAliveStep ==
  ASSUME NEW k, NEW cl, NEW out, Changes(k, cl, "sending", out, "client"),
         cl.script.requests[cl.taken].keep,
         out.taken = cl.taken, out.answers = cl.answers
  PROVE  Allowed
<1>1. E!KeepAlive(k)
  BY DEF Changes, Seen, E!KeepAlive, E!Continues, E!Turn
<1> QED BY <1>1 DEF Allowed, E!Next, Changes

-----------------------------------------------------------------------------
(* Steps of HttpRead.                                                      *)

(* What a step of connection c shows of its client, which becomes "out".   *)
LEMMA Shows ==
  ASSUME IInv, IInv', NEW c \in Conns, pc[c] # "idle", serving' = serving,
         NEW p \in Points \ {"idle"}, Goto(c, p),
         NEW cl, cl = client[serving[c]],
         NEW out, client' = [client EXCEPT ![serving[c]] = out], out.script = cl.script
  PROVE  /\ Changes(serving[c], cl, TurnAt[pc[c]], out, TurnAt[p])
         /\ ClientOK(out)
<1>1. Sessions /\ Sessions' /\ Types
  BY DEF IInv, Sessions
<1> DEFINE k == serving[c]
<1>2. /\ k \in Clients /\ k # None /\ ClientOK(cl) /\ cl # None /\ cl.taken \in Nat
      /\ \A d \in Conns \ {c} : serving[d] # k
  BY Working
<1>3. pc'[c] = p /\ \A d \in Conns \ {c} : pc'[d] = pc[d]
  BY <1>1 DEF Goto, Types
<1>4. client'[k] = out
  BY <1>1, <1>2 DEF Types
<1>5. out # None
  BY <1>1, <1>2, <1>4 DEF Sessions, Session, ConnOK, SessionOK
<1>6. ClientOK(out)
  BY <1>1, <1>2, <1>4, <1>5 DEF Sessions
<1>7. Exchanged[k] = Seen(cl, TurnAt[pc[c]])
  <2>1. TurnOf(k) = TurnBy(k, serving, pc)
    BY DEF TurnOf, TurnBy
  <2>2. TurnOf(k) = TurnAt[pc[c]]
    BY <1>2, <2>1, TurnServed
  <2> QED BY <1>2, <2>2 DEF Exchanged, Seen
<1>8. Exchanged' = [Exchanged EXCEPT ![k] = Seen(out, TurnAt[p])]
  <2> DEFINE turn == IF serving'[c] = k THEN TurnAt[pc'[c]] ELSE "over"
  <2>1. turn = TurnAt[p]
    BY <1>3
  <2>2. \A d \in Conns \ {c} : serving'[d] = serving[d] /\ pc'[d] = pc[d] /\ serving[d] # k
    BY <1>2, <1>3
  <2>3. serving[c] \in {k, None} /\ serving'[c] \in {k, None}
    OBVIOUS
  <2>4. client' = [client EXCEPT ![k] = out]
    OBVIOUS
  <2>5. StepFor(k, c, out, turn)
    BY <1>2, <1>5, <2>2, <2>3, <2>4 DEF StepFor
  <2> QED BY <1>1, <2>1, <2>5, ShowsInOne
<1> QED BY <1>2, <1>6, <1>7, <1>8 DEF Changes

(* Whose turn it is at each point.                                         *)
LEMMA TurnsAt ==
  /\ TurnAt["read"] = "client" /\ TurnAt["recv"] = "client"
  /\ TurnAt["handler"] = "handler" /\ TurnAt["respond"] = "sending"
  /\ TurnAt["fail"] = "over" /\ TurnAt["refuse"] = "over" /\ TurnAt["closing"] = "over"
  /\ TurnAt["idle"] = "over"
BY DEF TurnAt

(* A step that changes nothing of the client: a turn goes on, or ends.     *)
LEMMA SilentStep ==
  ASSUME IInv, IInv', NEW c \in Conns, pc[c] # "idle", serving' = serving, client' = client,
         NEW p \in Points \ {"idle"}, Goto(c, p),
         TurnAt[p] \in {TurnAt[pc[c]], "over"}
  PROVE  Allowed
<1> DEFINE cl == client[serving[c]]
<1>1. /\ cl = client[serving[c]] /\ client' = [client EXCEPT ![serving[c]] = cl]
      /\ cl.script = cl.script /\ pc[c] \in Points
  BY Working
<1> HIDE DEF cl
<1>2. Changes(serving[c], cl, TurnAt[pc[c]], cl, TurnAt[p])
  BY <1>1, Shows
<1>3. TurnAt[pc[c]] \in {"client", "handler", "sending", "over"}
  BY <1>1, TurnsAt DEF Points
<1>4. CASE TurnAt[p] = TurnAt[pc[c]]
  BY <1>2, <1>4, HiddenStep
<1>5. CASE TurnAt[p] = "over" /\ TurnAt[pc[c]] # "over"
  BY <1>2, <1>3, <1>5, HangUpStep
<1> QED BY <1>4, <1>5

(* The handler's connection answers.                                       *)
LEMMA AnswersStep ==
  ASSUME IInv, IInv', NEW c \in Conns, pc[c] = "handler", serving' = serving,
         NEW status, Answer(c, status), NEW p, Goto(c, p),
         \/ status = 200 /\ p = "respond"
         \/ status = 500 /\ p = "fail"
  PROVE  Allowed
<1> DEFINE cl == client[serving[c]]
           out == [cl EXCEPT !.answers = Append(@, status)]
<1>1. /\ client' = [client EXCEPT ![serving[c]] = out]
      /\ cl = client[serving[c]] /\ pc[c] # "idle" /\ p \in Points \ {"idle"}
  BY DEF Answer, Points
<1>2. cl \in ClientStates
  BY <1>1, Working DEF ClientOK
<1>3. /\ out.script = cl.script /\ out.taken = cl.taken
      /\ out.answers = Append(cl.answers, status)
  BY <1>2 DEF ClientStates
<1> HIDE DEF cl, out
<1>4. Changes(serving[c], cl, TurnAt[pc[c]], out, TurnAt[p])
  BY <1>1, <1>3, Shows
<1> DEFINE turn == TurnAt[p]
<1>5. \/ status = 200 /\ turn = "sending"
      \/ status = 500 /\ turn = "over"
  BY TurnsAt
<1> HIDE DEF turn
<1>6. Changes(serving[c], cl, "handler", out, turn)
  BY <1>4, TurnsAt DEF turn
<1> QED BY <1>3, <1>5, <1>6, AnswerStep

(* A step of http_read_request takes a request, refuses one, or neither.   *)
Reads(c, p, cl, out) ==
  /\ Goto(c, p) /\ client' = [client EXCEPT ![serving[c]] = out]
  /\ out.script = cl.script
  /\ \/ p \in {"recv", "closing"} /\ out.taken = cl.taken /\ out.answers = cl.answers
     \/ p = "handler" /\ out.taken = cl.taken + 1 /\ out.answers = cl.answers
     \/ /\ p = "refuse" /\ out.taken = cl.taken
        /\ \E status \in {400, 413, 431} : out.answers = Append(cl.answers, status)

(* Exchange allows all three.                                              *)
LEMMA ReadsStep ==
  ASSUME IInv, IInv', NEW c \in Conns, pc[c] \in {"read", "recv"}, serving' = serving,
         NEW p, NEW cl, cl = client[serving[c]], NEW out, Reads(c, p, cl, out)
  PROVE  Allowed
<1>1. /\ p \in Points \ {"idle"} /\ pc[c] # "idle" /\ Goto(c, p)
      /\ client' = [client EXCEPT ![serving[c]] = out] /\ out.script = cl.script
  BY DEF Reads, Points
<1>2. Changes(serving[c], cl, TurnAt[pc[c]], out, TurnAt[p]) /\ ClientOK(out)
  BY <1>1, Shows
<1>3. TurnAt[pc[c]] = "client"
  BY TurnsAt
<1>4. CASE p = "recv" /\ out.taken = cl.taken /\ out.answers = cl.answers
  BY <1>2, <1>3, <1>4, HiddenStep, TurnsAt
<1>5. CASE p = "closing" /\ out.taken = cl.taken /\ out.answers = cl.answers
  <2>1. Changes(serving[c], cl, "client", out, "over")
    BY <1>2, <1>3, <1>5, TurnsAt
  <2> QED BY <1>5, <2>1, HangUpStep
<1>6. CASE p = "handler" /\ out.taken = cl.taken + 1 /\ out.answers = cl.answers
  BY <1>2, <1>3, <1>6, TakeStep, TurnsAt
<1>7. CASE /\ p = "refuse" /\ out.taken = cl.taken
           /\ \E status \in {400, 413, 431} : out.answers = Append(cl.answers, status)
  <2>1. PICK status \in {400, 413, 431} : out.answers = Append(cl.answers, status)
    BY <1>7
  <2>2. Changes(serving[c], cl, "client", out, "over")
    BY <1>2, <1>3, <1>7, TurnsAt
  <2> QED BY <1>7, <2>1, <2>2, RefuseStep
<1> QED BY <1>4, <1>5, <1>6, <1>7 DEF Reads

(* cl is what client k has become by the bytes received so far.            *)
Reaches(k, cl) ==
  /\ cl \in ClientStates
  /\ cl.script = client[k].script /\ cl.taken = client[k].taken
  /\ cl.answers = client[k].answers

(* A refusal.                                                              *)
LEMMA RefuseReads ==
  ASSUME NEW c, NEW in, NEW cl, Reaches(serving[c], cl), NEW why \in DOMAIN StatusOf,
         Refuse(c, in, cl, why)
  PROVE  \E p, out : Reads(c, p, client[serving[c]], out)
<1> DEFINE status == StatusOf[why]
           out == [cl EXCEPT !.answers = Append(@, status)]
<1>1. /\ client' = [client EXCEPT ![serving[c]] = out] /\ Goto(c, "refuse")
      /\ status \in {400, 413, 431}
  BY DEF Refuse, StatusOf
<1>2. out.script = cl.script /\ out.taken = cl.taken /\ out.answers = Append(cl.answers, status)
  BY DEF Reaches, ClientStates
<1> HIDE DEF status, out
<1>3. Reads(c, "refuse", client[serving[c]], out)
  BY <1>1, <1>2 DEF Reads, Reaches
<1> QED BY <1>3

(* A request that is taken.                                                *)
LEMMA DeliverReads ==
  ASSUME NEW c, NEW in, NEW cl, Reaches(serving[c], cl), Deliver(c, in, cl)
  PROVE  \E p, out : Reads(c, p, client[serving[c]], out)
<1> DEFINE n == Total(NextRequest(cl))
           mid == [cl EXCEPT !.taken = @ + 1]
           out == [cl EXCEPT !.taken = @ + 1, !.consumed = @ + n]
<1>1. client' = [client EXCEPT ![serving[c]] = out] /\ Goto(c, "handler")
  BY DEF Deliver
<1>2. out = [mid EXCEPT !.consumed = @ + n]
  BY Zenon
<1> HIDE DEF n
<1>3. /\ mid.script = cl.script /\ mid.taken = cl.taken + 1 /\ mid.answers = cl.answers
      /\ DOMAIN mid = {"script", "received", "consumed", "taken", "answers"}
  BY DEF Reaches, ClientStates
<1> HIDE DEF mid
<1>4. out.script = cl.script /\ out.taken = cl.taken + 1 /\ out.answers = cl.answers
  BY <1>2, <1>3
<1> HIDE DEF out
<1>5. Reads(c, "handler", client[serving[c]], out)
  BY <1>1, <1>4 DEF Reads, Reaches
<1> QED BY <1>5

(* A receive, or out of memory.                                            *)
LEMMA StartRecvReads ==
  ASSUME NEW c, NEW in, NEW cl, Reaches(serving[c], cl),
         StartRecv(c, in, cl) \/ OutOfMemory(c, in, cl)
  PROVE  \E p, out : Reads(c, p, client[serving[c]], out)
<1>1. PICK p \in {"recv", "closing"} :
        Goto(c, p) /\ client' = [client EXCEPT ![serving[c]] = cl]
  BY DEF StartRecv, OutOfMemory
<1>2. Reads(c, p, client[serving[c]], cl)
  BY <1>1 DEF Reads, Reaches
<1> QED BY <1>2

(* One of these follows the parser's verdict.                              *)
LEMMA ParseReads ==
  ASSUME NEW c, NEW in, NEW cl, Reaches(serving[c], cl), Parse(c, in, cl)
  PROVE  \E p, out : Reads(c, p, client[serving[c]], out)
BY RefuseReads, DeliverReads, StartRecvReads DEF Parse

(* A call of http_read_request, up to its first wait.                      *)
LEMMA ReadRequestAllowed ==
  ASSUME IInv, IInv', NEW c \in Conns, ReadRequest(c)
  PROVE  Allowed
<1> DEFINE cl == client[serving[c]]
<1>1. pc[c] = "read" /\ pc[c] # "idle" /\ serving' = serving
  BY DEF ReadRequest
<1>2. ClientOK(cl)
  BY <1>1, Working
<1>3. Reaches(serving[c], cl)
  BY <1>2 DEF Reaches, ClientOK
<1>4. PICK in : Parse(c, in, cl) \/ StartRecv(c, in, cl)
  BY DEF ReadRequest
<1>5. PICK p, out : Reads(c, p, cl, out)
  BY <1>3, <1>4, ParseReads, StartRecvReads
<1> QED BY <1>1, <1>5, ReadsStep

(* The same from one wait to the next.                                     *)
LEMMA ReceiveAllowed ==
  ASSUME IInv, IInv', NEW c \in Conns, Receive(c)
  PROVE  Allowed
<1> DEFINE cl == client[serving[c]]
<1>1. pc[c] = "recv" /\ pc[c] # "idle" /\ serving' = serving
  BY DEF Receive
<1>2. PICK n \in 1..RecvLen(input[c]) :
        /\ cl.received + n <= cl.script.bytes
        /\ \E in : \/ Parse(c, in, [cl EXCEPT !.received = @ + n])
                   \/ Refuse(c, in, [cl EXCEPT !.received = @ + n], "request_too_large")
  BY DEF Receive
<1> DEFINE read == [cl EXCEPT !.received = @ + n]
<1>3. PICK in : Parse(c, in, read) \/ Refuse(c, in, read, "request_too_large")
  BY <1>2
<1>4. /\ ClientOK(cl) /\ Len(cl.answers) = cl.taken
      /\ IsInput(input[c])
  BY <1>1, Working DEF SessionOK
<1>5. n \in Nat
  BY <1>4, InputFacts, HttpAssumption DEF RecvLen
<1>6. ClientOK(read) /\ read.taken = cl.taken /\ read.answers = cl.answers
      /\ read.script = cl.script
  BY <1>2, <1>4, <1>5, Received
<1> HIDE DEF read
<1>7. Reaches(serving[c], read)
  BY <1>6 DEF Reaches, ClientOK
<1>8. "request_too_large" \in DOMAIN StatusOf
  BY DEF StatusOf
<1>9. PICK p, out : Reads(c, p, cl, out)
  BY <1>3, <1>7, <1>8, ParseReads, RefuseReads
<1> QED BY <1>1, <1>9, ReadsStep

(* A refusal of what is not whole, or the end.                             *)
LEMMA ReceiveNothingAllowed ==
  ASSUME IInv, IInv', NEW c \in Conns, ReceiveNothing(c)
  PROVE  Allowed
<1> DEFINE cl == client[serving[c]]
<1>1. pc[c] = "recv" /\ pc[c] # "idle" /\ serving' = serving
  BY DEF ReceiveNothing
<1>2. CASE Refuse(c, input[c], cl, "invalid")
  <2>1. Reaches(serving[c], cl)
    BY <1>1, Working DEF Reaches, ClientOK
  <2>2. "invalid" \in DOMAIN StatusOf
    BY DEF StatusOf
  <2>3. PICK p, out : Reads(c, p, cl, out)
    BY <1>2, <2>1, <2>2, RefuseReads
  <2> QED BY <1>1, <2>3, ReadsStep
<1>3. CASE Goto(c, "closing") /\ client' = client
  <2>1. "closing" \in Points \ {"idle"}
    BY DEF Points
  <2> QED BY <1>1, <1>3, <2>1, SilentStep, TurnsAt
<1> QED BY <1>2, <1>3 DEF ReceiveNothing

(* The steps after which nothing is read, answered or kept.                *)
LEMMA GivesUpAllowed ==
  ASSUME IInv, IInv', NEW c \in Conns,
         ReceiveFails(c) \/ RespondRaises(c) \/ Abandon(c) \/ Refused(c)
  PROVE  Allowed
<1>1. pc[c] # "idle" /\ serving' = serving /\ client' = client /\ Goto(c, "closing")
  BY DEF ReceiveFails, RespondRaises, Abandon, Refused
<1>2. "closing" \in Points \ {"idle"}
  BY DEF Points
<1> QED BY <1>1, <1>2, SilentStep, TurnsAt

(* The handler's answer.                                                   *)
LEMMA AnswersAllowed ==
  ASSUME IInv, IInv', NEW c \in Conns, Respond(c) \/ HandlerRaises(c)
  PROVE  Allowed
BY AnswersStep DEF Respond, HandlerRaises

(* The connection is kept alive or closed.                                 *)
LEMMA RespondedAllowed ==
  ASSUME IInv, IInv', NEW c \in Conns, Responded(c)
  PROVE  Allowed
<1> DEFINE cl == client[serving[c]]
<1>1. /\ pc[c] = "respond" /\ pc[c] # "idle" /\ serving' = serving /\ client' = client
      /\ "closing" \in Points \ {"idle"} /\ "read" \in Points \ {"idle"}
  BY DEF Responded, Points
<1>2. CASE Goto(c, "read") /\ cl.script.requests[cl.taken].keep
  <2>1. client' = [client EXCEPT ![serving[c]] = cl] /\ cl = client[serving[c]]
        /\ cl.script = cl.script
    BY <1>1, Working
  <2>2. cl.script.requests[cl.taken].keep
    BY <1>2
  <2> HIDE DEF cl
  <2>3. Changes(serving[c], cl, TurnAt[pc[c]], cl, TurnAt["read"])
    BY <1>1, <1>2, <2>1, Shows
  <2>4. Changes(serving[c], cl, "sending", cl, "client")
    BY <1>1, <2>3, TurnsAt
  <2> QED BY <2>2, <2>4, KeepAliveStep
<1>3. CASE Goto(c, "closing")
  BY <1>1, <1>3, SilentStep, TurnsAt
<1> QED BY <1>2, <1>3 DEF Responded

(* A client is served by the connection it is given.                       *)
LEMMA ConnectAllowed ==
  ASSUME IInv, NEW c \in Conns, NEW k \in Clients, Connect(c, k)
  PROVE  Allowed
<1>1. Sessions /\ Types
  BY DEF IInv, Sessions
<1>2. PICK script \in Scripts :
        client' = [client EXCEPT ![k] =
          [script |-> script, received |-> 0, consumed |-> 0, taken |-> 0, answers |-> <<>>]]
  BY DEF Connect
<1> DEFINE cl == [script |-> script, received |-> 0, consumed |-> 0, taken |-> 0, answers |-> <<>>]
<1>3. serving[c] = None
  BY <1>1 DEF Connect, Sessions, Session, ConnOK
<1>4. \A d \in Conns : serving[d] # k
  <2>1. ASSUME NEW d \in Conns, serving[d] = k PROVE FALSE
    <3>1. k # None /\ client[k] = None
      BY HttpAssumption DEF Connect
    <3>2. SessionOK(input[d], pc[d], serving[d], client[serving[d]])
      BY <1>1, <2>1, <3>1 DEF Sessions, Session, ConnOK
    <3> QED BY <2>1, <3>1, <3>2 DEF SessionOK
  <2> QED BY <2>1
<1>5. serving'[c] = k /\ pc'[c] = "read"
  BY <1>1 DEF Connect, Goto, Types
<1>6. \A d \in Conns \ {c} : serving'[d] = serving[d] /\ pc'[d] = pc[d]
  BY <1>1 DEF Connect, Goto, Types
<1>7. cl # None
  <2>1. cl \in ClientStates
    BY DEF ClientStates
  <2> QED BY <2>1, HttpAssumption
<1>8. StepFor(k, c, cl, "client")
  BY <1>2, <1>3, <1>4, <1>5, <1>6, <1>7, TurnsAt DEF StepFor
<1>9. Exchanged' = [Exchanged EXCEPT ![k] = Seen(cl, "client")]
  BY <1>1, <1>8, ShowsInOne
<1>10. Exchanged[k].turn = "nobody"
  BY DEF Connect, Exchanged
<1>11. E!Connect(k)
  BY <1>9, <1>10 DEF E!Connect, E!Turn, Seen
<1> QED BY <1>11 DEF Allowed, E!Next

(* What the client sees was over before its connection is given back.      *)
LEMMA ClosedAllowed ==
  ASSUME IInv, NEW c \in Conns, Closed(c)
  PROVE  Allowed
<1>1. Sessions /\ Types
  BY DEF IInv, Sessions
<1> DEFINE k == serving[c]
           cl == client[k]
<1>2. pc[c] = "closing" /\ pc[c] # "idle" /\ client' = client
  BY DEF Closed
<1>3. /\ k \in Clients /\ k # None /\ cl # None
      /\ \A d \in Conns \ {c} : serving[d] # k
      /\ client = [client EXCEPT ![k] = cl]
  BY <1>2, Working
<1>4. serving'[c] = None /\ \A d \in Conns \ {c} : serving'[d] = serving[d] /\ pc'[d] = pc[d]
  BY <1>1 DEF Closed, Goto, Types
<1>5. StepFor(k, c, cl, "over")
  BY <1>2, <1>3, <1>4 DEF StepFor
<1>6. Exchanged' = [Exchanged EXCEPT ![k] = Seen(cl, "over")]
  BY <1>1, <1>5, ShowsInOne
<1>7. TurnOf(k) = "over"
  <2>1. TurnOf(k) = TurnBy(k, serving, pc)
    BY DEF TurnOf, TurnBy
  <2>2. TurnBy(k, serving, pc) = TurnAt[pc[c]]
    BY <1>3, TurnServed
  <2> QED BY <1>2, <2>1, <2>2, TurnsAt
<1>8. Exchanged[k] = Seen(cl, "over")
  BY <1>3, <1>7 DEF Exchanged, Seen
<1>9. Exchanged' = Exchanged
  BY <1>6, <1>8 DEF Exchanged
<1> QED BY <1>9 DEF Allowed

-----------------------------------------------------------------------------
(* The refinement.                                                         *)

(* Nobody is connected.                                                    *)
LEMMA InitExchange == Init => E!Init
BY DEF Init, E!Init, Exchanged

(* Every action is a step of the exchange, or none.                        *)
LEMMA NextExchange == IInv /\ IInv' /\ [Next]_vars => [E!Next]_Exchanged
<1> SUFFICES ASSUME IInv, IInv', [Next]_vars PROVE Allowed
  BY DEF Allowed
<1>1. CASE UNCHANGED vars
  <2>1. client' = client /\ serving' = serving /\ pc' = pc
    BY <1>1 DEF vars
  <2> QED BY <2>1 DEF Allowed, Exchanged, TurnOf
<1>2. ASSUME NEW c \in Conns, Step(c) PROVE Allowed
  BY <1>2, ReadRequestAllowed, ReceiveAllowed, ReceiveNothingAllowed, GivesUpAllowed,
     AnswersAllowed, RespondedAllowed, ConnectAllowed, ClosedAllowed DEF Step
<1>3. CASE Quiet
  BY <1>1, <1>3 DEF Quiet
<1> QED BY <1>1, <1>2, <1>3 DEF Next

(* HttpRead implements Exchange: whatever the buffers and the other         *)
(* connections do, a client's requests are taken one at a time, in order    *)
(* and fit for the handler, and it is sent what Exchange lets it be sent.   *)
THEOREM Implements == Spec => ImplementsExchange
<1>1. Init => E!Init
  BY InitExchange
<1>2. IInv /\ IInv' /\ [Next]_vars => [E!Next]_Exchanged
  BY NextExchange
<1> QED BY <1>1, <1>2, Invariant, PTL DEF Spec, ImplementsExchange, E!Spec
=============================================================================
