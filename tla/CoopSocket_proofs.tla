-------------------------- MODULE CoopSocket_proofs --------------------------
(***************************************************************************)
(* Who owns which descriptor in the cooperative sockets (OwnFile,          *)
(* EverythingOwned) and what a lookup answers (AnswerStored), for any      *)
(* greenlets, sockets, lookups and numbers.                                *)
(*                                                                         *)
(* What is held is collected in one set of holdings: by a socket, by a     *)
(* close on its way, by the program, by an end of a lookup's pipe. Owned   *)
(* says that each opening is held once, that what is open is held, and     *)
(* what is in the hub's map; this is so whatever second closes do. Named   *)
(* says that what is held is open, until a second close strikes. An action *)
(* takes holdings, gives them up, or hands one on.                         *)
(***************************************************************************)
EXTENDS CoopSocket, WellFoundedInduction, TLAPS

Descs == [fd : Fds, gen : 1..MaxGen]
MaybeDescs == [fd : Fds \cup {0}, gen : 0..MaxGen]
Sqes == [fd : Fds, gen : 1..MaxGen, tracked : BOOLEAN]

Ops == {"none", "accept", "lookup", "next", "connecting", "resolve", "connect", "failed", "raised"}
SockOps == {"accept", "connecting", "resolve", "connect", "failed", "raised"}
JobOps == {"lookup", "resolve"}

Calls == [op : Ops, sock : Socks \cup {0}, job : Jobs \cup {0}, left : Nat, create : BOOLEAN]

Lookups == [state : {"unborn", "running", "stored", "ended"}, byte : BOOLEAN, full : BOOLEAN,
            r : MaybeDescs, w : MaybeDescs]

SocketObjects == [live : BOOLEAN, desc : MaybeDescs, registered : BOOLEAN, closed : BOOLEAN, refs : Nat]

SocketTypes ==
    /\ thrown \in Nat /\ struck \in BOOLEAN
    /\ open \in [Fds -> 0..MaxGen]
    /\ conn \in [Fds -> 0..Left]
    /\ closes \subseteq Sqes
    /\ call \in [Greenlets -> Calls]
    /\ ready \subseteq Greenlets
    /\ job \in [Jobs -> Lookups]
    /\ sock \in [Socks -> SocketObjects]
    /\ raw \subseteq Descs
    /\ late \subseteq Descs
    /\ kept \subseteq Descs /\ dropped \subseteq Descs

-----------------------------------------------------------------------------
(* A descriptor that somebody has, and whether the hub has a connection    *)
(* for it on its behalf.                                                   *)
Holding(kind, of, d, known) ==
    [kind |-> kind, of |-> of, fd |-> d.fd, gen |-> d.gen, known |-> known]

SockHolding(s, v) == Holding("socket", s, v.desc, v.registered)
CloseHolding(c) == Holding("close", 0, c, c.tracked)
RawHolding(d) == Holding("raw", 0, d, FALSE)
LateHolding(d) == Holding("late", 0, d, TRUE)
DroppedHolding(d) == Holding("dropped", 0, d, FALSE)
ReadHolding(j, v) == Holding("read", j, v.r, FALSE)
WriteHolding(j, v) == Holding("write", j, v.w, FALSE)

(* What no socket and no lookup has: the program, nobody, and the C        *)
(* objects of dropped sockets.                                             *)
LooseOf(rw, lt, dr) ==
    {RawHolding(d) : d \in rw} \cup {LateHolding(d) : d \in lt} \cup {DroppedHolding(d) : d \in dr}

LooseKinds(ls) == \A x \in ls : x.kind \in {"raw", "late", "dropped"}

Loose == LooseOf(raw, late, dropped)

(* By the sockets sk, the closes cl, loose, and by the lookups jb. *)
HoldingsOf(sk, cl, ls, jb) ==
    UNION {{SockHolding(s, sk[s]) : s \in {t \in Socks : sk[t].live}},
           {CloseHolding(c) : c \in cl},
           ls,
           {ReadHolding(j, jb[j]) : j \in {k \in Jobs : jb[k].r.gen # 0}},
           {WriteHolding(j, jb[j]) : j \in {k \in Jobs : jb[k].w.gen # 0}}}

Holdings == HoldingsOf(sock, closes, Loose, job)

Same(x, d) == x.fd = d.fd /\ x.gen = d.gen

(* A close is nobody's once the C object, which is not in K then, has      *)
(* closed the number.                                                      *)
Lives(x, K) == x.kind = "close" => \E d \in K : Same(x, d)

(* Connections of the hub that are for no opening. *)
NoOpening == {0, Gone, Left}

(* The holdings H hold the open files o and the connections c. *)
Owned(H, o, c, K) ==
    /\ \A x \in H : x.fd \in Fds /\ x.gen \in 1..MaxGen /\ x.known \in BOOLEAN
    /\ \A x, y \in H : Same(x, y) => x = y
    /\ \A fd \in Fds : o[fd] # 0 => \E x \in H : x.fd = fd /\ x.gen = o[fd] /\ Lives(x, K)
    /\ \A fd \in Fds : c[fd] \notin NoOpening =>
            \E x \in H : x.fd = fd /\ x.known /\ (x.kind # "close" => x.gen = c[fd])
    /\ \A x \in H, d \in K : Same(x, d) => x.kind = "close"

(* They mean what is open, and the connections that are for it. *)
Named(H, o, c, K) ==
    \A x \in H : Lives(x, K) => o[x.fd] = x.gen /\ (x.known => c[x.fd] = x.gen)

Books(H, o, c, K, hit) == Owned(H, o, c, K) /\ (~hit => Named(H, o, c, K))

(* What no holding is of: an object that is not alive, a closed one that   *)
(* is kept by files.                                                       *)
SocketsOK ==
    \A s \in Socks :
        /\ ~sock[s].live => sock[s] = NoSocket
        /\ sock[s].closed => sock[s].refs > 0

(* A greenlet has the socket and the lookup of its call to itself, and is  *)
(* resumed from a lookup only when its pipe has had a byte.                *)
CallOK(g) ==
    /\ call[g].job # 0 <=> call[g].op \in JobOps
    /\ call[g].sock # 0 <=> call[g].op \in SockOps
    /\ call[g].sock # 0 => sock[call[g].sock].live
    /\ call[g].create => call[g].sock # 0
    /\ call[g].job # 0 => job[call[g].job].w.gen # 0
    /\ g \in ready /\ call[g].job # 0 => job[call[g].job].byte

Alone ==
    \A g, h \in Greenlets :
        /\ call[g].job = call[h].job /\ call[g].job # 0 => g = h
        /\ call[g].sock = call[h].sock /\ call[g].sock # 0 => g = h

(* No lookup was given up, and no second close has struck. *)
Quiet == thrown = 0 /\ ~struck

(* A lookup has its pipe while somebody waits for it. In quiet that is as  *)
(* long as it lives, and a byte is its own thread's last.                  *)
JobOK(j) ==
    /\ job[j].state = "unborn" => job[j] = Unborn
    /\ job[j].r.gen # 0 <=> job[j].w.gen # 0
    /\ job[j].w.gen # 0 => \E g \in Greenlets : call[g].job = j
    /\ Quiet => /\ job[j].state # "unborn" => job[j].w.gen # 0
                /\ job[j].byte => job[j].state = "ended"
                /\ job[j].state \in {"stored", "ended"} => job[j].full

HeldInv == Books(Holdings, open, conn, kept, struck) /\ SocketsOK

CallsInv ==
    /\ \A g \in Greenlets : CallOK(g)
    /\ Alone
    /\ \A j \in Jobs : JobOK(j)

SocketInv == SocketTypes /\ HeldInv /\ CallsInv

-----------------------------------------------------------------------------
(* The least of a set of numbers is one of them. *)
LEMMA MinIn ==
    ASSUME NEW S \in SUBSET Nat, S # {}
    PROVE  Min(S) \in S
<1>1. \E x \in S : \A y \in S : ~ (<<y, x>> \in OpToRel(<, Nat))
  BY NatLessThanWellFounded, WFMin
<1>2. \E x \in S : \A y \in S : ~ (y < x)
  BY <1>1 DEF OpToRel
<1>3. \E x \in S : \A y \in S : x <= y
  BY <1>2
<1> QED BY <1>3 DEF Min

(* What is in the set of holdings. *)
LEMMA KindsDiffer ==
    ASSUME NEW sk, NEW cl, NEW ls, NEW jb, NEW x
    PROVE  x \in HoldingsOf(sk, cl, ls, jb) <=>
              \/ \E s \in Socks : sk[s].live /\ x = SockHolding(s, sk[s])
              \/ \E c \in cl : x = CloseHolding(c)
              \/ x \in ls
              \/ \E j \in Jobs : jb[j].r.gen # 0 /\ x = ReadHolding(j, jb[j])
              \/ \E j \in Jobs : jb[j].w.gen # 0 /\ x = WriteHolding(j, jb[j])
BY DEF HoldingsOf

(* A descriptor that is not in the books. *)
NewTo(d, H, K) == (\A x \in H : ~Same(x, d)) /\ d \notin K

(* What nobody means is new to the books. The sockets may have changed     *)
(* otherwise.                                                              *)
LEMMA UnmeantIsNew ==
    ASSUME NEW d, ~Meant(d), SocketTypes, d \in Descs,
           NEW sk, \A s \in Socks : sk[s].live => sk[s].desc = sock[s].desc
    PROVE  NewTo(d, HoldingsOf(sk, closes, Loose, job), kept)
<1>1. \A e \in Descs \cup MaybeDescs : e.fd = d.fd /\ e.gen = d.gen => e = d
  BY DEF Descs, MaybeDescs
<1>2. ASSUME NEW x \in HoldingsOf(sk, closes, Loose, job), Same(x, d)
      PROVE  FALSE
  <2>1. CASE \E s \in Socks : sk[s].live /\ x = SockHolding(s, sk[s])
    <3>1. PICK s \in Socks : sk[s].live /\ x = SockHolding(s, sk[s])
      BY <2>1
    <3>2. sock[s].desc.fd = d.fd /\ sock[s].desc.gen = d.gen /\ sock[s].desc \in MaybeDescs
      BY <1>2, <3>1 DEF SockHolding, Holding, Same, SocketTypes, SocketObjects
    <3>3. sock[s].desc = d
      BY <1>1, <3>2
    <3> QED BY <3>3 DEF Meant
  <2>2. CASE \E c \in closes : x = CloseHolding(c)
    <3>1. PICK c \in closes : x = CloseHolding(c)
      BY <2>2
    <3>2. c.fd = d.fd /\ c.gen = d.gen
      BY <1>2, <3>1 DEF CloseHolding, Holding, Same
    <3>3. Desc(c) = d
      BY <3>2 DEF Desc, Descs
    <3> QED BY <3>3 DEF Meant
  <2>3. CASE x \in Loose
    <3>1. PICK e \in raw \cup late \cup dropped : e.fd = x.fd /\ e.gen = x.gen
      BY <2>3 DEF Loose, LooseOf, RawHolding, LateHolding, DroppedHolding, Holding
    <3>2. e = d
      BY <1>1, <1>2, <3>1 DEF Same, SocketTypes
    <3> QED BY <3>1, <3>2 DEF Meant
  <2>4. CASE \E j \in Jobs : job[j].r.gen # 0 /\ x = ReadHolding(j, job[j])
    <3>1. PICK j \in Jobs : x = ReadHolding(j, job[j])
      BY <2>4
    <3>2. job[j].r.fd = d.fd /\ job[j].r.gen = d.gen /\ job[j].r \in MaybeDescs
      BY <1>2, <3>1 DEF ReadHolding, Holding, Same, SocketTypes, Lookups
    <3>3. job[j].r = d
      BY <1>1, <3>2
    <3> QED BY <3>3 DEF Meant
  <2>5. CASE \E j \in Jobs : job[j].w.gen # 0 /\ x = WriteHolding(j, job[j])
    <3>1. PICK j \in Jobs : x = WriteHolding(j, job[j])
      BY <2>5
    <3>2. job[j].w.fd = d.fd /\ job[j].w.gen = d.gen /\ job[j].w \in MaybeDescs
      BY <1>2, <3>1 DEF WriteHolding, Holding, Same, SocketTypes, Lookups
    <3>3. job[j].w = d
      BY <1>1, <3>2
    <3> QED BY <3>3 DEF Meant
  <2> QED BY <2>1, <2>2, <2>3, <2>4, <2>5, KindsDiffer
<1>3. d \notin kept
  BY DEF Meant
<1> QED BY <1>2, <1>3 DEF NewTo

(* What is opened next is free and means nothing to anybody. *)
LEMMA NewDescIs ==
    ASSUME NEW taken, SocketTypes, CanOpen(taken)
    PROVE  /\ NewDesc(taken) \in Descs
           /\ open[NewDesc(taken).fd] = 0 /\ NewDesc(taken).fd \notin taken
           /\ ~Meant(NewDesc(taken))
<1>1. Fds \subseteq Nat /\ 1..MaxGen \subseteq Nat
  BY DescriptorsAssumption DEF Fds
<1>2. Lowest(taken) \in Free(taken)
  BY <1>1, MinIn DEF CanOpen, Lowest, Free
<1>3. Min(Fresh(Lowest(taken))) \in Fresh(Lowest(taken))
  BY <1>1, MinIn DEF CanOpen, Fresh
<1> QED BY <1>2, <1>3 DEF NewDesc, Descs, Free, Fresh

(* A new object takes the place of one that is not alive. *)
LEMMA NextSockIs == ASSUME CanMake PROVE NextSock \in Socks /\ ~sock[NextSock].live
BY DEF CanMake, NextSock

(* A new lookup is one that nobody has begun. *)
LEMMA NewJobIs == ASSUME CanLookup PROVE NewJob \in Jobs /\ job[NewJob].state = "unborn"
<1>1. Jobs \subseteq Nat
  BY DescriptorsAssumption DEF Jobs
<1> QED BY <1>1, MinIn DEF CanLookup, NewJob

-----------------------------------------------------------------------------
(* Opening, closing and handing on.                                        *)

(* A descriptor is opened on a number that is free. *)
LEMMA Opened ==
    ASSUME NEW H, NEW o \in [Fds -> 0..MaxGen], NEW c \in [Fds -> 0..Left], NEW K, NEW hit,
           Books(H, o, c, K, hit),
           NEW x, x.fd \in Fds, x.gen \in 1..MaxGen, x.known \in BOOLEAN, x.kind # "close",
           o[x.fd] = 0, \A y \in H : ~Same(y, x), \A d \in K : ~Same(x, d),
           NEW c2, c2 = IF x.known THEN [c EXCEPT ![x.fd] = x.gen] ELSE c
    PROVE  Books(H \cup {x}, [o EXCEPT ![x.fd] = x.gen], c2, K, hit)
<1> DEFINE o2 == [o EXCEPT ![x.fd] = x.gen]
           H2 == H \cup {x}
<1>1. /\ o2[x.fd] = x.gen /\ x.gen # 0 /\ Lives(x, K)
      /\ x.known => c2[x.fd] = x.gen
      /\ \A fd \in Fds : fd # x.fd => o2[fd] = o[fd] /\ c2[fd] = c[fd]
  BY DescriptorsAssumption DEF Lives
<1>2. Owned(H, o, c, K)
  BY DEF Books
<1> HIDE DEF o2
<1>3. \A y \in H2 : y.fd \in Fds /\ y.gen \in 1..MaxGen /\ y.known \in BOOLEAN
  BY <1>2 DEF Owned
<1>4. \A y, z \in H2 : Same(y, z) => y = z
  BY <1>2 DEF Owned, Same
<1>5. \A fd \in Fds : o2[fd] # 0 => \E y \in H2 : y.fd = fd /\ y.gen = o2[fd] /\ Lives(y, K)
  BY <1>1, <1>2 DEF Owned
<1>6. ASSUME NEW fd \in Fds, c2[fd] \notin NoOpening
      PROVE  \E y \in H2 : y.fd = fd /\ y.known /\ (y.kind # "close" => y.gen = c2[fd])
  <2>1. CASE x.known /\ fd = x.fd
    BY <1>1, <2>1
  <2>2. CASE ~(x.known /\ fd = x.fd)
    <3>1. c2[fd] = c[fd]
      BY <1>1, <2>2
    <3> QED BY <1>2, <1>6, <3>1 DEF Owned
  <2> QED BY <2>1, <2>2
<1>7. \A y \in H2, d \in K : Same(y, d) => y.kind = "close"
  BY <1>2 DEF Owned
<1>8. Owned(H2, o2, c2, K)
  BY <1>3, <1>4, <1>5, <1>6, <1>7 DEF Owned
<1>9. ASSUME ~hit PROVE Named(H2, o2, c2, K)
  <2>1. Named(H, o, c, K)
    BY <1>9 DEF Books
  <2> SUFFICES ASSUME NEW y \in H2, Lives(y, K)
               PROVE  o2[y.fd] = y.gen /\ (y.known => c2[y.fd] = y.gen)
    BY DEF Named
  <2>2. CASE y = x
    BY <1>1, <2>2
  <2>3. CASE y # x
    <3>1. y \in H /\ o[y.fd] = y.gen /\ (y.known => c[y.fd] = y.gen)
      BY <2>1, <2>3 DEF Named
    <3>2. y.fd \in Fds /\ y.gen # 0
      BY <1>2, <3>1, DescriptorsAssumption DEF Owned
    <3>3. y.fd # x.fd
      BY <3>1, <3>2
    <3> QED BY <1>1, <3>1, <3>2, <3>3
  <2> QED BY <2>2, <2>3
<1>10. Books(H2, o2, c2, K, hit)
  BY <1>8, <1>9 DEF Books
<1> QED BY <1>10 DEF o2

(* A descriptor that x holds is held by y: of the hub's connections only   *)
(* that of its number changes, so that the hub learns of it or lets go of  *)
(* it; and who asks for its close leaves it in the C object.               *)
PassedOn(x, y, c, c2, hit) ==
    /\ Same(y, x) /\ y.known \in BOOLEAN
    /\ \A fd \in Fds : fd # x.fd => c2[fd] = c[fd]
    /\ \/ c2[x.fd] \in NoOpening
       \/ y.known /\ c2[x.fd] = y.gen
       \/ c2[x.fd] = c[x.fd] /\ (x.known /\ c[x.fd] = x.gen => y.known)
    /\ ~hit /\ y.known => c2[x.fd] = y.gen

KeptFor(x, y, K, K2) ==
    /\ \A d \in K : d \in K2
    /\ \A d \in K2 : d \in K \/ (Same(x, d) /\ y.kind = "close")
    /\ y.kind = "close" => \E d \in K2 : Same(y, d)

(* Then y is in the books in place of x. *)
LEMMA HandedOn ==
    ASSUME NEW H, NEW o, NEW c, NEW K, NEW hit, Books(H, o, c, K, hit),
           NEW x \in H, x.kind # "close",
           NEW y, NEW c2, PassedOn(x, y, c, c2, hit),
           NEW K2, KeptFor(x, y, K, K2)
    PROVE  Books((H \ {x}) \cup {y}, o, c2, K2, hit)
<1> USE DEF PassedOn, KeptFor
<1> DEFINE H2 == (H \ {x}) \cup {y}
<1>1. Owned(H, o, c, K)
  BY DEF Books
<1>2. \A z \in H \ {x} : ~Same(z, x) /\ ~Same(z, y)
  BY <1>1 DEF Owned, Same
<1>3. Lives(y, K2)
  BY DEF Lives
<1>4. \A z \in H \ {x} : Lives(z, K2) <=> Lives(z, K)
  BY <1>2 DEF Lives, Same
<1>5. \A z \in H2 : z.fd \in Fds /\ z.gen \in 1..MaxGen /\ z.known \in BOOLEAN
  BY <1>1 DEF Owned, Same
<1>6. \A z, z2 \in H2 : Same(z, z2) => z = z2
  BY <1>1, <1>2 DEF Owned, Same
<1>7. \A fd \in Fds : o[fd] # 0 => \E z \in H2 : z.fd = fd /\ z.gen = o[fd] /\ Lives(z, K2)
  <2> SUFFICES ASSUME NEW fd \in Fds, o[fd] # 0
               PROVE  \E z \in H2 : z.fd = fd /\ z.gen = o[fd] /\ Lives(z, K2)
    OBVIOUS
  <2>1. PICK z \in H : z.fd = fd /\ z.gen = o[fd] /\ Lives(z, K)
    BY <1>1 DEF Owned
  <2>2. CASE z = x
    BY <1>3, <2>1, <2>2 DEF Same
  <2>3. CASE z # x
    BY <1>4, <2>1, <2>3
  <2> QED BY <2>2, <2>3
<1>8. ASSUME NEW fd \in Fds, c2[fd] \notin NoOpening
      PROVE  \E z \in H2 : z.fd = fd /\ z.known /\ (z.kind # "close" => z.gen = c2[fd])
  <2>1. CASE fd = x.fd /\ y.known /\ c2[fd] = y.gen
    BY <2>1 DEF Same
  <2>2. CASE c2[fd] = c[fd] /\ (fd = x.fd /\ x.known /\ c[fd] = x.gen => y.known)
    <3>1. PICK z \in H : z.fd = fd /\ z.known /\ (z.kind # "close" => z.gen = c[fd])
      BY <1>1, <1>8, <2>2 DEF Owned
    <3>2. CASE z = x
      BY <2>2, <3>1, <3>2 DEF Same
    <3>3. CASE z # x
      BY <2>2, <3>1, <3>3
    <3> QED BY <3>2, <3>3
  <2> QED BY <1>8, <2>1, <2>2
<1>9. \A z \in H2, d \in K2 : Same(z, d) => z.kind = "close"
  <2> SUFFICES ASSUME NEW z \in H2, NEW d \in K2, Same(z, d) PROVE z.kind = "close"
    OBVIOUS
  <2>1. CASE z = y
    <3>1. CASE d \in K
      BY <1>1, <2>1, <3>1 DEF Owned, Same
    <3> QED BY <2>1, <3>1
  <2>2. CASE z # y
    <3>1. z \in H \ {x} /\ ~Same(x, d)
      BY <1>2, <2>2 DEF Same
    <3> QED BY <1>1, <3>1 DEF Owned
  <2> QED BY <2>1, <2>2
<1>10. Owned(H2, o, c2, K2)
  BY <1>5, <1>6, <1>7, <1>8, <1>9 DEF Owned
<1>11. ASSUME ~hit PROVE Named(H2, o, c2, K2)
  <2>1. Named(H, o, c, K)
    BY <1>11 DEF Books
  <2>2. o[x.fd] = x.gen
    BY <2>1 DEF Named, Lives
  <2> SUFFICES ASSUME NEW z \in H2, Lives(z, K2)
               PROVE  o[z.fd] = z.gen /\ (z.known => c2[z.fd] = z.gen)
    BY DEF Named
  <2>3. CASE z = y
    BY <1>11, <2>2, <2>3 DEF Same
  <2>4. CASE z # y
    <3>1. z \in H \ {x} /\ o[z.fd] = z.gen /\ (z.known => c[z.fd] = z.gen)
      BY <1>4, <2>1, <2>4 DEF Named
    <3>2. z.fd # x.fd /\ z.fd \in Fds
      BY <1>1, <1>2, <2>2, <3>1 DEF Same, Owned
    <3> QED BY <3>1, <3>2
  <2> QED BY <2>3, <2>4
<1> QED BY <1>10, <1>11 DEF Books

(* The numbers Z are closed. *)
Executed(Z, o, o2) == \A fd \in Fds : o2[fd] = IF fd \in Z THEN 0 ELSE o[fd]

(* The hub forgets no connection but those of holdings X, and reaps closes. *)
Reaped(X, c, c2) ==
    \A fd \in Fds : c2[fd] \in NoOpening \/ (c2[fd] = c[fd] /\ \A x \in X : x.fd = fd => ~x.known)

(* What X holds is closed, and what C objects have that are not in K2, and *)
(* the hub may reap closes. Somebody else's file is closed only by a hit.  *)
LEMMA Closed ==
    ASSUME NEW H, NEW o, NEW c, NEW K, NEW hit, Books(H, o, c, K, hit),
           NEW X \in SUBSET H, NEW Z, NEW o2, NEW c2, NEW K2 \in SUBSET K, NEW hit2,
           Executed(Z, o, o2), Reaped(X, c, c2),
           \A x \in X : x.fd \in Z,
           \A d \in K \ K2 : d.fd \in Z,
           \A fd \in Fds : c2[fd] = c[fd] \/ fd \in Z \/ c[fd] = Gone,
           ~hit2 => ~hit,
           ~hit2 => \A fd \in Fds \cap Z :
                        \/ o[fd] = 0
                        \/ \E x \in X : x.fd = fd /\ x.gen = o[fd]
                        \/ \E d \in K \ K2 : d.fd = fd /\ d.gen = o[fd] /\ \A e \in K2 : ~Same(e, d)
    PROVE  Books(H \ X, o2, c2, K2, hit2)
<1> USE DEF Executed, Reaped
<1>1. Owned(H, o, c, K)
  BY DEF Books
<1>2. \A x \in H : Lives(x, K2) => Lives(x, K)
  BY DEF Lives
<1>3. \A x \in H : Lives(x, K) /\ x.fd \notin Z => Lives(x, K2) /\ x \notin X
  BY DEF Lives, Same
<1>4. \A fd \in Fds : o2[fd] # 0 => \E x \in H \ X : x.fd = fd /\ x.gen = o2[fd] /\ Lives(x, K2)
  <2> SUFFICES ASSUME NEW fd \in Fds, o2[fd] # 0
               PROVE  \E x \in H \ X : x.fd = fd /\ x.gen = o2[fd] /\ Lives(x, K2)
    OBVIOUS
  <2>1. fd \notin Z /\ o2[fd] = o[fd]
    OBVIOUS
  <2>2. PICK x \in H : x.fd = fd /\ x.gen = o[fd] /\ Lives(x, K)
    BY <1>1, <2>1 DEF Owned
  <2> QED BY <1>3, <2>1, <2>2
<1>5. \A fd \in Fds : c2[fd] \notin NoOpening =>
        \E x \in H \ X : x.fd = fd /\ x.known /\ (x.kind # "close" => x.gen = c2[fd])
  <2> SUFFICES ASSUME NEW fd \in Fds, c2[fd] \notin NoOpening
               PROVE  \E x \in H \ X : x.fd = fd /\ x.known /\ (x.kind # "close" => x.gen = c2[fd])
    OBVIOUS
  <2>1. c2[fd] = c[fd] /\ \A x \in X : x.fd = fd => ~x.known
    OBVIOUS
  <2>2. PICK x \in H : x.fd = fd /\ x.known /\ (x.kind # "close" => x.gen = c[fd])
    BY <1>1, <2>1 DEF Owned
  <2> QED BY <2>1, <2>2
<1>6. Owned(H \ X, o2, c2, K2)
  BY <1>1, <1>4, <1>5 DEF Owned
<1>7. ASSUME ~hit2 PROVE Named(H \ X, o2, c2, K2)
  <2>1. Named(H, o, c, K)
    BY <1>7 DEF Books
  <2> SUFFICES ASSUME NEW y \in H \ X, Lives(y, K2)
               PROVE  o2[y.fd] = y.gen /\ (y.known => c2[y.fd] = y.gen)
    BY DEF Named
  <2>2. /\ o[y.fd] = y.gen /\ (y.known => c[y.fd] = y.gen)
        /\ y.fd \in Fds /\ y.gen # 0 /\ y.gen # Gone
    BY <1>1, <1>2, <2>1, DescriptorsAssumption DEF Named, Owned, Gone
  <2>3. ASSUME y.fd \in Z PROVE FALSE
    <3>1. CASE \E x \in X : x.fd = y.fd /\ x.gen = o[y.fd]
      BY <1>1, <2>2, <3>1 DEF Owned, Same
    <3>2. CASE \E d \in K \ K2 : d.fd = y.fd /\ d.gen = o[y.fd] /\ \A e \in K2 : ~Same(e, d)
      <4>1. PICK d \in K \ K2 : Same(y, d) /\ \A e \in K2 : ~Same(e, d)
        BY <2>2, <3>2 DEF Same
      <4>2. y.kind = "close"
        BY <1>1, <4>1 DEF Owned
      <4> QED BY <4>1, <4>2 DEF Lives, Same
    <3> QED BY <1>7, <2>2, <2>3, <3>1, <3>2
  <2> QED BY <2>2, <2>3
<1> QED BY <1>6, <1>7 DEF Books

(* What X holds is closed, of which the hub knows nothing. *)
LEMMA OwnClosed ==
    ASSUME NEW H, NEW o, NEW c, NEW K, NEW hit, Books(H, o, c, K, hit),
           NEW X \in SUBSET H, \A x \in X : x.kind # "close" /\ ~x.known,
           NEW Z, \A fd : fd \in Z <=> \E x \in X : x.fd = fd,
           NEW o2, Executed(Z, o, o2)
    PROVE  Books(H \ X, o2, c, K, hit)
<1>1. Reaped(X, c, c)
  BY DEF Reaped
<1>2. ASSUME ~hit, NEW fd \in Fds \cap Z PROVE \E x \in X : x.fd = fd /\ x.gen = o[fd]
  <2>1. PICK x \in X : x.fd = fd
    OBVIOUS
  <2>2. o[x.fd] = x.gen
    BY <1>2 DEF Books, Named, Lives
  <2> QED BY <2>1, <2>2
<1> QED BY <1>1, <1>2, Closed
-----------------------------------------------------------------------------
(* How the set of holdings follows the objects that hold.                  *)

(* Of the socket objects only s changes, and is alive; or is dropped. *)
SocketStays(s, sk, sk2, v) ==
    sk2[s] = v /\ v.live /\ \A t \in Socks \ {s} : sk2[t] = sk[t]
SocketGoes(s, sk, sk2) == ~sk2[s].live /\ \A t \in Socks \ {s} : sk2[t] = sk[t]

(* Its holding is another one then. *)
LEMMA SocketChanges ==
    ASSUME NEW sk, NEW sk2, NEW s \in Socks, NEW v, SocketStays(s, sk, sk2, v),
           NEW cl, NEW ls, LooseKinds(ls), NEW jb
    PROVE  HoldingsOf(sk2, cl, ls, jb)
              = (HoldingsOf(sk, cl, ls, jb) \ {SockHolding(s, sk[s])}) \cup {SockHolding(s, v)}
<1>1. ASSUME NEW x
      PROVE  x \in HoldingsOf(sk2, cl, ls, jb) <=>
                x \in (HoldingsOf(sk, cl, ls, jb) \ {SockHolding(s, sk[s])}) \cup {SockHolding(s, v)}
  <2>1. \A t \in Socks \ {s} : SockHolding(t, sk[t]) # SockHolding(s, sk[s])
    BY DEF SockHolding, Holding
  <2>2. /\ \A c \in cl : CloseHolding(c) # SockHolding(s, sk[s])
        /\ \A y \in ls : y # SockHolding(s, sk[s])
        /\ \A j \in Jobs : ReadHolding(j, jb[j]) # SockHolding(s, sk[s])
        /\ \A j \in Jobs : WriteHolding(j, jb[j]) # SockHolding(s, sk[s])
    BY DEF SockHolding, CloseHolding, LooseKinds, ReadHolding, WriteHolding, Holding
  <2> QED BY <2>1, <2>2, KindsDiffer DEF SocketStays
<1> QED BY <1>1

(* The object is dropped. *)
LEMMA SocketDropped ==
    ASSUME NEW sk, NEW sk2, NEW s \in Socks, SocketGoes(s, sk, sk2),
           NEW cl, NEW ls, LooseKinds(ls), NEW jb
    PROVE  HoldingsOf(sk2, cl, ls, jb) = HoldingsOf(sk, cl, ls, jb) \ {SockHolding(s, sk[s])}
<1>1. ASSUME NEW x
      PROVE  x \in HoldingsOf(sk2, cl, ls, jb) <=>
                x \in HoldingsOf(sk, cl, ls, jb) \ {SockHolding(s, sk[s])}
  <2>1. \A t \in Socks \ {s} : SockHolding(t, sk[t]) # SockHolding(s, sk[s])
    BY DEF SockHolding, Holding
  <2>2. /\ \A c \in cl : CloseHolding(c) # SockHolding(s, sk[s])
        /\ \A y \in ls : y # SockHolding(s, sk[s])
        /\ \A j \in Jobs : ReadHolding(j, jb[j]) # SockHolding(s, sk[s])
        /\ \A j \in Jobs : WriteHolding(j, jb[j]) # SockHolding(s, sk[s])
    BY DEF SockHolding, CloseHolding, LooseKinds, ReadHolding, WriteHolding, Holding
  <2> QED BY <2>1, <2>2, KindsDiffer DEF SocketGoes
<1> QED BY <1>1

(* An object that is not alive holds nothing. *)
LEMMA SocketHadNothing ==
    ASSUME NEW sk, NEW s \in Socks, ~sk[s].live, NEW cl, NEW ls, LooseKinds(ls), NEW jb
    PROVE  SockHolding(s, sk[s]) \notin HoldingsOf(sk, cl, ls, jb)
<1>1. \A t \in Socks : SockHolding(t, sk[t]) = SockHolding(s, sk[s]) => t = s
  BY DEF SockHolding, Holding
<1>2. /\ \A c \in cl : CloseHolding(c) # SockHolding(s, sk[s])
      /\ \A y \in ls : y # SockHolding(s, sk[s])
      /\ \A j \in Jobs : ReadHolding(j, jb[j]) # SockHolding(s, sk[s])
      /\ \A j \in Jobs : WriteHolding(j, jb[j]) # SockHolding(s, sk[s])
  BY DEF SockHolding, CloseHolding, LooseKinds, ReadHolding, WriteHolding, Holding
<1>3. \A t \in Socks : ~(sk[t].live /\ SockHolding(s, sk[s]) = SockHolding(t, sk[t]))
  BY <1>1
<1> QED BY <1>2, <1>3, KindsDiffer

(* Of the lookups only j changes. *)
LookupIs(j, jb, jb2, v) == jb2[j] = v /\ \A k \in Jobs \ {j} : jb2[k] = jb[k]

(* A lookup gets a pipe. *)
LEMMA PipeTaken ==
    ASSUME NEW jb, NEW jb2, NEW j \in Jobs, NEW v, LookupIs(j, jb, jb2, v),
           jb[j].r.gen = 0, jb[j].w.gen = 0, v.r.gen # 0, v.w.gen # 0,
           NEW sk, NEW cl, NEW ls, LooseKinds(ls)
    PROVE  HoldingsOf(sk, cl, ls, jb2)
              = HoldingsOf(sk, cl, ls, jb) \cup {ReadHolding(j, v), WriteHolding(j, v)}
<1>1. ASSUME NEW x
      PROVE  x \in HoldingsOf(sk, cl, ls, jb2) <=>
                x \in HoldingsOf(sk, cl, ls, jb) \cup {ReadHolding(j, v), WriteHolding(j, v)}
  BY KindsDiffer DEF LookupIs
<1> QED BY <1>1

(* A lookup loses its pipe. *)
LEMMA PipeGiven ==
    ASSUME NEW jb, NEW jb2, NEW j \in Jobs, NEW v, LookupIs(j, jb, jb2, v),
           v.r.gen = 0, v.w.gen = 0,
           NEW sk, NEW cl, NEW ls, LooseKinds(ls)
    PROVE  HoldingsOf(sk, cl, ls, jb2)
              = HoldingsOf(sk, cl, ls, jb) \ {ReadHolding(j, jb[j]), WriteHolding(j, jb[j])}
<1> DEFINE old == {ReadHolding(j, jb[j]), WriteHolding(j, jb[j])}
<1>1. ASSUME NEW x
      PROVE  x \in HoldingsOf(sk, cl, ls, jb2) <=> x \in HoldingsOf(sk, cl, ls, jb) \ old
  <2>1. \A k \in Jobs \ {j} : ReadHolding(k, jb[k]) \notin old /\ WriteHolding(k, jb[k]) \notin old
    BY DEF ReadHolding, WriteHolding, Holding
  <2>2. /\ \A s \in Socks : SockHolding(s, sk[s]) \notin old
        /\ \A c \in cl : CloseHolding(c) \notin old
        /\ \A y \in ls : y \notin old
    BY DEF SockHolding, CloseHolding, LooseKinds, ReadHolding, WriteHolding, Holding
  <2>3. ReadHolding(j, jb[j]) \in old /\ WriteHolding(j, jb[j]) \in old
    OBVIOUS
  <2> HIDE DEF old
  <2> QED BY <2>1, <2>2, <2>3, KindsDiffer DEF LookupIs
<1> QED BY <1>1

(* Lookups that keep their pipes, or have none before and after. *)
SamePipe(v, v2) ==
    \/ v2.r = v.r /\ v2.w = v.w
    \/ v.r.gen = 0 /\ v.w.gen = 0 /\ v2.r.gen = 0 /\ v2.w.gen = 0

(* They hold what they held. *)
LEMMA PipesStay ==
    ASSUME NEW jb, NEW jb2, \A j \in Jobs : SamePipe(jb[j], jb2[j]),
           NEW sk, NEW cl, NEW ls, LooseKinds(ls)
    PROVE  HoldingsOf(sk, cl, ls, jb2) = HoldingsOf(sk, cl, ls, jb)
<1>1. \A j \in Jobs : /\ jb2[j].r.gen # 0 <=> jb[j].r.gen # 0
                      /\ jb[j].r.gen # 0 => ReadHolding(j, jb2[j]) = ReadHolding(j, jb[j])
                      /\ jb2[j].w.gen # 0 <=> jb[j].w.gen # 0
                      /\ jb[j].w.gen # 0 => WriteHolding(j, jb2[j]) = WriteHolding(j, jb[j])
  BY DEF SamePipe, ReadHolding, WriteHolding
<1>2. ASSUME NEW x
      PROVE  x \in HoldingsOf(sk, cl, ls, jb2) <=> x \in HoldingsOf(sk, cl, ls, jb)
  <2>1. /\ (\E j \in Jobs : jb2[j].r.gen # 0 /\ x = ReadHolding(j, jb2[j]))
              <=> (\E j \in Jobs : jb[j].r.gen # 0 /\ x = ReadHolding(j, jb[j]))
        /\ (\E j \in Jobs : jb2[j].w.gen # 0 /\ x = WriteHolding(j, jb2[j]))
              <=> (\E j \in Jobs : jb[j].w.gen # 0 /\ x = WriteHolding(j, jb[j]))
    BY <1>1
  <2> QED BY <2>1, KindsDiffer
<1> QED BY <1>2

(* The hub is asked for a close. *)
LEMMA CloseAsked ==
    ASSUME NEW sk, NEW cl, NEW ls, NEW jb, NEW c
    PROVE  HoldingsOf(sk, cl \cup {c}, ls, jb) = HoldingsOf(sk, cl, ls, jb) \cup {CloseHolding(c)}
<1>1. ASSUME NEW x
      PROVE  x \in HoldingsOf(sk, cl \cup {c}, ls, jb) <=>
                x \in HoldingsOf(sk, cl, ls, jb) \cup {CloseHolding(c)}
  BY KindsDiffer
<1> QED BY <1>1

(* It has executed all closes. *)
LEMMA ClosesDone ==
    ASSUME NEW sk, NEW cl, NEW ls, LooseKinds(ls), NEW jb
    PROVE  HoldingsOf(sk, {}, ls, jb)
              = HoldingsOf(sk, cl, ls, jb) \ {CloseHolding(c) : c \in cl}
<1> DEFINE old == {CloseHolding(c) : c \in cl}
<1>1. \A x \in old : x.kind = "close"
  BY DEF CloseHolding, Holding
<1>2. ASSUME NEW x
      PROVE  x \in HoldingsOf(sk, {}, ls, jb) <=> x \in HoldingsOf(sk, cl, ls, jb) \ old
  <2>1. /\ \A s \in Socks : SockHolding(s, sk[s]).kind # "close"
        /\ \A y \in ls : y.kind # "close"
        /\ \A j \in Jobs : ReadHolding(j, jb[j]).kind # "close"
        /\ \A j \in Jobs : WriteHolding(j, jb[j]).kind # "close"
    BY DEF SockHolding, LooseKinds, ReadHolding, WriteHolding, Holding
  <2>2. x \in old <=> \E c \in cl : x = CloseHolding(c)
    OBVIOUS
  <2> HIDE DEF old
  <2> QED BY <1>1, <2>1, <2>2, KindsDiffer
<1> QED BY <1>2

(* Something becomes loose. *)
LEMMA LooseTaken ==
    ASSUME NEW sk, NEW cl, NEW ls, NEW jb, NEW ls2, NEW y \in ls2, ls2 = ls \cup {y}
    PROVE  HoldingsOf(sk, cl, ls2, jb) = HoldingsOf(sk, cl, ls, jb) \cup {y}
<1>1. ASSUME NEW x
      PROVE  x \in HoldingsOf(sk, cl, ls2, jb) <=> x \in HoldingsOf(sk, cl, ls, jb) \cup {y}
  BY KindsDiffer
<1> QED BY <1>1

(* Something loose is given up. *)
LEMMA LooseGiven ==
    ASSUME NEW sk, NEW cl, NEW ls, LooseKinds(ls), NEW jb, NEW y \in ls, NEW ls2, ls2 = ls \ {y}
    PROVE  HoldingsOf(sk, cl, ls2, jb) = HoldingsOf(sk, cl, ls, jb) \ {y}
<1>1. /\ \A s \in Socks : SockHolding(s, sk[s]) # y
      /\ \A c \in cl : CloseHolding(c) # y
      /\ \A j \in Jobs : ReadHolding(j, jb[j]) # y
      /\ \A j \in Jobs : WriteHolding(j, jb[j]) # y
  BY DEF SockHolding, CloseHolding, LooseKinds, ReadHolding, WriteHolding, Holding
<1>2. ASSUME NEW x
      PROVE  x \in HoldingsOf(sk, cl, ls2, jb) <=> x \in HoldingsOf(sk, cl, ls, jb) \ {y}
  BY <1>1, KindsDiffer
<1> QED BY <1>2

(* What is loose has its own kinds of holdings. *)
LEMMA LooseNow == LooseKinds(Loose)
BY DEF Loose, LooseKinds, LooseOf, RawHolding, LateHolding, DroppedHolding, Holding

(* The program has one more number. *)
LEMMA MoreRaw ==
    ASSUME NEW d, raw' = raw \cup {d}, UNCHANGED <<late, dropped>>
    PROVE  Loose' = Loose \cup {RawHolding(d)}
BY DEF Loose, LooseOf

(* One more connection is accepted after its deadline, and is nobody's. *)
LEMMA MoreLate ==
    ASSUME NEW d, late' = late \cup {d}, UNCHANGED <<raw, dropped>>
    PROVE  Loose' = Loose \cup {LateHolding(d)}
BY DEF Loose, LooseOf

(* One more socket is dropped without being closed. *)
LEMMA MoreDropped ==
    ASSUME NEW d, dropped' = dropped \cup {d}, UNCHANGED <<raw, late>>
    PROVE  Loose' = Loose \cup {DroppedHolding(d)}
BY DEF Loose, LooseOf

(* The program has one number less. *)
LEMMA LessRaw ==
    ASSUME raw \subseteq Descs, NEW d \in raw, raw' = raw \ {d}, UNCHANGED <<late, dropped>>
    PROVE  Loose' = Loose \ {RawHolding(d)} /\ RawHolding(d) \in Loose
<1>1. \A e \in raw : RawHolding(e) = RawHolding(d) => e = d
  BY DEF RawHolding, Holding, Descs
<1>2. \A e : RawHolding(d) # DroppedHolding(e) /\ RawHolding(d) # LateHolding(e)
  BY DEF RawHolding, LateHolding, DroppedHolding, Holding
<1> QED BY <1>1, <1>2 DEF Loose, LooseOf

(* The C object of a dropped socket is finalized. *)
LEMMA LessDropped ==
    ASSUME dropped \subseteq Descs, NEW d \in dropped, dropped' = dropped \ {d}, UNCHANGED <<raw, late>>
    PROVE  Loose' = Loose \ {DroppedHolding(d)} /\ DroppedHolding(d) \in Loose
<1>1. \A e \in dropped : DroppedHolding(e) = DroppedHolding(d) => e = d
  BY DEF DroppedHolding, Holding, Descs
<1>2. \A e : DroppedHolding(d) # RawHolding(e) /\ DroppedHolding(d) # LateHolding(e)
  BY DEF RawHolding, LateHolding, DroppedHolding, Holding
<1> QED BY <1>1, <1>2 DEF Loose, LooseOf

-----------------------------------------------------------------------------
(* What becomes of calls and lookups.                                      *)

(* Zero stands for no socket and no lookup. *)
LEMMA NumbersPositive == 0 \notin Socks /\ 0 \notin Jobs
BY DescriptorsAssumption DEF Jobs

(* No call changes, and every socket in use stays. *)
LEMMA CallsStay ==
    ASSUME SocketInv, UNCHANGED <<waitVars, job>>, Quiet' => Quiet,
           \A g \in Greenlets : call[g].sock # 0 => sock'[call[g].sock].live
    PROVE  CallsInv'
<1>1. (\A g \in Greenlets : CallOK(g))'
  BY DEF SocketInv, CallsInv, CallOK, waitVars
<1>2. Alone'
  BY DEF SocketInv, CallsInv, Alone, waitVars
<1>3. (\A j \in Jobs : JobOK(j))'
  BY DEF SocketInv, CallsInv, JobOK, waitVars
<1> QED BY <1>1, <1>2, <1>3 DEF CallsInv

(* The call c is one that greenlet g may be in: its socket is alive and    *)
(* nobody else's, and the others' are alive too.                           *)
FitsIn(g, c) ==
    /\ c.sock # 0 <=> c.op \in SockOps
    /\ c.create => c.sock # 0
    /\ c.sock # 0 => sock'[c.sock].live /\ \A h \in Greenlets \ {g} : call[h].sock # c.sock
    /\ \A h \in Greenlets \ {g} : call[h].sock # 0 => sock'[call[h].sock].live

(* One greenlet goes from one call to another, without a lookup. *)
LEMMA CallMoves ==
    ASSUME SocketInv, NEW g \in Greenlets, NEW c \in Calls, Waits(g, c),
           UNCHANGED job, Quiet' => Quiet, call[g].job = 0,
           c.job = 0, c.op \notin JobOps, FitsIn(g, c)
    PROVE  CallsInv' /\ call' \in [Greenlets -> Calls] /\ ready' \subseteq Greenlets
<1>1. /\ call' \in [Greenlets -> Calls] /\ ready' \subseteq Greenlets
      /\ call'[g] = c /\ g \notin ready'
      /\ \A h \in Greenlets \ {g} : call'[h] = call[h] /\ (h \in ready' => h \in ready)
  BY DEF SocketInv, SocketTypes, Waits
<1>2. (\A h \in Greenlets : CallOK(h))'
  <2> SUFFICES ASSUME NEW h \in Greenlets PROVE CallOK(h)'
    OBVIOUS
  <2>1. CASE h = g
    BY <1>1, <2>1 DEF CallOK, FitsIn
  <2>2. CASE h # g
    <3>1. CallOK(h)
      BY DEF SocketInv, CallsInv
    <3> QED BY <1>1, <2>2, <3>1 DEF CallOK, FitsIn
  <2> QED BY <2>1, <2>2
<1>3. Alone'
  <2> SUFFICES ASSUME NEW h \in Greenlets, NEW k \in Greenlets
               PROVE  /\ call'[h].job = call'[k].job /\ call'[h].job # 0 => h = k
                      /\ call'[h].sock = call'[k].sock /\ call'[h].sock # 0 => h = k
    BY DEF Alone
  <2>1. CASE h = g \/ k = g
    BY <1>1, <2>1 DEF FitsIn
  <2>2. CASE h # g /\ k # g
    BY <1>1, <2>2 DEF SocketInv, CallsInv, Alone
  <2> QED BY <2>1, <2>2
<1>4. (\A j \in Jobs : JobOK(j))'
  BY <1>1, NumbersPositive DEF SocketInv, CallsInv, JobOK
<1> QED BY <1>1, <1>2, <1>3, <1>4 DEF CallsInv

(* A lookup that nobody has begun has no pipe and no answer. *)
LEMMA UnbornIs ==
    /\ NoDesc \in MaybeDescs /\ NoDesc.gen = 0
    /\ Unborn \in Lookups /\ Unborn.r = NoDesc /\ Unborn.w = NoDesc
    /\ ~Unborn.byte /\ ~Unborn.full /\ Unborn.state = "unborn"
<1>1. NoDesc \in MaybeDescs /\ NoDesc.gen = 0
  BY DescriptorsAssumption DEF NoDesc, MaybeDescs
<1> QED BY <1>1 DEF Unborn, Lookups

(* A greenlet begins a lookup, and waits for it. *)
LEMMA CallLooksUp ==
    ASSUME SocketInv, NEW g \in Greenlets, NEW c \in Calls, CanLookup,
           NEW r \in Descs, NEW w \in Descs,
           job' = [job EXCEPT ![NewJob] = [Unborn EXCEPT !.state = "running", !.r = r, !.w = w]],
           Waits(g, [c EXCEPT !.job = NewJob]),
           Quiet' => Quiet, call[g].job = 0,
           c.op \in JobOps, FitsIn(g, c)
    PROVE  /\ CallsInv' /\ call' \in [Greenlets -> Calls] /\ ready' \subseteq Greenlets
           /\ job' \in [Jobs -> Lookups]
<1> DEFINE n == NewJob
<1>1. n \in Jobs /\ n # 0 /\ job[n].state = "unborn"
  BY NewJobIs, NumbersPositive
<1> HIDE DEF n
<1>2. PICK v \in Lookups : /\ job' = [job EXCEPT ![n] = v]
                           /\ v.state = "running" /\ v.r.gen # 0 /\ v.w.gen # 0 /\ ~v.byte /\ ~v.full
  <2>0. PICK u : u = [Unborn EXCEPT !.state = "running", !.r = r, !.w = w]
    OBVIOUS
  <2>1. u \in Lookups /\ u.state = "running" /\ u.r.gen # 0 /\ u.w.gen # 0 /\ ~u.byte /\ ~u.full
    <3>1. r \in MaybeDescs /\ w \in MaybeDescs /\ r.gen # 0 /\ w.gen # 0
      BY DescriptorsAssumption DEF MaybeDescs, Descs
    <3> QED BY <2>0, <3>1, UnbornIs DEF Lookups
  <2>2. job' = [job EXCEPT ![n] = u]
    BY <2>0 DEF n
  <2> QED BY <2>1, <2>2
<1>3. PICK d \in Calls : /\ Waits(g, d) /\ d.job = n /\ d.op = c.op /\ d.sock = c.sock
                        /\ d.create = c.create
  <2>1. Waits(g, [c EXCEPT !.job = n])
    BY DEF n
  <2>2. /\ [c EXCEPT !.job = n] \in Calls /\ [c EXCEPT !.job = n].job = n
        /\ [c EXCEPT !.job = n].op = c.op /\ [c EXCEPT !.job = n].sock = c.sock
        /\ [c EXCEPT !.job = n].create = c.create
    BY <1>1 DEF Calls
  <2> QED BY <2>1, <2>2
<1>4. /\ call' \in [Greenlets -> Calls] /\ ready' \subseteq Greenlets
      /\ call'[g] = d /\ g \notin ready'
      /\ \A h \in Greenlets \ {g} : call'[h] = call[h] /\ (h \in ready' => h \in ready)
  BY <1>3 DEF SocketInv, SocketTypes, Waits
<1>5. /\ job' \in [Jobs -> Lookups]
      /\ job'[n] = v /\ \A j \in Jobs \ {n} : job'[j] = job[j]
  BY <1>1, <1>2 DEF SocketInv, SocketTypes
<1>6. job[n] = Unborn /\ job[n].w.gen = 0
  BY <1>1 DEF SocketInv, CallsInv, JobOK, Unborn, NoDesc
<1>7. \A h \in Greenlets : call[h].job # n /\ call[h].job \in Jobs \cup {0}
  BY <1>1, <1>6 DEF SocketInv, CallsInv, CallOK, SocketTypes, Calls
<1>8. (\A h \in Greenlets : CallOK(h))'
  <2> SUFFICES ASSUME NEW h \in Greenlets PROVE CallOK(h)'
    OBVIOUS
  <2>1. CASE h = g
    BY <1>1, <1>2, <1>3, <1>4, <1>5, <2>1 DEF CallOK, FitsIn
  <2>2. CASE h # g
    <3>1. CallOK(h)
      BY DEF SocketInv, CallsInv
    <3>2. call'[h] = call[h] /\ (call[h].job # 0 => job'[call[h].job] = job[call[h].job])
      BY <1>4, <1>5, <1>7, <2>2
    <3> QED BY <1>4, <2>2, <3>1, <3>2 DEF CallOK, FitsIn
  <2> QED BY <2>1, <2>2
<1>9. Alone'
  <2> SUFFICES ASSUME NEW h \in Greenlets, NEW k \in Greenlets
               PROVE  /\ call'[h].job = call'[k].job /\ call'[h].job # 0 => h = k
                      /\ call'[h].sock = call'[k].sock /\ call'[h].sock # 0 => h = k
    BY DEF Alone
  <2>1. CASE h = g \/ k = g
    BY <1>3, <1>4, <1>7, <2>1 DEF FitsIn
  <2>2. CASE h # g /\ k # g
    BY <1>4, <2>2 DEF SocketInv, CallsInv, Alone
  <2> QED BY <2>1, <2>2
<1>10. (\A j \in Jobs : JobOK(j))'
  <2> SUFFICES ASSUME NEW j \in Jobs PROVE JobOK(j)'
    OBVIOUS
  <2>1. CASE j = n
    BY <1>2, <1>3, <1>4, <1>5, <2>1 DEF JobOK
  <2>2. CASE j # n
    <3>1. JobOK(j) /\ job'[j] = job[j] /\ j # 0
      BY <1>5, <2>2, NumbersPositive DEF SocketInv, CallsInv
    <3>2. (\E h \in Greenlets : call[h].job = j) => \E h \in Greenlets : call'[h].job = j
      BY <1>4, <3>1
    <3> QED BY <3>1, <3>2 DEF JobOK
  <2> QED BY <2>1, <2>2
<1> QED BY <1>4, <1>5, <1>8, <1>9, <1>10 DEF CallsInv

(* What is left of a lookup that nobody waits for. *)
LEMMA OrphanIs ==
    ASSUME NEW v \in Lookups
    PROVE  /\ Orphan(v) \in Lookups /\ Orphan(v).state = "stored"
           /\ Orphan(v).r.gen = 0 /\ Orphan(v).w.gen = 0 /\ ~Orphan(v).byte
           /\ Unborn \in Lookups /\ Unborn.r.gen = 0 /\ Unborn.w.gen = 0
           /\ Unborn.state = "unborn" /\ ~Unborn.byte
<1>1. NoDesc \in MaybeDescs /\ NoDesc.gen = 0
  BY UnbornIs
<1>2. Unborn \in Lookups /\ Unborn.r = NoDesc /\ Unborn.w = NoDesc /\ ~Unborn.byte /\ Unborn.state = "unborn"
  BY UnbornIs
<1>3. PICK d \in MaybeDescs : d = [NoDesc EXCEPT !.fd = v.w.fd] /\ d.gen = 0
  <2>1. v.w.fd \in Fds \cup {0}
    BY DEF Lookups, MaybeDescs
  <2> DEFINE e == [NoDesc EXCEPT !.fd = v.w.fd]
  <2>2. e \in MaybeDescs /\ e.gen = 0
    BY <1>1, <2>1 DEF MaybeDescs
  <2> HIDE DEF e
  <2>3. \E d \in MaybeDescs : d = e /\ d.gen = 0
    BY <2>2
  <2> QED BY <2>3 DEF e
<1>4. Orphan(v) = [Unborn EXCEPT !.state = "stored", !.w = d]
  BY <1>2, <1>3 DEF Orphan, Lookups
<1>5. /\ Orphan(v) \in Lookups /\ Orphan(v).state = "stored"
      /\ Orphan(v).r = NoDesc /\ Orphan(v).w = d /\ ~Orphan(v).byte
  BY <1>2, <1>3, <1>4 DEF Lookups
<1> QED BY <1>1, <1>2, <1>3, <1>5

(* A lookup of greenlet g is over, or given up; the greenlet goes on in    *)
(* call c. Unless it was given up the thread is done with the lookup.      *)
LEMMA LookupLeaves ==
    ASSUME SocketInv, NEW g \in Greenlets, call[g].job # 0,
           NEW c \in Calls, Waits(g, c), EndsLookup(g),
           c.job = 0, c.op \notin JobOps, FitsIn(g, c),
           Quiet' => Quiet /\ g \in ready
    PROVE  /\ CallsInv' /\ call' \in [Greenlets -> Calls] /\ ready' \subseteq Greenlets
           /\ job' \in [Jobs -> Lookups]
<1>1. PICK n \in Jobs : n = call[g].job /\ n # 0
  BY NumbersPositive DEF SocketInv, SocketTypes, Calls
<1>2. job[n] \in Lookups /\ CallOK(g) /\ JobOK(n)
  BY DEF SocketInv, SocketTypes, CallsInv
<1>3. PICK v \in Lookups : /\ job' = [job EXCEPT ![n] = v]
                           /\ v.r.gen = 0 /\ v.w.gen = 0 /\ ~v.byte
                           /\ v.state = "unborn" => v = Unborn
                           /\ Quiet' => v.state = "unborn"
  <2>1. job' = [job EXCEPT ![n] = IF job[n].state = "ended" THEN Unborn ELSE Orphan(job[n])]
    BY <1>1 DEF EndsLookup
  <2>2. job[n].state # "unborn"
    BY <1>1, <1>2 DEF CallOK, JobOK, Unborn, NoDesc
  <2>3. Quiet' => job[n].state = "ended"
    BY <1>1, <1>2 DEF CallOK, JobOK
  <2>4. CASE job[n].state = "ended"
    BY <1>2, <2>1, <2>4, OrphanIs
  <2>5. CASE job[n].state # "ended"
    BY <1>2, <2>1, <2>2, <2>3, <2>5, OrphanIs
  <2> QED BY <2>4, <2>5
<1>4. /\ call' \in [Greenlets -> Calls] /\ ready' \subseteq Greenlets
      /\ call'[g] = c /\ g \notin ready'
      /\ \A h \in Greenlets \ {g} : call'[h] = call[h] /\ (h \in ready' => h \in ready)
  BY DEF SocketInv, SocketTypes, Waits
<1>5. /\ job' \in [Jobs -> Lookups]
      /\ job'[n] = v /\ \A j \in Jobs \ {n} : job'[j] = job[j]
  BY <1>3 DEF SocketInv, SocketTypes
<1>6. \A h \in Greenlets \ {g} : call[h].job # n /\ call[h].job \in Jobs \cup {0}
  BY <1>1 DEF SocketInv, CallsInv, Alone, SocketTypes, Calls
<1>7. (\A h \in Greenlets : CallOK(h))'
  <2> SUFFICES ASSUME NEW h \in Greenlets PROVE CallOK(h)'
    OBVIOUS
  <2>1. CASE h = g
    BY <1>4, <2>1 DEF CallOK, FitsIn
  <2>2. CASE h # g
    <3>1. CallOK(h)
      BY DEF SocketInv, CallsInv
    <3>2. call'[h] = call[h] /\ (call[h].job # 0 => job'[call[h].job] = job[call[h].job])
      BY <1>4, <1>5, <1>6, <2>2
    <3> QED BY <1>4, <2>2, <3>1, <3>2 DEF CallOK, FitsIn
  <2> QED BY <2>1, <2>2
<1>8. Alone'
  <2> SUFFICES ASSUME NEW h \in Greenlets, NEW k \in Greenlets
               PROVE  /\ call'[h].job = call'[k].job /\ call'[h].job # 0 => h = k
                      /\ call'[h].sock = call'[k].sock /\ call'[h].sock # 0 => h = k
    BY DEF Alone
  <2>1. CASE h = g \/ k = g
    BY <1>4, <2>1 DEF FitsIn
  <2>2. CASE h # g /\ k # g
    BY <1>4, <2>2 DEF SocketInv, CallsInv, Alone
  <2> QED BY <2>1, <2>2
<1>9. (\A j \in Jobs : JobOK(j))'
  <2> SUFFICES ASSUME NEW j \in Jobs PROVE JobOK(j)'
    OBVIOUS
  <2>1. CASE j = n
    BY <1>3, <1>5, <2>1 DEF JobOK
  <2>2. CASE j # n
    <3>1. JobOK(j) /\ job'[j] = job[j]
      BY <1>5, <2>2 DEF SocketInv, CallsInv
    <3>2. (\E h \in Greenlets : call[h].job = j) => \E h \in Greenlets : call'[h].job = j
      BY <1>1, <1>4, <2>2
    <3> QED BY <3>1, <3>2 DEF JobOK
  <2> QED BY <2>1, <2>2
<1> QED BY <1>4, <1>5, <1>7, <1>8, <1>9 DEF CallsInv

-----------------------------------------------------------------------------
(* What becomes of what is held.                                           *)

(* A socket that is alive has a descriptor, which is its own until a       *)
(* second close strikes.                                                   *)
LEMMA SocketHolds ==
    ASSUME SocketInv, NEW s \in Socks, sock[s].live
    PROVE  /\ SockHolding(s, sock[s]) \in Holdings
           /\ sock[s].desc \in Descs /\ sock[s].registered \in BOOLEAN
           /\ ~struck => /\ open[sock[s].desc.fd] = sock[s].desc.gen
                         /\ sock[s].registered => conn[sock[s].desc.fd] = sock[s].desc.gen
<1>1. PICK x \in Holdings : x = SockHolding(s, sock[s])
  BY KindsDiffer DEF Holdings
<1>2. /\ x.fd = sock[s].desc.fd /\ x.gen = sock[s].desc.gen /\ x.known = sock[s].registered
      /\ x.kind = "socket"
  BY <1>1 DEF SockHolding, Holding
<1>3. x.fd \in Fds /\ x.gen \in 1..MaxGen
  BY DEF SocketInv, HeldInv, Books, Owned
<1>4. sock[s].desc \in MaybeDescs /\ sock[s].registered \in BOOLEAN
  BY DEF SocketInv, SocketTypes, SocketObjects
<1>5. sock[s].desc \in Descs
  BY <1>2, <1>3, <1>4 DEF MaybeDescs, Descs
<1>6. ~struck => open[x.fd] = x.gen /\ (x.known => conn[x.fd] = x.gen)
  BY <1>2 DEF SocketInv, HeldInv, Books, Named, Lives
<1> QED BY <1>1, <1>2, <1>4, <1>5, <1>6

(* The holding of a socket object. *)
LEMMA SockHoldingIs ==
    ASSUME NEW s, NEW v
    PROVE  /\ SockHolding(s, v).fd = v.desc.fd /\ SockHolding(s, v).gen = v.desc.gen
           /\ SockHolding(s, v).known = v.registered /\ SockHolding(s, v).kind = "socket"
BY DEF SockHolding, Holding

(* Those of what is loose. *)
LEMMA LooseHoldingIs ==
    ASSUME NEW d
    PROVE  /\ Same(RawHolding(d), d) /\ RawHolding(d).known = FALSE /\ RawHolding(d).kind = "raw"
           /\ Same(LateHolding(d), d) /\ LateHolding(d).known = TRUE /\ LateHolding(d).kind = "late"
           /\ Same(DroppedHolding(d), d) /\ DroppedHolding(d).known = FALSE
           /\ DroppedHolding(d).kind = "dropped"
BY DEF RawHolding, LateHolding, DroppedHolding, Holding, Same

(* The holdings after a socket object has changed. *)
LEMMA SocketChangesNow ==
    ASSUME SocketTypes, NEW s \in Socks, NEW v, SocketStays(s, sock, sock', v)
    PROVE  HoldingsOf(sock', closes, Loose, job) = (Holdings \ {SockHolding(s, sock[s])}) \cup {SockHolding(s, v)}
BY SocketChanges, LooseNow DEF Holdings

(* The holdings after a socket object was dropped. *)
LEMMA SocketDroppedNow ==
    ASSUME SocketTypes, NEW s \in Socks, SocketGoes(s, sock, sock')
    PROVE  HoldingsOf(sock', closes, Loose, job) = Holdings \ {SockHolding(s, sock[s])}
BY SocketDropped, LooseNow DEF Holdings

(* One number is opened. *)
LEMMA OpensOne ==
    ASSUME SocketTypes, NEW d \in Descs, Opens({d})
    PROVE  open' = [open EXCEPT ![d.fd] = d.gen] /\ open' \in [Fds -> 0..MaxGen]
<1>1. ASSUME NEW fd \in Fds
      PROVE  open'[fd] = IF fd = d.fd THEN d.gen ELSE open[fd]
  <2>1. CASE fd = d.fd
    <3>1. (CHOOSE e \in {d} : e.fd = fd) = d
      BY <2>1
    <3>2. open'[fd] = (CHOOSE e \in {d} : e.fd = fd).gen
      BY <2>1 DEF Opens
    <3> QED BY <2>1, <3>1, <3>2
  <2>2. CASE fd # d.fd
    BY <2>2 DEF Opens
  <2> QED BY <2>1, <2>2
<1>2. open' = [fd \in Fds |-> open'[fd]]
  BY DEF Opens
<1> QED BY <1>1, <1>2, DescriptorsAssumption DEF SocketTypes, Descs

(* What a new socket object is, and one that is gone. *)
LEMMA SocketOfIs ==
    ASSUME NEW d \in Descs, NEW known \in BOOLEAN
    PROVE  /\ SocketOf(d, known) \in SocketObjects /\ SocketOf(d, known).live
           /\ SocketOf(d, known).desc = d /\ SocketOf(d, known).registered = known
           /\ ~SocketOf(d, known).closed
           /\ NoSocket \in SocketObjects /\ ~NoSocket.live /\ ~NoSocket.registered /\ ~NoSocket.closed
<1>1. NoDesc \in MaybeDescs /\ d \in MaybeDescs
  BY DescriptorsAssumption DEF NoDesc, MaybeDescs, Descs
<1>2. NoSocket \in SocketObjects /\ ~NoSocket.live /\ ~NoSocket.closed /\ ~NoSocket.registered
  BY <1>1 DEF NoSocket, SocketObjects
<1> QED BY <1>1, <1>2 DEF SocketOf, SocketObjects

(* What is opened for y is in the books of y. *)
LEMMA OpensFor ==
    ASSUME SocketInv, NEW d \in Descs, open[d.fd] = 0, ~Meant(d), Opens({d}),
           NEW y, Same(y, d), y.known \in BOOLEAN, y.kind # "close",
           conn' = IF y.known THEN [conn EXCEPT ![d.fd] = d.gen] ELSE conn
    PROVE  /\ Books(Holdings \cup {y}, open', conn', kept, struck)
           /\ open' \in [Fds -> 0..MaxGen] /\ conn' \in [Fds -> 0..Left]
<1>1. open' = [open EXCEPT ![d.fd] = d.gen] /\ open' \in [Fds -> 0..MaxGen]
  BY OpensOne DEF SocketInv
<1>2. y.fd = d.fd /\ y.gen = d.gen /\ d.fd \in Fds /\ d.gen \in 1..MaxGen
  BY DEF Descs, Same
<1>3. conn' \in [Fds -> 0..Left]
  BY <1>2, DescriptorsAssumption DEF SocketInv, SocketTypes, Left
<1>4. NewTo(d, Holdings, kept)
  BY UnmeantIsNew DEF SocketInv, Holdings
<1>5. (\A x \in Holdings : ~Same(x, y)) /\ \A e \in kept : ~Same(y, e)
  BY <1>2, <1>4 DEF NewTo, Same, SocketInv, SocketTypes, Descs
<1>6. /\ Books(Holdings, open, conn, kept, struck)
      /\ open \in [Fds -> 0..MaxGen] /\ conn \in [Fds -> 0..Left]
  BY DEF SocketInv, HeldInv, SocketTypes
<1>7. PICK c2 : c2 = conn'
  OBVIOUS
<1>8. Books(Holdings \cup {y}, [open EXCEPT ![y.fd] = y.gen], c2, kept, struck)
  BY <1>2, <1>5, <1>6, <1>7, Opened
<1> QED BY <1>1, <1>2, <1>3, <1>7, <1>8

(* A new socket gets what is opened. *)
LEMMA SocketOpens ==
    ASSUME SocketInv, NEW d \in Descs, open[d.fd] = 0, ~Meant(d), Opens({d}), CanMake,
           NEW known \in BOOLEAN, sock' = [sock EXCEPT ![NextSock] = SocketOf(d, known)],
           conn' = IF known THEN [conn EXCEPT ![d.fd] = d.gen] ELSE conn,
           UNCHANGED <<struck, closes, raw, late, kept, dropped, job>>
    PROVE  /\ HeldInv' /\ open' \in [Fds -> 0..MaxGen] /\ conn' \in [Fds -> 0..Left]
           /\ sock' \in [Socks -> SocketObjects]
           /\ \A s \in Socks : sock[s].live => sock'[s].live
           /\ sock'[NextSock].live
<1>1. PICK n \in Socks : n = NextSock /\ ~sock[n].live
  BY NextSockIs
<1>2. PICK v \in SocketObjects : v = SocketOf(d, known) /\ v.live /\ v.desc = d /\ v.registered = known /\ ~v.closed
  BY SocketOfIs
<1>3. sock' = [sock EXCEPT ![n] = v] /\ sock \in [Socks -> SocketObjects]
  BY <1>1, <1>2 DEF SocketInv, SocketTypes
<1>4. SockHolding(n, sock[n]) \notin Holdings
  BY <1>1, SocketHadNothing, LooseNow DEF Holdings, SocketInv
<1>5. Holdings' = Holdings \cup {SockHolding(n, v)}
  <2>1. SocketStays(n, sock, sock', v)
    BY <1>2, <1>3 DEF SocketStays
  <2>2. HoldingsOf(sock', closes, Loose, job)
           = (Holdings \ {SockHolding(n, sock[n])}) \cup {SockHolding(n, v)}
    BY <2>1, SocketChangesNow DEF SocketInv
  <2> QED BY <1>4, <2>2 DEF Holdings, Loose
<1>6. PICK y : y = SockHolding(n, v) /\ Same(y, d) /\ y.known = known /\ y.kind # "close"
  BY <1>2, SockHoldingIs DEF Same
<1>7. /\ Books(Holdings \cup {y}, open', conn', kept, struck)
      /\ open' \in [Fds -> 0..MaxGen] /\ conn' \in [Fds -> 0..Left]
  BY <1>6, OpensFor
<1>8. SocketsOK'
  BY <1>2, <1>3 DEF SocketInv, HeldInv, SocketsOK
<1> QED BY <1>1, <1>2, <1>3, <1>5, <1>6, <1>7, <1>8 DEF HeldInv

(* A socket object changes, and keeps its descriptor. *)
LEMMA SocketKeeps ==
    ASSUME SocketInv, NEW s \in Socks, sock[s].live,
           NEW v \in SocketObjects, sock' = [sock EXCEPT ![s] = v],
           v.live, v.desc = sock[s].desc, v.registered = sock[s].registered,
           v.closed => v.refs > 0,
           UNCHANGED <<struck, open, conn, closes, raw, late, kept, dropped, job>>
    PROVE  /\ HeldInv' /\ sock' \in [Socks -> SocketObjects]
           /\ \A t \in Socks : sock[t].live => sock'[t].live
<1>1. sock \in [Socks -> SocketObjects]
  BY DEF SocketInv, SocketTypes
<1>2. SockHolding(s, v) = SockHolding(s, sock[s]) /\ SockHolding(s, sock[s]) \in Holdings
  BY SocketHolds DEF SockHolding
<1>3. Holdings' = Holdings
  <2>1. SocketStays(s, sock, sock', v)
    BY <1>1 DEF SocketStays
  <2>2. HoldingsOf(sock', closes, Loose, job)
           = (Holdings \ {SockHolding(s, sock[s])}) \cup {SockHolding(s, v)}
    BY <2>1, SocketChangesNow DEF SocketInv
  <2> QED BY <1>2, <2>2 DEF Holdings, Loose
<1>4. Books(Holdings', open', conn', kept', struck')
  BY <1>3 DEF SocketInv, HeldInv
<1>5. SocketsOK'
  BY <1>1 DEF SocketInv, HeldInv, SocketsOK
<1> QED BY <1>1, <1>4, <1>5 DEF HeldInv

(* The hub is told of a socket, or knows it, or refuses it. What else      *)
(* happens in the step is left open.                                       *)
LEMMA SocketRegisters ==
    ASSUME SocketInv, NEW s \in Socks, sock[s].live,
           EnsureRegistered(s), sock' = [sock EXCEPT ![s] = Ensured(@)]
    PROVE  /\ Books(HoldingsOf(sock', closes, Loose, job), open, conn', kept, struck)
           /\ SocketsOK' /\ conn' \in [Fds -> 0..Left]
           /\ sock' \in [Socks -> SocketObjects]
           /\ \A t \in Socks : sock[t].live => sock'[t].live
           /\ \A t \in Socks : sock'[t].live => sock'[t].desc = sock[t].desc
<1>1. PICK v \in SocketObjects :
        /\ sock' = [sock EXCEPT ![s] = v]
        /\ v.live /\ v.desc = sock[s].desc /\ v.closed = sock[s].closed /\ v.refs = sock[s].refs
        /\ v.registered <=> sock[s].registered \/ conn[sock[s].desc.fd] = 0
  <2>1. PICK u : u = Ensured(sock[s])
    OBVIOUS
  <2>2. sock[s] \in SocketObjects
    BY DEF SocketInv, SocketTypes
  <2>3. /\ u \in SocketObjects
        /\ u.live = sock[s].live /\ u.desc = sock[s].desc /\ u.closed = sock[s].closed /\ u.refs = sock[s].refs
        /\ u.registered <=> sock[s].registered \/ conn[sock[s].desc.fd] = 0
    BY <2>1, <2>2 DEF Ensured, SocketObjects
  <2> QED BY <2>1, <2>3
<1>2. /\ sock \in [Socks -> SocketObjects] /\ conn \in [Fds -> 0..Left] /\ open \in [Fds -> 0..MaxGen]
      /\ v.registered \in BOOLEAN /\ Books(Holdings, open, conn, kept, struck)
  BY DEF SocketInv, SocketTypes, HeldInv, SocketObjects
<1>3. PICK d \in Descs : d = sock[s].desc
  BY SocketHolds
<1>4. d.fd \in Fds /\ d.gen \in 1..MaxGen
  BY DEF Descs
<1>5. PICK x \in Holdings : /\ x = SockHolding(s, sock[s]) /\ Same(x, d)
                            /\ x.known = sock[s].registered /\ x.kind # "close"
  BY <1>3, SocketHolds, SockHoldingIs DEF Same
<1>6. PICK y : y = SockHolding(s, v) /\ Same(y, d) /\ y.known = v.registered /\ y.kind # "close"
  BY <1>1, <1>3, SockHoldingIs DEF Same
<1>7. /\ conn' \in [Fds -> 0..Left]
      /\ \A fd \in Fds : fd # d.fd => conn'[fd] = conn[fd]
      /\ \/ y.known /\ conn'[d.fd] = y.gen
         \/ conn'[d.fd] = conn[d.fd] /\ (x.known => y.known)
      /\ ~struck /\ y.known => conn'[d.fd] = y.gen
  <2>1. CASE sock[s].registered
    <3>1. conn' = conn
      BY <2>1 DEF EnsureRegistered
    <3>2. v.registered /\ (~struck => conn[d.fd] = d.gen)
      BY <1>1, <1>3, <2>1, SocketHolds
    <3>3. y.known /\ y.gen = d.gen
      BY <1>6, <3>2 DEF Same
    <3> QED BY <1>2, <3>1, <3>2, <3>3
  <2>2. CASE ~sock[s].registered /\ conn[d.fd] = 0
    <3>1. conn' = [conn EXCEPT ![d.fd] = d.gen]
      BY <1>3, <2>2 DEF EnsureRegistered, Registers
    <3>2. d.gen \in 0..Left
      BY <1>4, DescriptorsAssumption DEF Left
    <3> QED BY <1>1, <1>2, <1>3, <1>4, <1>6, <2>2, <3>1, <3>2 DEF Same
  <2>3. CASE ~sock[s].registered /\ conn[d.fd] # 0
    <3>1. conn' = conn
      BY <1>2, <1>3, <1>4, <2>3 DEF EnsureRegistered, Registers
    <3> QED BY <1>1, <1>2, <1>3, <1>5, <1>6, <2>3, <3>1
  <2> QED BY <2>1, <2>2, <2>3
<1>8. HoldingsOf(sock', closes, Loose, job) = (Holdings \ {x}) \cup {y}
  <2>1. SocketStays(s, sock, sock', v)
    BY <1>1, <1>2 DEF SocketStays
  <2>2. HoldingsOf(sock', closes, Loose, job)
           = (Holdings \ {SockHolding(s, sock[s])}) \cup {SockHolding(s, v)}
    BY <2>1, SocketChangesNow DEF SocketInv
  <2> QED BY <1>5, <1>6, <2>2
<1>9. Books((Holdings \ {x}) \cup {y}, open, conn', kept, struck)
  <2>1. PICK c2 : c2 = conn'
    OBVIOUS
  <2>2. Same(y, x) /\ x.fd = d.fd /\ y.known \in BOOLEAN
    BY <1>2, <1>5, <1>6 DEF Same
  <2>3. PassedOn(x, y, conn, c2, struck)
    BY <1>7, <2>1, <2>2 DEF PassedOn
  <2>4. KeptFor(x, y, kept, kept)
    BY <1>6 DEF KeptFor
  <2>5. Books((Holdings \ {x}) \cup {y}, open, c2, kept, struck)
    BY <1>2, <1>5, <2>3, <2>4, HandedOn
  <2> QED BY <2>1, <2>5
<1>10. SocketsOK'
  BY <1>1, <1>2 DEF SocketInv, HeldInv, SocketsOK
<1>11. /\ sock' \in [Socks -> SocketObjects] /\ \A t \in Socks : sock[t].live => sock'[t].live
       /\ \A t \in Socks : sock'[t].live => sock'[t].desc = sock[t].desc
  BY <1>1, <1>2
<1> QED BY <1>7, <1>8, <1>9, <1>10, <1>11

(* A socket is closed, by the hub when it next submits, or at once. *)
LEMMA SocketCloses ==
    ASSUME SocketInv, NEW s \in Socks, sock[s].live, ReallyCloses(s),
           UNCHANGED <<struck, conn, raw, late, dropped, job>>
    PROVE  /\ HeldInv' /\ open' \in [Fds -> 0..MaxGen] /\ closes' \subseteq Sqes
           /\ kept' \subseteq Descs /\ sock' \in [Socks -> SocketObjects]
           /\ \A t \in Socks \ {s} : sock'[t] = sock[t]
<1>1. /\ sock \in [Socks -> SocketObjects] /\ open \in [Fds -> 0..MaxGen] /\ closes \subseteq Sqes
      /\ kept \subseteq Descs
      /\ Books(Holdings, open, conn, kept, struck) /\ SocketsOK
      /\ sock[s].registered \in BOOLEAN
  BY DEF SocketInv, SocketTypes, HeldInv, SocketObjects
<1>2. PICK d \in Descs : d = sock[s].desc
  BY SocketHolds
<1>3. d.fd \in Fds /\ d.gen \in 1..MaxGen /\ d.gen # 0
  BY DescriptorsAssumption DEF Descs
<1>4. PICK x \in Holdings : /\ x = SockHolding(s, sock[s]) /\ Same(x, d)
                            /\ x.known = sock[s].registered /\ x.kind = "socket"
  BY <1>2, SocketHolds, SockHoldingIs DEF Same
<1>5. /\ sock' = [sock EXCEPT ![s] = NoSocket] /\ NoSocket \in SocketObjects
      /\ ~NoSocket.live /\ ~NoSocket.closed
  BY <1>2, SocketOfIs DEF ReallyCloses
<1>6. HoldingsOf(sock', closes, Loose, job) = Holdings \ {x}
  <2>1. SocketGoes(s, sock, sock')
    BY <1>1, <1>5 DEF SocketGoes
  <2> QED BY <1>4, <2>1, SocketDroppedNow DEF SocketInv
<1>7. sock' \in [Socks -> SocketObjects] /\ \A t \in Socks \ {s} : sock'[t] = sock[t]
  BY <1>1, <1>5
<1>8. SocketsOK'
  BY <1>1, <1>5 DEF SocketsOK
<1>9. CASE sock[s].registered
  <2>1. closes' = closes \cup {CloseSqe(d)} /\ open' = open /\ kept' = kept \cup {d}
    BY <1>2, <1>9 DEF ReallyCloses
  <2>2. PICK c : c = CloseSqe(d) /\ c.fd = d.fd /\ c.gen = d.gen /\ c.tracked = (conn[d.fd] # 0) /\ c \in Sqes
    <3>1. PICK c : c = CloseSqe(d)
      OBVIOUS
    <3>2. c.fd = d.fd /\ c.gen = d.gen /\ c.tracked = (conn[d.fd] # 0)
      BY <3>1 DEF CloseSqe
    <3>3. c \in Sqes
      BY <1>3, <3>1 DEF CloseSqe, Sqes
    <3> QED BY <3>1, <3>2, <3>3
  <2>3. PICK y : y = CloseHolding(c) /\ Same(y, d) /\ y.known = (conn[d.fd] # 0) /\ y.kind = "close"
    <3>1. PICK y : y = CloseHolding(c)
      OBVIOUS
    <3>2. y.fd = d.fd /\ y.gen = d.gen /\ y.known = (conn[d.fd] # 0) /\ y.kind = "close"
      BY <2>2, <3>1 DEF CloseHolding, Holding
    <3> QED BY <3>1, <3>2 DEF Same
  <2>4. Holdings' = (Holdings \ {x}) \cup {y}
    <3>1. HoldingsOf(sock', closes \cup {c}, Loose, job) = HoldingsOf(sock', closes, Loose, job) \cup {y}
      BY <2>3, CloseAsked
    <3> QED BY <1>6, <2>1, <2>2, <3>1 DEF Holdings, Loose
  <2>5. PassedOn(x, y, conn, conn, struck)
    <3>1. ~struck => conn[d.fd] = d.gen
      BY <1>2, <1>9, SocketHolds
    <3>2. Same(y, x) /\ x.fd = d.fd /\ y.gen = d.gen /\ x.gen = d.gen
      BY <1>4, <2>3 DEF Same
    <3> QED BY <1>3, <2>3, <3>1, <3>2 DEF PassedOn
  <2>6. KeptFor(x, y, kept, kept \cup {d})
    BY <1>4, <2>3 DEF KeptFor
  <2>7. Books((Holdings \ {x}) \cup {y}, open, conn, kept \cup {d}, struck)
    BY <1>1, <1>4, <2>5, <2>6, HandedOn
  <2>8. closes' \subseteq Sqes /\ kept' \subseteq Descs
    BY <1>1, <2>1, <2>2
  <2> QED BY <1>1, <1>7, <1>8, <2>1, <2>4, <2>7, <2>8 DEF HeldInv
<1>10. CASE ~sock[s].registered
  <2>1. ClosesNow({d.fd}) /\ closes' = closes /\ kept' = kept
    BY <1>2, <1>10 DEF ReallyCloses
  <2>2. open' \in [Fds -> 0..MaxGen] /\ Executed({d.fd}, open, open')
    BY <1>1, <2>1, DescriptorsAssumption DEF ClosesNow, Executed
  <2>3. Holdings' = Holdings \ {x}
    BY <1>6, <2>1 DEF Holdings, Loose
  <2>4. PICK X : X = {x}
    OBVIOUS
  <2>5. X \in SUBSET Holdings /\ (\A z \in X : z.kind # "close" /\ ~z.known)
    BY <1>4, <1>10, <2>4
  <2>6. \A fd : fd \in {d.fd} <=> \E z \in X : z.fd = fd
    BY <1>4, <2>4 DEF Same
  <2>7. Books(Holdings \ X, open', conn, kept, struck)
    BY <1>1, <2>2, <2>5, <2>6, OwnClosed
  <2> QED BY <1>1, <1>7, <1>8, <2>1, <2>2, <2>3, <2>4, <2>7 DEF HeldInv
<1> QED BY <1>1, <1>9, <1>10

(* A number becomes a socket again. *)
LEMMA WrapKeeps ==
    ASSUME SocketInv, CanMake, NEW d \in raw, raw' = raw \ {d},
           sock' = [sock EXCEPT ![NextSock] = SocketOf(d, FALSE)],
           UNCHANGED <<struck, open, conn, closes, late, kept, dropped, job>>
    PROVE  /\ HeldInv' /\ raw' \subseteq Descs /\ sock' \in [Socks -> SocketObjects]
           /\ \A s \in Socks : sock[s].live => sock'[s].live
<1>1. PICK n \in Socks : n = NextSock /\ ~sock[n].live
  BY NextSockIs
<1>2. /\ sock \in [Socks -> SocketObjects] /\ d \in Descs
      /\ raw \subseteq Descs
      /\ Books(Holdings, open, conn, kept, struck) /\ SocketsOK
  BY DEF SocketInv, SocketTypes, HeldInv
<1>3. PICK v \in SocketObjects : v = SocketOf(d, FALSE) /\ v.live /\ v.desc = d /\ v.registered = FALSE /\ ~v.closed
  BY <1>2, SocketOfIs
<1>4. sock' = [sock EXCEPT ![n] = v]
  BY <1>1, <1>3
<1>5. LooseKinds(Loose) /\ RawHolding(d) \in Loose /\ Loose' = Loose \ {RawHolding(d)}
  BY <1>2, LooseNow, LessRaw
<1>6. PICK x \in Holdings : x = RawHolding(d) /\ Same(x, d) /\ x.known = FALSE /\ x.kind = "raw"
  BY <1>5, KindsDiffer, LooseHoldingIs DEF Holdings
<1>7. PICK y : y = SockHolding(n, v) /\ Same(y, d) /\ y.known = FALSE /\ y.kind = "socket"
  BY <1>3, SockHoldingIs DEF Same
<1>8. Holdings' = (Holdings \ {x}) \cup {y}
  <2>1. HoldingsOf(sock', closes, Loose, job) = Holdings \cup {y}
    <3>1. SocketStays(n, sock, sock', v)
      BY <1>2, <1>3, <1>4 DEF SocketStays
    <3>2. SockHolding(n, sock[n]) \notin Holdings
      BY <1>1, <1>5, SocketHadNothing DEF Holdings
    <3> QED BY <1>7, <3>1, <3>2, SocketChangesNow DEF SocketInv
  <2>2. HoldingsOf(sock', closes, Loose', job) = HoldingsOf(sock', closes, Loose, job) \ {x}
    BY <1>5, <1>6, LooseGiven
  <2>3. x # y
    BY <1>6, <1>7
  <2> QED BY <2>1, <2>2, <2>3 DEF Holdings
<1>9. Books((Holdings \ {x}) \cup {y}, open, conn, kept, struck)
  <2>1. PassedOn(x, y, conn, conn, struck)
    BY <1>6, <1>7 DEF PassedOn, Same
  <2>2. KeptFor(x, y, kept, kept)
    BY <1>7 DEF KeptFor
  <2> QED BY <1>2, <1>6, <2>1, <2>2, HandedOn
<1>10. SocketsOK'
  BY <1>2, <1>3, <1>4 DEF SocketsOK
<1>11. sock' \in [Socks -> SocketObjects] /\ \A s \in Socks : sock[s].live => sock'[s].live
  BY <1>2, <1>3, <1>4
<1> QED BY <1>2, <1>8, <1>9, <1>10, <1>11 DEF HeldInv

(* A number is closed that the program or a dropped C object has. *)
LEMMA LooseCloses ==
    ASSUME SocketInv, NEW d \in Descs, NEW x \in Loose, Same(x, d), ~x.known,
           Loose' = Loose \ {x}, ClosesNow({d.fd}),
           UNCHANGED <<struck, conn, closes, sock, kept, job>>
    PROVE  HeldInv' /\ open' \in [Fds -> 0..MaxGen]
<1>1. /\ open \in [Fds -> 0..MaxGen] /\ LooseKinds(Loose)
      /\ Books(Holdings, open, conn, kept, struck) /\ SocketsOK
  BY LooseNow DEF SocketInv, SocketTypes, HeldInv
<1>2. Holdings' = Holdings \ {x}
  <2>1. HoldingsOf(sock, closes, Loose', job) = Holdings \ {x}
    BY <1>1, LooseGiven DEF Holdings
  <2> QED BY <2>1 DEF Holdings
<1>3. open' \in [Fds -> 0..MaxGen] /\ Executed({d.fd}, open, open')
  BY <1>1, DescriptorsAssumption DEF ClosesNow, Executed
<1>4. PICK X : X = {x}
  OBVIOUS
<1>5. X \in SUBSET Holdings /\ (\A z \in X : z.kind # "close" /\ ~z.known)
  BY <1>1, <1>4, KindsDiffer DEF Holdings, LooseKinds
<1>6. \A fd : fd \in {d.fd} <=> \E z \in X : z.fd = fd
  BY <1>4 DEF Same
<1>7. Books(Holdings \ X, open', conn, kept, struck)
  BY <1>1, <1>3, <1>5, <1>6, OwnClosed
<1>8. SocketsOK'
  BY <1>1 DEF SocketsOK
<1> QED BY <1>2, <1>3, <1>4, <1>7, <1>8 DEF HeldInv

(* A socket gives its number to the program, and the hub forgets it. *)
LEMMA DetachKeeps ==
    ASSUME SocketInv, NEW s \in Socks, sock[s].live,
           conn' = IF sock[s].registered THEN [conn EXCEPT ![sock[s].desc.fd] = 0] ELSE conn,
           raw' = raw \cup {sock[s].desc}, sock' = [sock EXCEPT ![s] = NoSocket],
           UNCHANGED <<struck, open, closes, late, kept, dropped, job>>
    PROVE  /\ HeldInv' /\ conn' \in [Fds -> 0..Left]
           /\ raw' \subseteq Descs /\ sock' \in [Socks -> SocketObjects]
           /\ \A t \in Socks \ {s} : sock'[t] = sock[t]
<1>1. /\ sock \in [Socks -> SocketObjects] /\ conn \in [Fds -> 0..Left]
      /\ raw \subseteq Descs
      /\ sock[s].registered \in BOOLEAN
      /\ Books(Holdings, open, conn, kept, struck) /\ SocketsOK
  BY DEF SocketInv, SocketTypes, HeldInv, SocketObjects
<1>2. PICK d \in Descs : d = sock[s].desc /\ d.fd \in Fds
  BY SocketHolds DEF Descs
<1>3. NoSocket \in SocketObjects /\ ~NoSocket.live /\ ~NoSocket.closed
  BY <1>2, SocketOfIs
<1>4. PICK x \in Holdings : /\ x = SockHolding(s, sock[s]) /\ Same(x, d)
                            /\ x.known = sock[s].registered /\ x.kind = "socket"
  BY <1>2, SocketHolds, SockHoldingIs DEF Same
<1>5. PICK y : y = RawHolding(d) /\ Same(y, d) /\ y.known = FALSE /\ y.kind = "raw"
  BY LooseHoldingIs
<1>6. Holdings' = (Holdings \ {x}) \cup {y}
  <2>1. HoldingsOf(sock', closes, Loose, job) = Holdings \ {x}
    <3>1. SocketGoes(s, sock, sock')
      BY <1>1, <1>3 DEF SocketGoes
    <3> QED BY <1>4, <3>1, SocketDroppedNow DEF SocketInv
  <2>2. Loose' = Loose \cup {y} /\ y \in Loose'
    BY <1>2, <1>5, MoreRaw
  <2>3. HoldingsOf(sock', closes, Loose', job) = HoldingsOf(sock', closes, Loose, job) \cup {y}
    BY <2>2, LooseTaken
  <2> QED BY <2>1, <2>3 DEF Holdings
<1>7. /\ conn' \in [Fds -> 0..Left] /\ \A fd \in Fds : fd # d.fd => conn'[fd] = conn[fd]
      /\ conn'[d.fd] = 0 \/ (conn'[d.fd] = conn[d.fd] /\ ~x.known)
  BY <1>1, <1>2, <1>4, DescriptorsAssumption DEF Left
<1>8. Books((Holdings \ {x}) \cup {y}, open, conn', kept, struck)
  <2>1. PICK c2 : c2 = conn'
    OBVIOUS
  <2>2. PassedOn(x, y, conn, c2, struck)
    BY <1>4, <1>5, <1>7, <2>1 DEF PassedOn, Same, NoOpening
  <2>3. KeptFor(x, y, kept, kept)
    BY <1>5 DEF KeptFor
  <2>4. Books((Holdings \ {x}) \cup {y}, open, c2, kept, struck)
    BY <1>1, <1>4, <2>2, <2>3, HandedOn
  <2> QED BY <2>1, <2>4
<1>9. SocketsOK'
  BY <1>1, <1>3 DEF SocketsOK
<1>10. sock' \in [Socks -> SocketObjects] /\ \A t \in Socks \ {s} : sock'[t] = sock[t]
  BY <1>1, <1>3
<1>11. raw' \subseteq Descs
  BY <1>1, <1>2
<1> QED BY <1>6, <1>7, <1>8, <1>9, <1>10, <1>11 DEF HeldInv

(* A connection is accepted, and nobody has it. *)
LEMMA LateKeeps ==
    ASSUME SocketInv, NEW d \in Descs, open[d.fd] = 0, ~Meant(d), Opens({d}),
           conn' = [conn EXCEPT ![d.fd] = d.gen], late' = late \cup {d},
           UNCHANGED <<struck, closes, sock, raw, kept, dropped, job>>
    PROVE  /\ HeldInv' /\ open' \in [Fds -> 0..MaxGen] /\ conn' \in [Fds -> 0..Left]
           /\ late' \subseteq Descs
<1>1. late \subseteq Descs /\ SocketsOK
  BY DEF SocketInv, SocketTypes, HeldInv
<1>2. PICK y : y = LateHolding(d) /\ Same(y, d) /\ y.known = TRUE /\ y.kind # "close"
  BY LooseHoldingIs
<1>3. Holdings' = Holdings \cup {y}
  <2>1. Loose' = Loose \cup {y} /\ y \in Loose'
    BY <1>2, MoreLate
  <2>2. HoldingsOf(sock, closes, Loose', job) = Holdings \cup {y}
    BY <2>1, LooseTaken DEF Holdings
  <2> QED BY <2>2 DEF Holdings
<1>4. /\ Books(Holdings \cup {y}, open', conn', kept, struck)
      /\ open' \in [Fds -> 0..MaxGen] /\ conn' \in [Fds -> 0..Left]
  BY <1>2, OpensFor
<1>5. SocketsOK'
  BY <1>1 DEF SocketsOK
<1> QED BY <1>1, <1>3, <1>4, <1>5 DEF HeldInv

(* The C object of a socket that was closed closes its number again. *)
LEMMA ClosesAgain ==
    ASSUME SocketInv, NEW d \in kept, FinalizesClosed(d)
    PROVE  /\ HeldInv' /\ open' \in [Fds -> 0..MaxGen] /\ kept' \subseteq Descs
           /\ struck' \in BOOLEAN /\ (~struck' => ~struck)
<1> USE DEF FinalizesClosed
<1>1. /\ open \in [Fds -> 0..MaxGen] /\ kept \subseteq Descs /\ d \in Descs /\ struck \in BOOLEAN
      /\ Books(Holdings, open, conn, kept, struck) /\ SocketsOK
  BY DEF SocketInv, SocketTypes, HeldInv
<1>2. open' \in [Fds -> 0..MaxGen] /\ Executed({d.fd}, open, open')
  BY <1>1, DescriptorsAssumption DEF ClosesNow, Executed
<1>3. struck' \in BOOLEAN /\ (~struck' => ~struck) /\ (~struck' => open[d.fd] \in {0, d.gen})
  BY <1>1 DEF Strikes
<1>4. Holdings' = Holdings
  BY DEF Holdings, Loose
<1>5. PICK X, Z, K2 : X = {} /\ Z = {d.fd} /\ K2 = kept \ {d}
  OBVIOUS
<1>6. Books(Holdings \ X, open', conn, K2, struck')
  <2>1. Reaped(X, conn, conn)
    BY <1>5 DEF Reaped
  <2>2. X \in SUBSET Holdings /\ K2 \in SUBSET kept
    BY <1>5
  <2>3. (\A x \in X : x.fd \in Z) /\ (\A e \in kept \ K2 : e.fd \in Z)
    BY <1>5
  <2>4. \A e \in K2 : ~Same(e, d)
    BY <1>1, <1>5 DEF Same, Descs
  <2>5. ~struck' => \A fd \in Fds \cap Z :
            \/ open[fd] = 0
            \/ \E x \in X : x.fd = fd /\ x.gen = open[fd]
            \/ \E e \in kept \ K2 : e.fd = fd /\ e.gen = open[fd] /\ \A e2 \in K2 : ~Same(e2, e)
    BY <1>3, <1>5, <2>4
  <2>6. PICK o2, hit2 : o2 = open' /\ hit2 = struck'
    OBVIOUS
  <2>7. Books(Holdings \ X, o2, conn, K2, hit2)
    BY <1>1, <1>2, <1>3, <1>5, <2>1, <2>2, <2>3, <2>5, <2>6, Closed
  <2> QED BY <2>6, <2>7
<1>7. Books(Holdings', open', conn', kept', struck')
  <2>1. Holdings \ X = Holdings
    BY <1>5
  <2> QED BY <1>4, <1>5, <1>6, <2>1
<1>8. SocketsOK'
  BY <1>1 DEF SocketsOK
<1> QED BY <1>1, <1>2, <1>3, <1>7, <1>8 DEF HeldInv

(* create_connection drops the socket of an attempt. What else happens in  *)
(* the step, to lookups and their pipes, is left open.                     *)
LEMMA AttemptDropped ==
    ASSUME SocketInv, NEW s \in Socks, sock[s].live,
           dropped' = dropped \cup {sock[s].desc},
           conn' = [conn EXCEPT ![sock[s].desc.fd] = IF @ = sock[s].desc.gen THEN Left ELSE @],
           sock' = [sock EXCEPT ![s] = NoSocket],
           UNCHANGED <<raw, late>>,
           NEW jb, NEW o, Books(HoldingsOf(sock, closes, Loose, jb), o, conn, kept, struck)
    PROVE  /\ Books(HoldingsOf(sock', closes, Loose', jb), o, conn', kept, struck)
           /\ SocketsOK' /\ conn' \in [Fds -> 0..Left]
           /\ dropped' \subseteq Descs /\ sock' \in [Socks -> SocketObjects]
           /\ \A t \in Socks \ {s} : sock'[t] = sock[t]
<1>1. /\ sock \in [Socks -> SocketObjects] /\ conn \in [Fds -> 0..Left] /\ dropped \subseteq Descs
      /\ SocketsOK
  BY DEF SocketInv, SocketTypes, HeldInv
<1>2. PICK d \in Descs : d = sock[s].desc /\ d.fd \in Fds
  BY SocketHolds DEF Descs
<1>3. NoSocket \in SocketObjects /\ ~NoSocket.live /\ ~NoSocket.closed
  BY <1>2, SocketOfIs
<1>4. PICK H : H = HoldingsOf(sock, closes, Loose, jb)
  OBVIOUS
<1>5. PICK x \in H : x = SockHolding(s, sock[s]) /\ Same(x, d) /\ x.kind = "socket"
  <2>1. SockHolding(s, sock[s]) \in H
    BY <1>4, KindsDiffer
  <2> QED BY <1>2, <2>1, SockHoldingIs DEF Same
<1>6. PICK y : y = DroppedHolding(d) /\ Same(y, d) /\ y.known = FALSE /\ y.kind = "dropped"
  BY LooseHoldingIs
<1>7. HoldingsOf(sock', closes, Loose', jb) = (H \ {x}) \cup {y}
  <2>1. SocketGoes(s, sock, sock')
    BY <1>1, <1>3 DEF SocketGoes
  <2>2. HoldingsOf(sock', closes, Loose, jb) = H \ {x}
    BY <1>4, <1>5, <2>1, LooseNow, SocketDropped
  <2>3. Loose' = Loose \cup {y} /\ y \in Loose'
    BY <1>2, <1>6, MoreDropped
  <2>4. HoldingsOf(sock', closes, Loose', jb) = HoldingsOf(sock', closes, Loose, jb) \cup {y}
    BY <2>3, LooseTaken
  <2> QED BY <2>2, <2>4
<1>8. /\ conn' \in [Fds -> 0..Left] /\ \A fd \in Fds : fd # d.fd => conn'[fd] = conn[fd]
      /\ conn'[d.fd] = Left \/ (conn'[d.fd] = conn[d.fd] /\ conn[d.fd] # d.gen)
  <2>1. Left \in 0..Left
    BY DescriptorsAssumption DEF Left
  <2> QED BY <1>1, <1>2, <2>1
<1>9. Books((H \ {x}) \cup {y}, o, conn', kept, struck)
  <2>1. PICK c2 : c2 = conn'
    OBVIOUS
  <2>2. PassedOn(x, y, conn, c2, struck)
    BY <1>5, <1>6, <1>8, <2>1 DEF PassedOn, Same, NoOpening
  <2>3. KeptFor(x, y, kept, kept)
    BY <1>6 DEF KeptFor
  <2>4. Books((H \ {x}) \cup {y}, o, c2, kept, struck)
    BY <1>4, <1>5, <2>2, <2>3, HandedOn
  <2> QED BY <2>1, <2>4
<1>10. SocketsOK'
  BY <1>1, <1>3 DEF SocketsOK
<1>11. sock' \in [Socks -> SocketObjects] /\ \A t \in Socks \ {s} : sock'[t] = sock[t]
  BY <1>1, <1>3
<1>12. dropped' \subseteq Descs
  BY <1>1, <1>2
<1> QED BY <1>7, <1>8, <1>9, <1>10, <1>11, <1>12

-----------------------------------------------------------------------------
(* What becomes of what is held when a lookup begins and ends, and when    *)
(* the hub executes closes.                                                *)

(* Two numbers are opened. *)
LEMMA OpensTwo ==
    ASSUME SocketTypes, NEW r \in Descs, NEW w \in Descs, r.fd # w.fd, Opens({r, w})
    PROVE  \E o : /\ o = [open EXCEPT ![r.fd] = r.gen]
                  /\ o \in [Fds -> 0..MaxGen] /\ o[w.fd] = open[w.fd]
                  /\ open' = [o EXCEPT ![w.fd] = w.gen] /\ open' \in [Fds -> 0..MaxGen]
<1>0. PICK o : o = [open EXCEPT ![r.fd] = r.gen]
  OBVIOUS
<1>1. r.fd \in Fds /\ w.fd \in Fds /\ r.gen \in 0..MaxGen /\ w.gen \in 0..MaxGen
  BY DescriptorsAssumption DEF Descs
<1>2. o \in [Fds -> 0..MaxGen] /\ o[w.fd] = open[w.fd]
  BY <1>0, <1>1 DEF SocketTypes
<1>3. ASSUME NEW fd \in Fds
      PROVE  open'[fd] = IF fd = w.fd THEN w.gen ELSE o[fd]
  <2>1. CASE fd = w.fd
    <3>1. (CHOOSE e \in {r, w} : e.fd = fd) = w
      BY <2>1
    <3>2. open'[fd] = (CHOOSE e \in {r, w} : e.fd = fd).gen
      BY <2>1 DEF Opens
    <3> QED BY <2>1, <3>1, <3>2
  <2>2. CASE fd = r.fd
    <3>1. (CHOOSE e \in {r, w} : e.fd = fd) = r
      BY <2>2
    <3>2. open'[fd] = (CHOOSE e \in {r, w} : e.fd = fd).gen
      BY <2>2 DEF Opens
    <3>3. o[fd] = r.gen
      BY <1>0, <2>2 DEF SocketTypes
    <3> QED BY <2>2, <3>1, <3>2, <3>3
  <2>3. CASE fd # r.fd /\ fd # w.fd
    BY <1>0, <2>3 DEF Opens, SocketTypes
  <2> QED BY <2>1, <2>2, <2>3
<1>4. open' = [fd \in Fds |-> open'[fd]]
  BY DEF Opens
<1>5. open' = [o EXCEPT ![w.fd] = w.gen] /\ open' \in [Fds -> 0..MaxGen]
  BY <1>1, <1>2, <1>3, <1>4
<1> QED BY <1>0, <1>2, <1>5

(* A lookup n gets a pipe of two free numbers that nobody means. The       *)
(* sockets and the hub's map may have changed before in the same step.     *)
LEMMA PipeHeld ==
    ASSUME SocketTypes, NEW r \in Descs, NEW w \in Descs, r.fd # w.fd, ~Meant(r), ~Meant(w),
           open[r.fd] = 0, open[w.fd] = 0, Opens({r, w}),
           NEW n \in Jobs, NEW v, LookupIs(n, job, job', v), v.r = r, v.w = w,
           job[n].r.gen = 0, job[n].w.gen = 0,
           NEW sk, \A s \in Socks : sk[s].live => sk[s].desc = sock[s].desc,
           NEW c \in [Fds -> 0..Left],
           Books(HoldingsOf(sk, closes, Loose, job), open, c, kept, struck)
    PROVE  /\ Books(HoldingsOf(sk, closes, Loose, job'), open', c, kept, struck)
           /\ open' \in [Fds -> 0..MaxGen]
<1>1. /\ r.fd \in Fds /\ r.gen \in 1..MaxGen /\ r.gen # 0
      /\ w.fd \in Fds /\ w.gen \in 1..MaxGen /\ w.gen # 0
  BY DescriptorsAssumption DEF Descs
<1>2. PICK x : x = ReadHolding(n, v) /\ Same(x, r) /\ x.known = FALSE /\ x.kind = "read"
  <2>1. PICK x : x = ReadHolding(n, v)
    OBVIOUS
  <2>2. Same(x, r) /\ x.known = FALSE /\ x.kind = "read"
    BY <2>1 DEF ReadHolding, Holding, Same
  <2> QED BY <2>1, <2>2
<1>3. PICK y : y = WriteHolding(n, v) /\ Same(y, w) /\ y.known = FALSE /\ y.kind = "write"
  <2>1. PICK y : y = WriteHolding(n, v)
    OBVIOUS
  <2>2. Same(y, w) /\ y.known = FALSE /\ y.kind = "write"
    BY <2>1 DEF WriteHolding, Holding, Same
  <2> QED BY <2>1, <2>2
<1>4. PICK H : H = HoldingsOf(sk, closes, Loose, job)
  OBVIOUS
<1>5. HoldingsOf(sk, closes, Loose, job') = (H \cup {x}) \cup {y}
  <2>1. PICK jb, ls, X : jb = job' /\ ls = Loose /\ X = {ReadHolding(n, v), WriteHolding(n, v)}
    OBVIOUS
  <2>2. v.r.gen # 0 /\ v.w.gen # 0 /\ LooseKinds(ls) /\ LookupIs(n, job, jb, v)
    BY <1>1, <2>1, LooseNow
  <2>3. HoldingsOf(sk, closes, ls, jb) = HoldingsOf(sk, closes, ls, job) \cup X
    BY <2>1, <2>2, PipeTaken
  <2> QED BY <1>2, <1>3, <1>4, <2>1, <2>3
<1>6. PICK o : /\ o = [open EXCEPT ![r.fd] = r.gen]
               /\ o \in [Fds -> 0..MaxGen] /\ o[w.fd] = open[w.fd]
               /\ open' = [o EXCEPT ![w.fd] = w.gen] /\ open' \in [Fds -> 0..MaxGen]
  BY OpensTwo
<1>7. /\ \A z \in H : ~Same(z, x) /\ ~Same(z, y)
      /\ \A e \in kept : ~Same(x, e) /\ ~Same(y, e)
  <2>1. NewTo(r, H, kept) /\ NewTo(w, H, kept)
    BY <1>4, UnmeantIsNew
  <2> QED BY <1>2, <1>3, <2>1 DEF NewTo, Same, SocketTypes, Descs
<1>8. Books(H \cup {x}, o, c, kept, struck)
  <2>1. open \in [Fds -> 0..MaxGen] /\ Books(H, open, c, kept, struck)
    BY <1>4 DEF SocketTypes
  <2>2. /\ x.fd = r.fd /\ x.gen = r.gen /\ x.known \in BOOLEAN /\ x.kind # "close"
        /\ x.known = FALSE
    BY <1>2 DEF Same
  <2>3. Books(H \cup {x}, [open EXCEPT ![x.fd] = x.gen], c, kept, struck)
    BY <1>1, <1>7, <2>1, <2>2, Opened
  <2> QED BY <1>6, <2>2, <2>3
<1>9. Books((H \cup {x}) \cup {y}, open', c, kept, struck)
  <2>1. /\ y.fd = w.fd /\ y.gen = w.gen /\ y.known \in BOOLEAN /\ y.kind # "close"
        /\ y.known = FALSE
    BY <1>3 DEF Same
  <2>2. \A z \in H \cup {x} : ~Same(z, y)
    BY <1>2, <1>3, <1>7 DEF Same
  <2>3. PICK H2 : H2 = H \cup {x}
    OBVIOUS
  <2>4. Books(H2 \cup {y}, [o EXCEPT ![y.fd] = y.gen], c, kept, struck)
    BY <1>1, <1>6, <1>7, <1>8, <2>1, <2>2, <2>3, Opened
  <2> QED BY <1>6, <2>1, <2>3, <2>4
<1> QED BY <1>5, <1>6, <1>9

(* A greenlet opens the pipe of a lookup. *)
LEMMA PipeOpens ==
    ASSUME SocketInv, CanLookup, NEW r, NEW w, r = NewDesc({}), w = NewDesc({r.fd}), Opens({r, w}),
           job' = [job EXCEPT ![NewJob] = [Unborn EXCEPT !.state = "running", !.r = r, !.w = w]],
           NEW sk, \A s \in Socks : sk[s].live => sk[s].desc = sock[s].desc,
           NEW c \in [Fds -> 0..Left],
           Books(HoldingsOf(sk, closes, Loose, job), open, c, kept, struck)
    PROVE  /\ Books(HoldingsOf(sk, closes, Loose, job'), open', c, kept, struck)
           /\ open' \in [Fds -> 0..MaxGen] /\ r \in Descs /\ w \in Descs
<1>1. SocketTypes
  BY DEF SocketInv
<1>2. /\ r \in Descs /\ open[r.fd] = 0 /\ w \in Descs /\ open[w.fd] = 0
      /\ r.fd # w.fd /\ ~Meant(r) /\ ~Meant(w)
  <2>1. r \in Descs /\ open[r.fd] = 0 /\ ~Meant(r)
    BY <1>1, NewDescIs DEF CanLookup
  <2>2. CanOpen({r.fd})
    BY DEF CanLookup, NewDesc
  <2>3. w \in Descs /\ open[w.fd] = 0 /\ w.fd \notin {r.fd} /\ ~Meant(w)
    BY <1>1, <2>2, NewDescIs
  <2> QED BY <2>1, <2>3
<1>3. PICK n \in Jobs : n = NewJob /\ job[n] = Unborn
  BY NewJobIs DEF SocketInv, CallsInv, JobOK
<1>4. PICK v : LookupIs(n, job, job', v) /\ v.r = r /\ v.w = w
  <2>1. PICK v : v = [Unborn EXCEPT !.state = "running", !.r = r, !.w = w]
    OBVIOUS
  <2>2. v.r = r /\ v.w = w
    BY <2>1 DEF Unborn
  <2>3. job' = [job EXCEPT ![n] = v]
    BY <1>3, <2>1
  <2>4. LookupIs(n, job, job', v)
    BY <1>1, <2>3 DEF LookupIs, SocketTypes
  <2> QED BY <2>2, <2>4
<1>5. job[n].r.gen = 0 /\ job[n].w.gen = 0
  BY <1>3, UnbornIs
<1> QED BY <1>1, <1>2, <1>4, <1>5, PipeHeld

(* A greenlet closes the pipe of its lookup. What else happens in the step *)
(* is left open.                                                           *)
LEMMA PipeCloses ==
    ASSUME SocketInv, NEW g \in Greenlets, call[g].job # 0, EndsLookup(g)
    PROVE  /\ Books(HoldingsOf(sock, closes, Loose, job'), open', conn, kept, struck)
           /\ open' \in [Fds -> 0..MaxGen]
<1>1. PICK n \in Jobs : n = call[g].job /\ n # 0
  BY NumbersPositive DEF SocketInv, SocketTypes, Calls
<1>2. /\ job[n] \in Lookups /\ job[n].r.gen # 0 /\ job[n].w.gen # 0
      /\ open \in [Fds -> 0..MaxGen] /\ Books(Holdings, open, conn, kept, struck)
  BY <1>1 DEF SocketInv, SocketTypes, HeldInv, CallsInv, CallOK, JobOK
<1>3. PICK v : LookupIs(n, job, job', v) /\ v.r.gen = 0 /\ v.w.gen = 0
  <2>1. PICK v : v = IF job[n].state = "ended" THEN Unborn ELSE Orphan(job[n])
    OBVIOUS
  <2>2. v.r.gen = 0 /\ v.w.gen = 0
    BY <1>2, <2>1, OrphanIs
  <2>3. job' = [job EXCEPT ![n] = v]
    BY <1>1, <2>1 DEF EndsLookup
  <2>4. LookupIs(n, job, job', v)
    BY <2>3 DEF LookupIs, SocketInv, SocketTypes
  <2> QED BY <2>2, <2>4
<1>4. PICK X : X = {ReadHolding(n, job[n]), WriteHolding(n, job[n])}
  OBVIOUS
<1>5. HoldingsOf(sock, closes, Loose, job') = Holdings \ X
  BY <1>3, <1>4, LooseNow, PipeGiven DEF Holdings
<1>6. X \in SUBSET Holdings
  BY <1>2, <1>4, KindsDiffer DEF Holdings
<1>7. \A x \in X : x.kind # "close" /\ ~x.known
  BY <1>4 DEF ReadHolding, WriteHolding, Holding
<1>8. \A fd : fd \in Pipe(n) <=> \E x \in X : x.fd = fd
  BY <1>4 DEF ReadHolding, WriteHolding, Holding, Pipe
<1>9. ClosesNow(Pipe(n))
  BY <1>1 DEF EndsLookup
<1>10. open' \in [Fds -> 0..MaxGen] /\ Executed(Pipe(n), open, open')
  BY <1>2, <1>9, DescriptorsAssumption DEF ClosesNow, Executed
<1>11. Books(Holdings \ X, open', conn, kept, struck)
  BY <1>2, <1>6, <1>7, <1>8, <1>10, OwnClosed
<1> QED BY <1>5, <1>10, <1>11

(* The hub executes the closes, and reaps them now or later. *)
LEMMA Submitted ==
    ASSUME SocketInv, Executes, UNCHANGED <<job, sock, raw, late, kept, dropped>>,
           conn' \in [Fds -> 0..Left],
           \A fd \in Fds :
               \/ conn'[fd] = conn[fd] /\ fd \notin Tracked
               \/ conn'[fd] \in {0, Gone} /\ (conn[fd] = Gone \/ fd \in Tracked)
    PROVE  /\ HeldInv' /\ open' \in [Fds -> 0..MaxGen]
           /\ struck' \in BOOLEAN /\ (~struck' => ~struck)
<1>1. /\ open \in [Fds -> 0..MaxGen] /\ closes \subseteq Sqes /\ struck \in BOOLEAN
      /\ Books(Holdings, open, conn, kept, struck) /\ SocketsOK
  BY DEF SocketInv, SocketTypes, HeldInv
<1>2. PICK X, Z : X = {CloseHolding(c) : c \in closes} /\ Z = {c.fd : c \in closes}
  OBVIOUS
<1>3. Holdings' = Holdings \ X
  <2>1. HoldingsOf(sock, {}, Loose, job) = Holdings \ X
    BY <1>2, LooseNow, ClosesDone DEF Holdings
  <2> QED BY <2>1 DEF Holdings, Loose, Executes
<1>4. X \in SUBSET Holdings
  BY <1>2, KindsDiffer DEF Holdings
<1>5. /\ \A c \in closes : \E x \in X : x.fd = c.fd /\ x.gen = c.gen
      /\ \A x \in X : x.fd \in Z /\ (x.known => x.fd \in Tracked)
  <2>1. \A c \in closes : /\ CloseHolding(c).fd = c.fd /\ CloseHolding(c).gen = c.gen
                          /\ CloseHolding(c).known = c.tracked
    BY DEF CloseHolding, Holding
  <2>2. \A c \in closes : c.tracked => c.fd \in Tracked
    BY DEF Tracked
  <2>3. \A x : x \in X <=> \E c \in closes : x = CloseHolding(c)
    BY <1>2
  <2> QED BY <1>2, <2>1, <2>2, <2>3
<1>6. open' \in [Fds -> 0..MaxGen] /\ Executed(Z, open, open')
  BY <1>1, <1>2, DescriptorsAssumption DEF Executes, ClosesNow, Executed
<1>7. /\ struck' \in BOOLEAN /\ (~struck' => ~struck)
      /\ ~struck' => \A c \in closes : open[c.fd] \in {0, c.gen}
  BY <1>1 DEF Executes, Strikes
<1>8. Reaped(X, conn, conn')
  BY <1>5 DEF Reaped, NoOpening
<1>9. Tracked \subseteq Z
  BY <1>2 DEF Tracked
<1>10. Books(Holdings \ X, open', conn', kept, struck')
  <2>1. PICK o2, c2, hit2 : o2 = open' /\ c2 = conn' /\ hit2 = struck'
    OBVIOUS
  <2>2. PICK K2 : K2 = kept
    OBVIOUS
  <2>3. \A fd \in Fds : c2[fd] = conn[fd] \/ fd \in Z \/ conn[fd] = Gone
    BY <1>9, <2>1
  <2>4. ~hit2 => \A fd \in Fds \cap Z :
            \/ open[fd] = 0
            \/ \E x \in X : x.fd = fd /\ x.gen = open[fd]
            \/ \E d \in kept \ K2 : d.fd = fd /\ d.gen = open[fd] /\ \A e \in K2 : ~Same(e, d)
    BY <1>2, <1>5, <1>7, <2>1
  <2>5. K2 \in SUBSET kept /\ (\A d \in kept \ K2 : d.fd \in Z) /\ (\A x \in X : x.fd \in Z)
    BY <1>5, <2>2
  <2>6. Executed(Z, open, o2) /\ Reaped(X, conn, c2) /\ (~hit2 => ~struck)
    BY <1>6, <1>7, <1>8, <2>1
  <2>7. Books(Holdings \ X, o2, c2, K2, hit2)
    BY <1>1, <1>4, <2>3, <2>4, <2>5, <2>6, Closed
  <2> QED BY <2>1, <2>2, <2>7
<1>11. SocketsOK'
  BY <1>1 DEF SocketsOK
<1> QED BY <1>3, <1>6, <1>7, <1>10, <1>11 DEF HeldInv

-----------------------------------------------------------------------------
(* The steps of a program between its waits.                               *)

(* The sockets of calls are alive. *)
LEMMA InUseLive ==
    ASSUME SocketInv, NEW g \in Greenlets, call[g].sock # 0
    PROVE  call[g].sock \in Socks /\ sock[call[g].sock].live
BY DEF SocketInv, SocketTypes, CallsInv, CallOK, Calls

(* Who is in no call has no socket and no lookup. *)
LEMMA IdleHasNothing ==
    ASSUME SocketInv, NEW g \in Greenlets, Idle(g)
    PROVE  call[g].sock = 0 /\ call[g].job = 0 /\ call[g].op = "none"
BY DEF SocketInv, CallsInv, CallOK, Idle, SockOps, JobOps

(* socket(), dup(), fromfd(). *)
LEMMA NewSocketKeeps == ASSUME SocketInv, NEW g \in Greenlets, NewSocket(g) PROVE SocketInv'
<1> USE DEF NewSocket, history, objects
<1>1. PICK d \in Descs : d = NewDesc({}) /\ open[d.fd] = 0 /\ ~Meant(d)
  BY NewDescIs DEF SocketInv
<1>2. /\ HeldInv' /\ open' \in [Fds -> 0..MaxGen] /\ conn' \in [Fds -> 0..Left]
      /\ sock' \in [Socks -> SocketObjects]
      /\ \A s \in Socks : sock[s].live => sock'[s].live
  BY <1>1, SocketOpens
<1>3. CallsInv'
  BY <1>2, InUseLive, CallsStay DEF waitVars, Quiet
<1> QED BY <1>2, <1>3 DEF SocketInv, SocketTypes

(* makefile(). *)
LEMMA MakeFileKeeps ==
    ASSUME SocketInv, NEW g \in Greenlets, NEW s \in Socks, MakeFile(g, s) PROVE SocketInv'
<1> USE DEF MakeFile, history, objects
<1>1. sock[s] \in SocketObjects /\ sock[s].live /\ ~sock[s].closed
  BY DEF SocketInv, SocketTypes, Usable
<1>2. PICK v : v = [sock[s] EXCEPT !.refs = @ + 1]
  OBVIOUS
<1>3. /\ v \in SocketObjects /\ v.live /\ ~v.closed
      /\ v.desc = sock[s].desc /\ v.registered = sock[s].registered
  BY <1>1, <1>2 DEF SocketObjects
<1>4. sock' = [sock EXCEPT ![s] = v]
  BY <1>2
<1>5. /\ HeldInv' /\ sock' \in [Socks -> SocketObjects]
      /\ \A t \in Socks : sock[t].live => sock'[t].live
  BY <1>1, <1>3, <1>4, SocketKeeps DEF fdVars
<1>6. CallsInv'
  BY <1>5, InUseLive, CallsStay DEF waitVars, Quiet
<1> QED BY <1>5, <1>6 DEF SocketInv, SocketTypes, fdVars, waitVars

(* recv(), send() and their like on a socket that is not registered. *)
LEMMA TransferKeeps ==
    ASSUME SocketInv, NEW g \in Greenlets, NEW s \in Socks, Transfer(g, s) PROVE SocketInv'
<1> USE DEF Transfer, history, objects
<1>1. /\ Books(HoldingsOf(sock', closes, Loose, job), open, conn', kept, struck)
      /\ SocketsOK' /\ conn' \in [Fds -> 0..Left]
      /\ sock' \in [Socks -> SocketObjects]
      /\ \A t \in Socks : sock[t].live => sock'[t].live
  BY SocketRegisters DEF Usable
<1>2. HeldInv'
  BY <1>1 DEF HeldInv, Holdings, Loose
<1>3. CallsInv'
  BY <1>1, InUseLive, CallsStay DEF waitVars, Quiet
<1> QED BY <1>1, <1>2, <1>3 DEF SocketInv, SocketTypes

(* A socket is closed that no call uses. *)
LEMMA ClosedKeeps ==
    ASSUME SocketInv, NEW s \in Socks, sock[s].live, ~InUse(s), ReallyCloses(s),
           UNCHANGED <<history, conn, call, ready, job, raw, late, dropped>>
    PROVE  SocketInv'
<1> USE DEF history
<1>1. /\ HeldInv' /\ open' \in [Fds -> 0..MaxGen] /\ closes' \subseteq Sqes
      /\ kept' \subseteq Descs /\ sock' \in [Socks -> SocketObjects]
      /\ \A t \in Socks \ {s} : sock'[t] = sock[t]
  BY SocketCloses
<1>2. CallsInv'
  BY <1>1, InUseLive, CallsStay DEF waitVars, InUse, Quiet
<1> QED BY <1>1, <1>2 DEF SocketInv, SocketTypes

(* A socket object changes that keeps its descriptor; no call does. *)
LEMMA ObjectChanges ==
    ASSUME SocketInv, NEW s \in Socks, sock[s].live,
           NEW v \in SocketObjects, sock' = [sock EXCEPT ![s] = v],
           v.live, v.desc = sock[s].desc, v.registered = sock[s].registered,
           v.closed => v.refs > 0,
           UNCHANGED <<history, open, conn, closes, call, ready, job, raw, late, kept, dropped>>
    PROVE  SocketInv'
<1> USE DEF history
<1>1. /\ HeldInv' /\ sock' \in [Socks -> SocketObjects]
      /\ \A t \in Socks : sock[t].live => sock'[t].live
  BY SocketKeeps
<1>2. CallsInv'
  BY <1>1, InUseLive, CallsStay DEF waitVars, Quiet
<1> QED BY <1>1, <1>2 DEF SocketInv, SocketTypes

(* close(). *)
LEMMA CloseKeeps ==
    ASSUME SocketInv, NEW g \in Greenlets, NEW s \in Socks, Close(g, s) PROVE SocketInv'
<1>1. sock[s] \in SocketObjects /\ sock[s].live /\ sock[s].refs \in Nat
  BY DEF SocketInv, SocketTypes, SocketObjects, Close, Usable
<1>2. CASE sock[s].refs = 0
  BY <1>1, <1>2, ClosedKeeps DEF Close
<1>3. CASE sock[s].refs # 0
  <2>1. PICK v : v = [sock[s] EXCEPT !.closed = TRUE]
    OBVIOUS
  <2>2. /\ v \in SocketObjects /\ v.live /\ v.refs > 0
        /\ v.desc = sock[s].desc /\ v.registered = sock[s].registered
    <3>1. sock[s].refs > 0
      BY <1>1, <1>3
    <3>2. /\ v.live = sock[s].live /\ v.refs = sock[s].refs
          /\ v.desc = sock[s].desc /\ v.registered = sock[s].registered
      BY <1>1, <2>1 DEF SocketObjects
    <3>3. v \in SocketObjects
      BY <1>1, <2>1 DEF SocketObjects
    <3> QED BY <1>1, <3>1, <3>2, <3>3
  <2>3. sock' = [sock EXCEPT ![s] = v]
    BY <1>3, <2>1 DEF Close
  <2> QED BY <1>1, <1>3, <2>2, <2>3, ObjectChanges DEF Close
<1> QED BY <1>2, <1>3

(* A file is closed, perhaps the last one of a closed socket. *)
LEMMA CloseFileKeeps ==
    ASSUME SocketInv, NEW g \in Greenlets, NEW s \in Socks, CloseFile(g, s) PROVE SocketInv'
<1> USE DEF CloseFile
<1>1. sock[s] \in SocketObjects /\ sock[s].live /\ sock[s].refs > 0 /\ sock[s].refs \in Nat
  BY DEF SocketInv, SocketTypes, SocketObjects
<1>2. CASE sock[s].closed /\ sock[s].refs = 1
  BY <1>1, <1>2, ClosedKeeps
<1>3. CASE ~(sock[s].closed /\ sock[s].refs = 1)
  <2>1. PICK v : v = [sock[s] EXCEPT !.refs = @ - 1]
    OBVIOUS
  <2>2. /\ v \in SocketObjects /\ v.live /\ (v.closed => v.refs > 0)
        /\ v.desc = sock[s].desc /\ v.registered = sock[s].registered
    BY <1>1, <1>3, <2>1 DEF SocketObjects
  <2>3. sock' = [sock EXCEPT ![s] = v]
    BY <1>3, <2>1
  <2> QED BY <1>1, <1>3, <2>2, <2>3, ObjectChanges
<1> QED BY <1>2, <1>3

(* detach(). *)
LEMMA DetachSteps ==
    ASSUME SocketInv, NEW g \in Greenlets, NEW s \in Socks, Detach(g, s) PROVE SocketInv'
<1> USE DEF Detach, history, objects
<1>1. /\ HeldInv' /\ conn' \in [Fds -> 0..Left]
      /\ raw' \subseteq Descs /\ sock' \in [Socks -> SocketObjects]
      /\ \A t \in Socks \ {s} : sock'[t] = sock[t]
  BY DetachKeeps DEF Usable
<1>2. CallsInv'
  BY <1>1, InUseLive, CallsStay DEF waitVars, InUse, Quiet
<1> QED BY <1>1, <1>2 DEF SocketInv, SocketTypes

(* socket(fileno=fd). *)
LEMMA WrapSteps ==
    ASSUME SocketInv, NEW g \in Greenlets, NEW d \in raw, Wrap(g, d) PROVE SocketInv'
<1> USE DEF Wrap, history, objects
<1>1. /\ HeldInv' /\ raw' \subseteq Descs /\ sock' \in [Socks -> SocketObjects]
      /\ \A s \in Socks : sock[s].live => sock'[s].live
  BY WrapKeeps DEF fdVars
<1>2. CallsInv'
  BY <1>1, InUseLive, CallsStay DEF waitVars, Quiet
<1> QED BY <1>1, <1>2 DEF SocketInv, SocketTypes, fdVars, waitVars

(* close(fd). *)
LEMMA CloseRawSteps ==
    ASSUME SocketInv, NEW g \in Greenlets, NEW d \in raw, CloseRaw(g, d) PROVE SocketInv'
<1> USE DEF CloseRaw, history, objects
<1>1. raw \subseteq Descs /\ d \in Descs /\ raw' \subseteq Descs
  BY DEF SocketInv, SocketTypes
<1>2. PICK x \in Loose : x = RawHolding(d) /\ Loose' = Loose \ {x}
  BY <1>1, LessRaw
<1>3. Same(x, d) /\ ~x.known
  BY <1>2, LooseHoldingIs
<1>4. HeldInv' /\ open' \in [Fds -> 0..MaxGen]
  BY <1>1, <1>2, <1>3, LooseCloses
<1>5. CallsInv'
  BY InUseLive, CallsStay DEF waitVars, Quiet
<1> QED BY <1>1, <1>4, <1>5 DEF SocketInv, SocketTypes

(* All of them. *)
LEMMA ProgramStepKeeps == ASSUME SocketInv, ProgramStep PROVE SocketInv'
BY NewSocketKeeps, MakeFileKeeps, TransferKeeps, CloseKeeps, CloseFileKeeps, DetachSteps, WrapSteps,
   CloseRawSteps DEF ProgramStep

(* The C object of a dropped socket closes its number. *)
LEMMA FinalizesDroppedKeeps ==
    ASSUME SocketInv, NEW d \in dropped, FinalizesDropped(d) PROVE SocketInv'
<1> USE DEF FinalizesDropped, history
<1>1. dropped \subseteq Descs /\ d \in Descs /\ dropped' \subseteq Descs
  BY DEF SocketInv, SocketTypes
<1>2. PICK x \in Loose : x = DroppedHolding(d) /\ Loose' = Loose \ {x}
  BY <1>1, LessDropped
<1>3. Same(x, d) /\ ~x.known
  BY <1>2, LooseHoldingIs
<1>4. HeldInv' /\ open' \in [Fds -> 0..MaxGen]
  BY <1>1, <1>2, <1>3, LooseCloses
<1>5. CallsInv'
  BY InUseLive, CallsStay DEF waitVars, Quiet
<1> QED BY <1>1, <1>4, <1>5 DEF SocketInv, SocketTypes, waitVars

(* So does that of a closed one, for the second time or the first. *)
LEMMA FinalizesClosedKeeps ==
    ASSUME SocketInv, NEW d \in kept, FinalizesClosed(d) PROVE SocketInv'
<1>1. /\ HeldInv' /\ open' \in [Fds -> 0..MaxGen] /\ kept' \subseteq Descs
      /\ struck' \in BOOLEAN /\ (~struck' => ~struck)
  BY ClosesAgain
<1> USE DEF FinalizesClosed
<1>2. CallsInv'
  BY <1>1, InUseLive, CallsStay DEF waitVars, Quiet
<1> QED BY <1>1, <1>2 DEF SocketInv, SocketTypes, waitVars

-----------------------------------------------------------------------------
(* The steps of calls that wait.                                           *)

(* The call of who is in none. *)
LEMMA NoCallIs ==
    /\ NoCall \in Calls /\ NoCall.op = "none" /\ NoCall.sock = 0 /\ NoCall.job = 0
    /\ NoCall.left = 0 /\ NoCall.create = FALSE
BY DEF NoCall, Calls, Ops

(* Who goes into no call, or into one without a socket, while no socket    *)
(* that somebody has goes away.                                            *)
LEMMA FitsNone ==
    ASSUME SocketInv, NEW g \in Greenlets, NEW c, c.sock = 0, c.op \notin SockOps, c.create = FALSE,
           \A h \in Greenlets \ {g} : call[h].sock # 0 => sock'[call[h].sock].live
    PROVE  FitsIn(g, c)
BY DEF FitsIn

(* A call returns without having changed any socket. *)
LEMMA ReturnKeeps ==
    ASSUME SocketInv, NEW g \in Greenlets, Returns(g), call[g].job = 0,
           UNCHANGED <<history, open, conn, closes, job, sock, raw, late, kept, dropped>>
    PROVE  SocketInv'
<1> USE DEF history
<1>1. FitsIn(g, NoCall)
  BY InUseLive, NoCallIs, FitsNone DEF SockOps
<1>2. CallsInv' /\ call' \in [Greenlets -> Calls] /\ ready' \subseteq Greenlets
  BY <1>1, NoCallIs, CallMoves DEF Returns, JobOps, Quiet
<1>3. HeldInv'
  BY DEF SocketInv, HeldInv, Holdings, Loose, SocketsOK
<1> QED BY <1>2, <1>3 DEF SocketInv, SocketTypes

(* Whose call is one of these is not waiting for a lookup. *)
LEMMA NoLookup ==
    ASSUME SocketInv, NEW g \in Greenlets, call[g].op \notin JobOps
    PROVE  call[g].job = 0
BY DEF SocketInv, CallsInv, CallOK

(* accept() without a connection. *)
LEMMA AcceptFailsKeeps == ASSUME SocketInv, NEW g \in Greenlets, AcceptFails(g) PROVE SocketInv'
BY NoLookup, ReturnKeeps DEF AcceptFails, Resumes, fdVars, objects, JobOps

(* create_connection has nothing left to try. *)
LEMMA NoAddressKeeps == ASSUME SocketInv, NEW g \in Greenlets, NoAddress(g) PROVE SocketInv'
BY NoLookup, ReturnKeeps DEF NoAddress, fdVars, objects, JobOps

(* connect() has succeeded. *)
LEMMA ConnectReturnsKeeps == ASSUME SocketInv, NEW g \in Greenlets, ConnectReturns(g) PROVE SocketInv'
BY NoLookup, ReturnKeeps DEF ConnectReturns, Resumes, fdVars, objects, JobOps

(* accept() begins. *)
LEMMA AcceptKeeps ==
    ASSUME SocketInv, NEW g \in Greenlets, NEW s \in Socks, Accept(g, s) PROVE SocketInv'
<1> USE DEF Accept, history, objects
<1>1. /\ Books(HoldingsOf(sock', closes, Loose, job), open, conn', kept, struck)
      /\ SocketsOK' /\ conn' \in [Fds -> 0..Left]
      /\ sock' \in [Socks -> SocketObjects]
      /\ \A t \in Socks : sock[t].live => sock'[t].live
  BY SocketRegisters DEF Usable
<1>2. HeldInv'
  BY <1>1 DEF HeldInv, Holdings, Loose
<1>3. PICK c \in Calls : /\ c = [NoCall EXCEPT !.op = "accept", !.sock = s]
                         /\ c.op = "accept" /\ c.sock = s /\ c.job = 0
  <2>1. PICK c : c = [NoCall EXCEPT !.op = "accept", !.sock = s]
    OBVIOUS
  <2>2. c \in Calls /\ c.op = "accept" /\ c.sock = s /\ c.job = 0
    BY <2>1 DEF NoCall, Calls, Ops
  <2> QED BY <2>1, <2>2
<1>4. FitsIn(g, c)
  BY <1>1, <1>3, InUseLive, NumbersPositive DEF FitsIn, SockOps, InUse, Usable
<1>5. CallsInv' /\ call' \in [Greenlets -> Calls] /\ ready' \subseteq Greenlets
  BY <1>3, <1>4, IdleHasNothing, CallMoves DEF JobOps, Quiet
<1> QED BY <1>1, <1>2, <1>5 DEF SocketInv, SocketTypes

(* accept() with a connection, in time or too late. *)
LEMMA AcceptReturnsKeeps == ASSUME SocketInv, NEW g \in Greenlets, AcceptReturns(g) PROVE SocketInv'
<1> USE DEF history, objects
<1>1. PICK d \in Descs : d = NewDesc(Unreaped) /\ open[d.fd] = 0 /\ ~Meant(d)
  BY NewDescIs DEF SocketInv, AcceptReturns
<1>2. /\ Opens({d}) /\ conn' = [conn EXCEPT ![d.fd] = d.gen]
      /\ UNCHANGED <<thrown, struck, closes, job, raw, kept, dropped>>
  BY <1>1 DEF AcceptReturns
<1>3. /\ HeldInv' /\ open' \in [Fds -> 0..MaxGen] /\ conn' \in [Fds -> 0..Left]
      /\ sock' \in [Socks -> SocketObjects] /\ late' \subseteq Descs
      /\ \A s \in Socks : sock[s].live => sock'[s].live
  <2>1. CASE CanMake /\ sock' = [sock EXCEPT ![NextSock] = SocketOf(d, TRUE)] /\ UNCHANGED late
    <3>1. late' \subseteq Descs
      BY <2>1 DEF SocketInv, SocketTypes
    <3> QED BY <1>1, <1>2, <2>1, <3>1, SocketOpens
  <2>2. CASE late' = late \cup {d} /\ UNCHANGED sock
    <3>1. sock' \in [Socks -> SocketObjects] /\ \A s \in Socks : sock[s].live => sock'[s].live
      BY <2>2 DEF SocketInv, SocketTypes
    <3> QED BY <1>1, <1>2, <2>2, <3>1, LateKeeps
  <2> QED BY <1>1, <2>1, <2>2 DEF AcceptReturns
<1>4. FitsIn(g, NoCall)
  BY <1>3, InUseLive, NoCallIs, FitsNone DEF SockOps
<1>5. CallsInv' /\ call' \in [Greenlets -> Calls] /\ ready' \subseteq Greenlets
  BY <1>2, <1>4, NoLookup, NoCallIs, CallMoves DEF AcceptReturns, Resumes, Returns, JobOps, Quiet
<1> QED BY <1>2, <1>3, <1>5 DEF SocketInv, SocketTypes

(* getaddrinfo(), and what create_connection begins with. *)
LEMMA LookupKeeps == ASSUME SocketInv, NEW g \in Greenlets, Lookup(g) PROVE SocketInv'
<1> USE DEF Lookup, history, objects
<1>1. PICK r, w : /\ r = NewDesc({}) /\ w = NewDesc({r.fd}) /\ Opens({r, w})
                  /\ job' = [job EXCEPT ![NewJob] = [Unborn EXCEPT !.state = "running", !.r = r, !.w = w]]
  BY DEF StartsLookup
<1>2. /\ Books(HoldingsOf(sock, closes, Loose, job'), open', conn, kept, struck)
      /\ open' \in [Fds -> 0..MaxGen] /\ r \in Descs /\ w \in Descs
  <2>1. conn \in [Fds -> 0..Left] /\ Books(HoldingsOf(sock, closes, Loose, job), open, conn, kept, struck)
    BY DEF SocketInv, SocketTypes, HeldInv, Holdings
  <2> QED BY <1>1, <2>1, PipeOpens
<1>3. HeldInv'
  BY <1>2 DEF SocketInv, HeldInv, Holdings, Loose, SocketsOK
<1>4. PICK c \in Calls : /\ c = [NoCall EXCEPT !.op = "lookup"]
                         /\ c.op = "lookup" /\ c.sock = 0 /\ c.job = 0 /\ ~c.create
  <2>1. PICK c : c = [NoCall EXCEPT !.op = "lookup"]
    OBVIOUS
  <2>2. c \in Calls /\ c.op = "lookup" /\ c.sock = 0 /\ c.job = 0 /\ ~c.create
    BY <2>1 DEF NoCall, Calls, Ops
  <2> QED BY <2>1, <2>2
<1>5. FitsIn(g, c)
  BY <1>4, InUseLive DEF FitsIn, SockOps
<1>6. Waits(g, [c EXCEPT !.job = NewJob])
  BY <1>4 DEF StartsLookup
<1>7. /\ CallsInv' /\ call' \in [Greenlets -> Calls] /\ ready' \subseteq Greenlets
      /\ job' \in [Jobs -> Lookups]
  <2>1. Quiet' => Quiet
    BY DEF Quiet
  <2> QED BY <1>1, <1>2, <1>4, <1>5, <1>6, <2>1, IdleHasNothing, CallLooksUp DEF JobOps
<1> QED BY <1>2, <1>3, <1>7 DEF SocketInv, SocketTypes

(* A lookup of a call is over, or given up; the call goes on as c. *)
LEMMA LookupEnds ==
    ASSUME SocketInv, NEW g \in Greenlets, call[g].job # 0, EndsLookup(g),
           NEW c \in Calls, Waits(g, c), c.job = 0, c.op \notin JobOps, FitsIn(g, c),
           thrown' \in Nat, Quiet' => Quiet /\ g \in ready,
           UNCHANGED <<struck, conn, closes, sock, raw, late, kept, dropped>>
    PROVE  SocketInv'
<1>1. HeldInv' /\ open' \in [Fds -> 0..MaxGen]
  <2>1. /\ Books(HoldingsOf(sock, closes, Loose, job'), open', conn, kept, struck)
        /\ open' \in [Fds -> 0..MaxGen]
    BY PipeCloses
  <2> QED BY <2>1 DEF SocketInv, HeldInv, Holdings, Loose, SocketsOK
<1>2. /\ CallsInv' /\ call' \in [Greenlets -> Calls] /\ ready' \subseteq Greenlets
      /\ job' \in [Jobs -> Lookups]
  BY LookupLeaves
<1> QED BY <1>1, <1>2 DEF SocketInv, SocketTypes

(* Whose call is one of these has a lookup. *)
LEMMA HasLookup ==
    ASSUME SocketInv, NEW g \in Greenlets, call[g].op \in JobOps
    PROVE  call[g].job # 0 /\ (call[g].op = "resolve" <=> call[g].sock # 0)
BY DEF SocketInv, CallsInv, CallOK, JobOps, SockOps

(* The lookup of create_connection or of getaddrinfo() has answered. *)
LEMMA LookupReturnsKeeps == ASSUME SocketInv, NEW g \in Greenlets, LookupReturns(g) PROVE SocketInv'
<1> USE DEF LookupReturns, history, objects
<1>1. PICK n \in 0..Addresses :
        Waits(g, IF n = 0 THEN NoCall ELSE [NoCall EXCEPT !.op = "next", !.left = n])
  OBVIOUS
<1>2. PICK c \in Calls : Waits(g, c) /\ c.job = 0 /\ c.sock = 0 /\ c.op \in {"none", "next"} /\ ~c.create
  <2>1. PICK c : c = IF n = 0 THEN NoCall ELSE [NoCall EXCEPT !.op = "next", !.left = n]
    OBVIOUS
  <2>2. c \in Calls /\ c.job = 0 /\ c.sock = 0 /\ c.op \in {"none", "next"} /\ ~c.create
    <3>1. n \in Nat
      BY SocketAssumption
    <3>2. CASE n = 0
      BY <2>1, <3>2, NoCallIs
    <3>3. CASE n # 0
      <4>1. c = [NoCall EXCEPT !.op = "next", !.left = n]
        BY <2>1, <3>3
      <4> QED BY <3>1, <4>1 DEF NoCall, Calls, Ops
    <3> QED BY <3>2, <3>3
  <2> QED BY <1>1, <2>1, <2>2
<1>3. FitsIn(g, c)
  BY <1>2, InUseLive DEF FitsIn, SockOps
<1>4. call[g].job # 0
  BY HasLookup DEF Resumes, JobOps
<1>5. thrown' \in Nat /\ (Quiet' => Quiet /\ g \in ready)
  BY DEF SocketInv, SocketTypes, Resumes, Quiet
<1> QED BY <1>2, <1>3, <1>4, <1>5, LookupEnds DEF JobOps

(* The lookup in connect() is over, or given up, and connect() goes on. *)
LEMMA ResolveEnds ==
    ASSUME SocketInv, NEW g \in Greenlets, call[g].op = "resolve", EndsLookup(g),
           NEW op \in SockOps \ JobOps, Waits(g, [call[g] EXCEPT !.op = op, !.job = 0]),
           thrown' \in Nat, Quiet' => Quiet /\ g \in ready,
           UNCHANGED <<struck, conn, closes, sock, raw, late, kept, dropped>>
    PROVE  SocketInv'
<1>1. call[g] \in Calls
  BY DEF SocketInv, SocketTypes
<1>2. PICK c \in Calls : Waits(g, c) /\ c.job = 0 /\ c.sock = call[g].sock /\ c.op = op
  <2>1. PICK c : c = [call[g] EXCEPT !.op = op, !.job = 0]
    OBVIOUS
  <2>2. c \in Calls /\ c.job = 0 /\ c.sock = call[g].sock /\ c.op = op
    BY <1>1, <2>1 DEF Calls, Ops, SockOps
  <2> QED BY <2>1, <2>2
<1>3. call[g].job # 0 /\ call[g].sock # 0
  BY HasLookup DEF JobOps
<1>4. FitsIn(g, c)
  <2>1. \A h \in Greenlets \ {g} : call[h].sock # call[g].sock
    BY <1>3 DEF SocketInv, CallsInv, Alone
  <2> QED BY <1>2, <1>3, <2>1, InUseLive DEF FitsIn
<1> QED BY <1>2, <1>3, <1>4, LookupEnds

(* The lookup of connect() has answered. *)
LEMMA ConnectResolvedKeeps == ASSUME SocketInv, NEW g \in Greenlets, ConnectResolved(g) PROVE SocketInv'
<1> USE DEF ConnectResolved, history, objects
<1>1. PICK op \in {"connect", "failed", "raised"} : Waits(g, [call[g] EXCEPT !.op = op, !.job = 0])
  OBVIOUS
<1>2. thrown' \in Nat /\ (Quiet' => Quiet /\ g \in ready)
  BY DEF SocketInv, SocketTypes, Resumes, Quiet
<1>3. op \in SockOps \ JobOps
  BY DEF SockOps, JobOps
<1> QED BY <1>1, <1>2, <1>3, ResolveEnds DEF Resumes

(* create_connection makes a socket for an address. *)
LEMMA NextAddressKeeps == ASSUME SocketInv, NEW g \in Greenlets, NextAddress(g) PROVE SocketInv'
<1> USE DEF NextAddress, history, objects
<1>1. PICK d \in Descs : d = NewDesc({}) /\ open[d.fd] = 0 /\ ~Meant(d)
  BY NewDescIs DEF SocketInv
<1>2. PICK n \in Socks : n = NextSock /\ ~sock[n].live
  BY NextSockIs
<1>3. /\ HeldInv' /\ open' \in [Fds -> 0..MaxGen] /\ conn' \in [Fds -> 0..Left]
      /\ sock' \in [Socks -> SocketObjects]
      /\ \A s \in Socks : sock[s].live => sock'[s].live
      /\ sock'[n].live
  BY <1>1, <1>2, SocketOpens
<1>4. call[g] \in Calls /\ call[g].left > 0
  BY DEF SocketInv, SocketTypes
<1>5. PICK c \in Calls : Waits(g, c) /\ c.job = 0 /\ c.sock = n /\ c.op = "connecting"
  <2>1. PICK c : c = [NoCall EXCEPT !.op = "connecting", !.sock = n, !.left = call[g].left - 1, !.create = TRUE]
    OBVIOUS
  <2>2. c \in Calls /\ c.job = 0 /\ c.sock = n /\ c.op = "connecting"
    <3>1. call[g].left \in Nat /\ call[g].left - 1 \in Nat
      BY <1>4 DEF Calls
    <3> QED BY <2>1, <3>1 DEF NoCall, Calls, Ops
  <2> QED BY <1>2, <2>1, <2>2
<1>6. FitsIn(g, c)
  <2>1. \A h \in Greenlets : call[h].sock # n
    BY <1>2, InUseLive, NumbersPositive
  <2> QED BY <1>3, <1>5, <2>1, InUseLive, NumbersPositive DEF FitsIn, SockOps
<1>7. call[g].job = 0
  BY NoLookup DEF JobOps
<1>8. CallsInv' /\ call' \in [Greenlets -> Calls] /\ ready' \subseteq Greenlets
  BY <1>5, <1>6, <1>7, CallMoves DEF JobOps, Quiet
<1> QED BY <1>3, <1>8 DEF SocketInv, SocketTypes

(* connect() of a socket that nobody else is using, up to its wait. *)
LEMMA LooksUpKeeps ==
    ASSUME SocketInv, NEW g \in Greenlets, NEW c \in Calls, LooksUp(g, c),
           c.sock \in Socks, sock[c.sock].live, c.job = 0, call[g].job = 0,
           \A h \in Greenlets \ {g} : call[h].sock # c.sock
    PROVE  SocketInv'
<1>1. PICK s \in Socks : s = c.sock /\ sock[s].live
  OBVIOUS
<1>2. /\ Books(HoldingsOf(sock', closes, Loose, job), open, conn', kept, struck)
      /\ SocketsOK' /\ conn' \in [Fds -> 0..Left]
      /\ sock' \in [Socks -> SocketObjects]
      /\ \A t \in Socks : sock[t].live => sock'[t].live
      /\ \A t \in Socks : sock'[t].live => sock'[t].desc = sock[t].desc
  <2>1. EnsureRegistered(s) /\ sock' = [sock EXCEPT ![s] = Ensured(@)]
    BY <1>1 DEF LooksUp
  <2> QED BY <1>1, <2>1, SocketRegisters
<1>3. \A op \in SockOps : \A v \in Calls : v.op = op /\ v.sock = s => FitsIn(g, v)
  BY <1>1, <1>2, InUseLive, NumbersPositive DEF FitsIn
<1>4. UNCHANGED <<thrown, struck, closes, raw, late, kept, dropped>> /\ (Quiet' => Quiet)
  BY DEF LooksUp, history, objects, Quiet
<1>5. CASE CanLookup /\ StartsLookup(g, [c EXCEPT !.op = "resolve"])
  <2>1. PICK r, w : /\ r = NewDesc({}) /\ w = NewDesc({r.fd}) /\ Opens({r, w})
                    /\ job' = [job EXCEPT ![NewJob] = [Unborn EXCEPT !.state = "running", !.r = r, !.w = w]]
    BY <1>5 DEF StartsLookup
  <2>2. PICK cn : cn = conn'
    OBVIOUS
  <2>3. PICK sk : sk = sock'
    OBVIOUS
  <2>4. /\ Books(HoldingsOf(sk, closes, Loose, job'), open', cn, kept, struck)
        /\ open' \in [Fds -> 0..MaxGen] /\ r \in Descs /\ w \in Descs
    BY <1>2, <1>5, <2>1, <2>2, <2>3, PipeOpens
  <2>5. HeldInv'
    BY <1>2, <1>4, <2>2, <2>3, <2>4 DEF HeldInv, Holdings, Loose
  <2>6. PICK v \in Calls : v = [c EXCEPT !.op = "resolve"] /\ v.op = "resolve" /\ v.sock = s /\ v.job = 0
    <3>1. PICK v : v = [c EXCEPT !.op = "resolve"]
      OBVIOUS
    <3>2. v \in Calls /\ v.op = "resolve" /\ v.sock = s /\ v.job = 0
      BY <1>1, <3>1 DEF Calls, Ops
    <3> QED BY <3>1, <3>2
  <2>7. Waits(g, [v EXCEPT !.job = NewJob])
    BY <1>5, <2>6 DEF StartsLookup
  <2>8. FitsIn(g, v)
    BY <1>3, <2>6 DEF SockOps
  <2>9. /\ CallsInv' /\ call' \in [Greenlets -> Calls] /\ ready' \subseteq Greenlets
        /\ job' \in [Jobs -> Lookups]
    BY <1>4, <1>5, <2>1, <2>4, <2>6, <2>7, <2>8, CallLooksUp DEF JobOps
  <2> QED BY <1>2, <1>4, <2>4, <2>5, <2>9 DEF SocketInv, SocketTypes
<1>6. ASSUME NEW op \in {"failed", "connect"}, Waits(g, [c EXCEPT !.op = op]), UNCHANGED <<open, job>>
      PROVE  SocketInv'
  <2>1. PICK v \in Calls : Waits(g, v) /\ v.op = op /\ v.sock = s /\ v.job = 0
    <3>1. PICK v : v = [c EXCEPT !.op = op]
      OBVIOUS
    <3>2. v \in Calls /\ v.op = op /\ v.sock = s /\ v.job = 0
      BY <1>1, <3>1 DEF Calls, Ops
    <3> QED BY <1>6, <3>1, <3>2
  <2>2. FitsIn(g, v)
    BY <1>3, <2>1 DEF SockOps
  <2>3. CallsInv' /\ call' \in [Greenlets -> Calls] /\ ready' \subseteq Greenlets
    BY <1>4, <1>6, <2>1, <2>2, CallMoves DEF JobOps
  <2>4. HeldInv'
    BY <1>2, <1>4, <1>6 DEF HeldInv, Holdings, Loose
  <2> QED BY <1>2, <1>4, <1>6, <2>3, <2>4 DEF SocketInv, SocketTypes
<1> QED BY <1>5, <1>6 DEF LooksUp

(* connect(). *)
LEMMA ConnectKeeps == ASSUME SocketInv, NEW g \in Greenlets, NEW s \in Socks, Connect(g, s) PROVE SocketInv'
<1>1. PICK c \in Calls : LooksUp(g, c) /\ c.sock = s /\ c.job = 0
  <2>1. PICK c : c = [NoCall EXCEPT !.sock = s]
    OBVIOUS
  <2>2. c \in Calls /\ c.sock = s /\ c.job = 0
    BY <2>1 DEF NoCall, Calls, Ops
  <2> QED BY <2>1, <2>2 DEF Connect
<1>2. sock[s].live /\ call[g].job = 0 /\ \A h \in Greenlets \ {g} : call[h].sock # s
  BY IdleHasNothing DEF Connect, Usable, InUse
<1> QED BY <1>1, <1>2, LooksUpKeeps

(* create_connection connects the socket that it has made. *)
LEMMA ConnectLooksUpKeeps == ASSUME SocketInv, NEW g \in Greenlets, ConnectLooksUp(g) PROVE SocketInv'
<1>1. call[g] \in Calls /\ call[g].sock # 0 /\ call[g].job = 0
  BY DEF SocketInv, SocketTypes, CallsInv, CallOK, ConnectLooksUp, SockOps, JobOps
<1>2. \A h \in Greenlets \ {g} : call[h].sock # call[g].sock
  BY <1>1 DEF SocketInv, CallsInv, Alone
<1>3. call[g].sock \in Socks /\ sock[call[g].sock].live
  BY <1>1, InUseLive
<1>4. PICK c \in Calls : c = call[g]
  BY <1>1
<1> QED BY <1>1, <1>2, <1>3, <1>4, LooksUpKeeps DEF ConnectLooksUp

(* connect() has failed; create_connection closes the socket. *)
LEMMA ConnectFailsKeeps == ASSUME SocketInv, NEW g \in Greenlets, ConnectFails(g) PROVE SocketInv'
<1>1. call[g] \in Calls /\ call[g].sock # 0 /\ call[g].job = 0
  BY DEF SocketInv, SocketTypes, CallsInv, CallOK, ConnectFails, Resumes, SockOps, JobOps
<1>2. UNCHANGED <<thrown, struck, conn, job, raw, late, dropped>> /\ (Quiet' => Quiet)
  BY DEF ConnectFails, history, Quiet
<1>3. CASE call[g].create
  <2>1. PICK s \in Socks : s = call[g].sock /\ sock[s].live
    BY <1>1, InUseLive
  <2>2. ReallyCloses(s)
    BY <1>3, <2>1 DEF ConnectFails, Raises
  <2>3. /\ HeldInv' /\ open' \in [Fds -> 0..MaxGen] /\ closes' \subseteq Sqes
        /\ kept' \subseteq Descs /\ sock' \in [Socks -> SocketObjects]
        /\ \A t \in Socks \ {s} : sock'[t] = sock[t]
    BY <1>2, <2>1, <2>2, SocketCloses
  <2>4. PICK c \in Calls : Waits(g, c) /\ c.job = 0 /\ c.sock = 0 /\ c.op = "next" /\ ~c.create
    <3>1. PICK c : c = [NoCall EXCEPT !.op = "next", !.left = call[g].left]
      OBVIOUS
    <3>2. c \in Calls /\ c.job = 0 /\ c.sock = 0 /\ c.op = "next" /\ ~c.create
      BY <1>1, <3>1 DEF NoCall, Calls, Ops
    <3> QED BY <1>3, <3>1, <3>2 DEF ConnectFails, Raises
  <2>5. FitsIn(g, c)
    <3>1. \A h \in Greenlets \ {g} : call[h].sock # s
      BY <1>1, <2>1 DEF SocketInv, CallsInv, Alone
    <3> QED BY <2>3, <2>4, <3>1, InUseLive DEF FitsIn, SockOps
  <2>6. CallsInv' /\ call' \in [Greenlets -> Calls] /\ ready' \subseteq Greenlets
    BY <1>1, <1>2, <2>4, <2>5, CallMoves DEF JobOps
  <2> QED BY <1>2, <2>3, <2>6 DEF SocketInv, SocketTypes
<1>4. CASE ~call[g].create
  BY <1>1, <1>2, <1>4, ReturnKeeps DEF ConnectFails, Raises, history
<1> QED BY <1>3, <1>4

(* What is no OSError passes out of create_connection. What becomes of a   *)
(* lookup in the step is left open.                                        *)
LEMMA AttemptEscapes ==
    ASSUME SocketInv, NEW g \in Greenlets, call[g].create, Escapes(g), UNCHANGED <<raw, late>>,
           NEW jb, NEW o, Books(HoldingsOf(sock, closes, Loose, jb), o, conn, kept, struck)
    PROVE  /\ Books(HoldingsOf(sock', closes, Loose', jb), o, conn', kept, struck)
           /\ SocketsOK' /\ conn' \in [Fds -> 0..Left]
           /\ dropped' \subseteq Descs /\ sock' \in [Socks -> SocketObjects]
           /\ Waits(g, NoCall) /\ FitsIn(g, NoCall)
<1>1. call[g].sock # 0
  BY DEF SocketInv, CallsInv, CallOK
<1>2. PICK s \in Socks : s = call[g].sock /\ sock[s].live
  BY <1>1, InUseLive
<1>3. /\ dropped' = dropped \cup {sock[s].desc}
      /\ conn' = [conn EXCEPT ![sock[s].desc.fd] = IF @ = sock[s].desc.gen THEN Left ELSE @]
      /\ sock' = [sock EXCEPT ![s] = NoSocket]
  BY <1>2 DEF Escapes
<1>4. /\ Books(HoldingsOf(sock', closes, Loose', jb), o, conn', kept, struck)
      /\ SocketsOK' /\ conn' \in [Fds -> 0..Left]
      /\ dropped' \subseteq Descs /\ sock' \in [Socks -> SocketObjects]
      /\ \A t \in Socks \ {s} : sock'[t] = sock[t]
  BY <1>2, <1>3, AttemptDropped
<1>5. FitsIn(g, NoCall)
  <2>1. \A h \in Greenlets \ {g} : call[h].sock # s
    BY <1>1, <1>2 DEF SocketInv, CallsInv, Alone
  <2> QED BY <1>4, <2>1, InUseLive, NoCallIs, FitsNone DEF SockOps
<1> QED BY <1>4, <1>5 DEF Escapes, Returns

(* A call raises a RuntimeError, or is thrown out of its wait. *)
LEMMA ConnectEscapesKeeps == ASSUME SocketInv, NEW g \in Greenlets, ConnectEscapes(g) PROVE SocketInv'
<1>1. /\ UNCHANGED <<thrown, struck, open, closes, job, raw, late, kept>> /\ Escapes(g)
      /\ call[g].op \in {"raised", "connect"} /\ (Quiet' => Quiet)
  BY DEF ConnectEscapes, history, Quiet
<1>2. call[g].job = 0
  BY <1>1, NoLookup DEF JobOps
<1>3. CASE call[g].create
  <2>1. /\ Books(HoldingsOf(sock', closes, Loose', job), open, conn', kept, struck)
        /\ SocketsOK' /\ conn' \in [Fds -> 0..Left]
        /\ dropped' \subseteq Descs /\ sock' \in [Socks -> SocketObjects]
        /\ Waits(g, NoCall) /\ FitsIn(g, NoCall)
    <3>1. Books(HoldingsOf(sock, closes, Loose, job), open, conn, kept, struck)
      BY DEF SocketInv, HeldInv, Holdings
    <3> QED BY <1>1, <1>3, <3>1, AttemptEscapes
  <2>2. CallsInv' /\ call' \in [Greenlets -> Calls] /\ ready' \subseteq Greenlets
    BY <1>1, <1>2, <2>1, NoCallIs, CallMoves DEF JobOps
  <2>3. HeldInv'
    BY <1>1, <2>1 DEF HeldInv, Holdings
  <2> QED BY <1>1, <2>1, <2>2, <2>3 DEF SocketInv, SocketTypes
<1>4. CASE ~call[g].create
  BY <1>1, <1>2, <1>4, ReturnKeeps DEF Escapes, history
<1> QED BY <1>3, <1>4

(* A lookup is given up, in create_connection before or after it has made  *)
(* a socket, in connect(), or by itself.                                   *)
LEMMA GivesUpKeeps == ASSUME SocketInv, NEW g \in Greenlets, GivesUp(g) PROVE SocketInv'
<1>1. /\ EndsLookup(g) /\ UNCHANGED <<struck, closes, raw, late, kept>>
      /\ call[g].op \in JobOps /\ thrown' = thrown + 1
  BY DEF GivesUp, JobOps
<1>2. call[g].job # 0
  BY <1>1, HasLookup
<1>3. thrown' \in Nat /\ ~Quiet'
  BY <1>1 DEF SocketInv, SocketTypes, Quiet
<1>4. CASE Escapes(g) /\ call[g].create
  <2>1. PICK jb, o : jb = job' /\ o = open'
    OBVIOUS
  <2>2. Books(HoldingsOf(sock, closes, Loose, jb), o, conn, kept, struck) /\ open' \in [Fds -> 0..MaxGen]
    BY <1>1, <1>2, <2>1, PipeCloses
  <2>3. /\ Books(HoldingsOf(sock', closes, Loose', jb), o, conn', kept, struck)
        /\ SocketsOK' /\ conn' \in [Fds -> 0..Left]
        /\ dropped' \subseteq Descs /\ sock' \in [Socks -> SocketObjects]
        /\ Waits(g, NoCall) /\ FitsIn(g, NoCall)
    BY <1>1, <1>4, <2>2, AttemptEscapes
  <2>4. /\ CallsInv' /\ call' \in [Greenlets -> Calls] /\ ready' \subseteq Greenlets
        /\ job' \in [Jobs -> Lookups]
    BY <1>1, <1>2, <1>3, <2>3, NoCallIs, LookupLeaves DEF JobOps
  <2>5. HeldInv'
    BY <1>1, <2>1, <2>3 DEF HeldInv, Holdings
  <2> QED BY <1>1, <1>3, <2>2, <2>3, <2>4, <2>5 DEF SocketInv, SocketTypes
<1>5. CASE Escapes(g) /\ ~call[g].create
  <2>1. Waits(g, NoCall) /\ UNCHANGED <<dropped, conn, sock>>
    BY <1>5 DEF Escapes, Returns
  <2>2. FitsIn(g, NoCall)
    BY <2>1, InUseLive, NoCallIs, FitsNone DEF SockOps
  <2> QED BY <1>1, <1>2, <1>3, <2>1, <2>2, NoCallIs, LookupEnds DEF JobOps
<1>6. CASE /\ call[g].op = "resolve"
           /\ Waits(g, [call[g] EXCEPT !.op = "failed", !.job = 0])
           /\ UNCHANGED <<dropped, conn, sock>>
  <2>1. PICK op \in SockOps \ JobOps : op = "failed"
    BY DEF SockOps, JobOps
  <2> QED BY <1>1, <1>3, <1>6, <2>1, ResolveEnds
<1> QED BY <1>4, <1>5, <1>6 DEF GivesUp

(* All of them. *)
LEMMA CallStepKeeps == ASSUME SocketInv, CallStep PROVE SocketInv'
BY AcceptKeeps, ConnectKeeps, AcceptReturnsKeeps, AcceptFailsKeeps, LookupKeeps, LookupReturnsKeeps,
   GivesUpKeeps, NextAddressKeeps, NoAddressKeeps, ConnectLooksUpKeeps, ConnectResolvedKeeps,
   ConnectReturnsKeeps, ConnectFailsKeeps, ConnectEscapesKeeps DEF CallStep

-----------------------------------------------------------------------------
(* The steps of the hub and of threads.                                    *)

(* The closes are executed while a greenlet runs. *)
LEMMA SubmitsKeeps == ASSUME SocketInv, Submits PROVE SocketInv'
<1> USE DEF Submits, waitVars, holders, objects
<1>1. conn' \in [Fds -> 0..Left]
  BY DescriptorsAssumption DEF SocketInv, SocketTypes, Gone, Left
<1>2. \A fd \in Fds :
        \/ conn'[fd] = conn[fd] /\ fd \notin Tracked
        \/ conn'[fd] \in {0, Gone} /\ (conn[fd] = Gone \/ fd \in Tracked)
  OBVIOUS
<1>3. /\ HeldInv' /\ open' \in [Fds -> 0..MaxGen]
      /\ struck' \in BOOLEAN /\ (~struck' => ~struck)
  BY <1>1, <1>2, Submitted
<1>4. CallsInv'
  BY <1>3, InUseLive, CallsStay DEF Quiet
<1>5. closes' = {}
  BY DEF Executes
<1> QED BY <1>1, <1>3, <1>4, <1>5 DEF SocketInv, SocketTypes

(* The hub executes and reaps the closes, and resumes some who wait. *)
LEMMA HubTurnKeeps == ASSUME SocketInv, HubTurn(MayEnd) PROVE SocketInv'
<1> USE DEF HubTurn, holders, objects
<1>1. conn' \in [Fds -> 0..Left]
  BY DescriptorsAssumption DEF SocketInv, SocketTypes, Gone, Left
<1>2. \A fd \in Fds :
        \/ conn'[fd] = conn[fd] /\ fd \notin Tracked
        \/ conn'[fd] \in {0, Gone} /\ (conn[fd] = Gone \/ fd \in Tracked)
  BY DEF Unreaped
<1>3. /\ HeldInv' /\ open' \in [Fds -> 0..MaxGen]
      /\ struck' \in BOOLEAN /\ (~struck' => ~struck)
  BY <1>1, <1>2, Submitted
<1>4. ready' \subseteq MayEnd
  OBVIOUS
<1>5. UNCHANGED <<thrown, call, job, sock>> /\ (Quiet' => Quiet)
  BY <1>3 DEF Quiet
<1>6. (\A g \in Greenlets : CallOK(g))'
  BY <1>4, <1>5 DEF SocketInv, CallsInv, CallOK, MayEnd, Announced
<1>7. Alone' /\ (\A j \in Jobs : JobOK(j))'
  BY <1>5 DEF SocketInv, CallsInv, Alone, JobOK
<1>8. CallsInv'
  BY <1>6, <1>7 DEF CallsInv
<1>9. ready' \subseteq Greenlets /\ closes' = {}
  BY <1>4 DEF MayEnd, Executes
<1> QED BY <1>1, <1>3, <1>8, <1>9 DEF SocketInv, SocketTypes

(* A thread changes what lookups have come to, and not their pipes; it is  *)
(* done with those that it forgets.                                        *)
ThreadLeaves(j, v) ==
    /\ v \in Lookups
    /\ SamePipe(job[j], v)
    /\ v.state = "unborn" => v = Unborn
    /\ v.r.gen # 0 <=> v.w.gen # 0
    /\ job[j].byte /\ v.w.gen # 0 => v.byte
    /\ Quiet => /\ v.state # "unborn" => v.w.gen # 0
                /\ v.byte => v.state = "ended"
                /\ v.state \in {"stored", "ended"} => v.full

(* Such a step keeps the invariant. *)
LEMMA ThreadKeeps ==
    ASSUME SocketInv, job' \in [Jobs -> Lookups], \A j \in Jobs : ThreadLeaves(j, job'[j]),
           UNCHANGED <<history, fdVars, waitVars, sock, raw, late, objects>>
    PROVE  SocketInv'
<1> USE DEF history, fdVars, waitVars, objects
<1>1. Holdings' = Holdings
  <2>1. \A j \in Jobs : SamePipe(job[j], job'[j])
    BY DEF ThreadLeaves
  <2>2. HoldingsOf(sock, closes, Loose, job') = HoldingsOf(sock, closes, Loose, job)
    BY <2>1, LooseNow, PipesStay
  <2>3. Loose' = Loose
    BY DEF Loose
  <2> QED BY <2>2, <2>3 DEF Holdings
<1>2. HeldInv'
  BY <1>1 DEF SocketInv, HeldInv, SocketsOK
<1>3. \A j \in Jobs : job[j].w.gen # 0 <=> job'[j].w.gen # 0
  BY DEF ThreadLeaves, SamePipe
<1>4. (\A g \in Greenlets : CallOK(g))'
  <2> SUFFICES ASSUME NEW g \in Greenlets PROVE CallOK(g)'
    OBVIOUS
  <2>1. CallOK(g) /\ (call[g].job # 0 => call[g].job \in Jobs)
    BY DEF SocketInv, SocketTypes, CallsInv, Calls
  <2>2. call[g].job # 0 => /\ job'[call[g].job].w.gen # 0
                           /\ job[call[g].job].byte => job'[call[g].job].byte
    BY <1>3, <2>1 DEF CallOK, ThreadLeaves
  <2> QED BY <2>1, <2>2 DEF CallOK
<1>5. Alone'
  BY DEF SocketInv, CallsInv, Alone
<1>6. (\A j \in Jobs : JobOK(j))'
  <2> SUFFICES ASSUME NEW j \in Jobs PROVE JobOK(j)'
    OBVIOUS
  <2>1. job'[j].w.gen # 0 => \E g \in Greenlets : call[g].job = j
    BY <1>3 DEF SocketInv, CallsInv, JobOK
  <2>2. Quiet' <=> Quiet
    BY DEF Quiet
  <2> QED BY <2>1, <2>2 DEF ThreadLeaves, JobOK
<1>7. SocketTypes'
  BY DEF SocketInv, SocketTypes
<1> QED BY <1>2, <1>4, <1>5, <1>6, <1>7 DEF SocketInv, CallsInv

(* What is known of a lookup. *)
LEMMA LookupKnown ==
    ASSUME SocketInv, NEW j \in Jobs
    PROVE  /\ job[j] \in Lookups /\ JobOK(j)
           /\ job[j].byte \in BOOLEAN /\ job[j].full \in BOOLEAN
           /\ job[j].r \in MaybeDescs /\ job[j].w \in MaybeDescs
BY DEF SocketInv, SocketTypes, CallsInv, Lookups

(* A lookup that no thread has changed. *)
LEMMA LookupLeft == ASSUME SocketInv, NEW j \in Jobs PROVE ThreadLeaves(j, job[j])
BY LookupKnown DEF ThreadLeaves, SamePipe, JobOK

(* A thread stores the answer. *)
LEMMA ThreadStoresKeeps == ASSUME SocketInv, NEW j \in Jobs, ThreadStores(j) PROVE SocketInv'
<1> USE DEF ThreadStores
<1>1. PICK v : v = [job[j] EXCEPT !.state = "stored", !.full = TRUE]
  OBVIOUS
<1>2. /\ v \in Lookups /\ v.state = "stored" /\ v.full
      /\ v.r = job[j].r /\ v.w = job[j].w /\ v.byte = job[j].byte
  BY <1>1, LookupKnown DEF Lookups
<1>3. job' = [job EXCEPT ![j] = v] /\ job \in [Jobs -> Lookups]
  BY <1>1 DEF SocketInv, SocketTypes
<1>4. ThreadLeaves(j, v)
  BY <1>2, LookupKnown DEF ThreadLeaves, SamePipe, JobOK
<1>5. \A k \in Jobs : ThreadLeaves(k, job'[k])
  BY <1>3, <1>4, LookupLeft
<1>6. job' \in [Jobs -> Lookups]
  BY <1>2, <1>3
<1> QED BY <1>5, <1>6, ThreadKeeps

(* Two lookups do not have a number in common, until a second close        *)
(* strikes.                                                                *)
LEMMA WriteEndsDiffer ==
    ASSUME SocketInv, ~struck, NEW j \in Jobs, NEW k \in Jobs,
           job[j].w.gen # 0, job[k].w.gen # 0, job[j].w.fd = job[k].w.fd
    PROVE  j = k
<1>1. PICK x \in Holdings, y \in Holdings : x = WriteHolding(j, job[j]) /\ y = WriteHolding(k, job[k])
  BY KindsDiffer DEF Holdings
<1>2. x.fd = y.fd /\ x.kind # "close" /\ y.kind # "close" /\ x.of = j /\ y.of = k
  BY <1>1 DEF WriteHolding, Holding
<1>3. open[x.fd] = x.gen /\ open[y.fd] = y.gen
  BY <1>2 DEF SocketInv, HeldInv, Books, Named, Lives
<1>4. x = y
  BY <1>2, <1>3 DEF SocketInv, HeldInv, Books, Owned, Same
<1> QED BY <1>2, <1>4

(* A thread writes its byte, to its own pipe or, when it is not quiet, to  *)
(* whichever has the number.                                               *)
LEMMA ThreadWritesKeeps == ASSUME SocketInv, NEW j \in Jobs, ThreadWrites(j) PROVE SocketInv'
<1>1. PICK reached : reached = WritesTo(job[j].w.fd)
  OBVIOUS
<1>2. /\ job[j].state = "stored"
      /\ job' = [k \in Jobs |->
                   IF k = j /\ Abandoned(j) THEN Unborn
                   ELSE [job[k] EXCEPT !.state = IF k = j THEN "ended" ELSE @,
                                       !.byte = @ \/ k \in reached]]
      /\ UNCHANGED <<history, fdVars, waitVars, sock, raw, late, objects>>
  BY <1>1 DEF ThreadWrites
<1>3. Quiet => \A k \in reached : k = j
  <2>1. Quiet => job[j].w.gen # 0
    BY <1>2, LookupKnown DEF JobOK
  <2>2. \A k \in reached : k \in Jobs /\ job[k].w.gen # 0 /\ job[k].w.fd = job[j].w.fd
    BY <1>1 DEF WritesTo, Names
  <2> QED BY <2>1, <2>2, WriteEndsDiffer DEF Quiet
<1>4. ASSUME NEW k \in Jobs PROVE job'[k] \in Lookups /\ ThreadLeaves(k, job'[k])
  <2>1. CASE k = j /\ Abandoned(j)
    <3>1. job'[k] = Unborn /\ job[k].w.gen = 0 /\ job[k].r.gen = 0
      BY <1>2, <2>1, LookupKnown DEF Abandoned, JobOK
    <3>2. ~Quiet
      BY <1>2, <2>1, <3>1, LookupKnown DEF JobOK
    <3> QED BY <3>1, <3>2, UnbornIs DEF ThreadLeaves, SamePipe
  <2>2. CASE ~(k = j /\ Abandoned(j))
    <3>1. PICK v : v = [job[k] EXCEPT !.state = IF k = j THEN "ended" ELSE @, !.byte = @ \/ k \in reached]
      OBVIOUS
    <3>2. job'[k] = v
      BY <1>2, <2>2, <3>1
    <3>3. /\ v \in Lookups /\ v.state = (IF k = j THEN "ended" ELSE job[k].state)
          /\ v.full = job[k].full /\ v.r = job[k].r /\ v.w = job[k].w
          /\ v.byte <=> job[k].byte \/ k \in reached
      BY <3>1, LookupKnown DEF Lookups
    <3>4. ThreadLeaves(k, v)
      <4>1. CASE k = j
        <5>1. v.state = "ended" /\ job[k].state = "stored" /\ JobOK(k)
          BY <1>2, <3>3, <4>1, LookupKnown
        <5>2. Quiet => v.w.gen # 0 /\ v.full
          BY <3>3, <5>1 DEF JobOK
        <5>3. SamePipe(job[k], v) /\ (v.r.gen # 0 <=> v.w.gen # 0)
          BY <3>3, <5>1 DEF SamePipe, JobOK
        <5> QED BY <3>3, <5>1, <5>2, <5>3 DEF ThreadLeaves
      <4>2. CASE k # j
        <5>1. v.state = "unborn" => v = Unborn
          <6>1. v.state = "unborn" => job[k] = Unborn
            BY <3>3, <4>2, LookupKnown DEF JobOK
          <6>2. job[k] = Unborn => k \notin reached
            BY <1>1, UnbornIs DEF WritesTo, Names
          <6>3. job[k] = Unborn => v.byte = FALSE
            BY <3>3, <6>2, UnbornIs, LookupKnown DEF Lookups
          <6>4. job[k] = Unborn => v = Unborn
            BY <3>3, <4>2, <6>3, UnbornIs DEF Lookups
          <6> QED BY <6>1, <6>4
        <5> QED BY <1>3, <3>3, <4>2, <5>1, LookupKnown DEF ThreadLeaves, SamePipe, JobOK
      <4> QED BY <4>1, <4>2
    <3> QED BY <3>2, <3>3, <3>4
  <2> QED BY <2>1, <2>2
<1>5. job' \in [Jobs -> Lookups]
  BY <1>2, <1>4
<1> QED BY <1>2, <1>4, <1>5, ThreadKeeps

-----------------------------------------------------------------------------
(* Nobody has anything at first. *)
LEMMA SocketInit == ASSUME Init PROVE SocketInv
<1> USE DEF Init, DescriptorsInit
<1>1. NoSocket \in SocketObjects /\ ~NoSocket.live /\ ~NoSocket.closed
  <2>1. NoDesc \in MaybeDescs
    BY UnbornIs
  <2> QED BY <2>1 DEF NoSocket, SocketObjects
<1>2. SocketTypes
  <2>1. open \in [Fds -> 0..MaxGen] /\ conn \in [Fds -> 0..Left]
    BY DescriptorsAssumption DEF Left
  <2>2. call \in [Greenlets -> Calls] /\ job \in [Jobs -> Lookups] /\ sock \in [Socks -> SocketObjects]
    BY <1>1, NoCallIs, UnbornIs
  <2> QED BY <2>1, <2>2 DEF SocketTypes
<1>3. Holdings = {}
  <2>1. /\ \A s \in Socks : ~sock[s].live
        /\ \A j \in Jobs : job[j].r.gen = 0 /\ job[j].w.gen = 0
        /\ Loose = {}
    BY <1>1, UnbornIs DEF Loose, LooseOf
  <2>2. \A x : x \notin Holdings
    BY <2>1, KindsDiffer DEF Holdings
  <2> QED BY <2>2
<1>4. Books(Holdings, open, conn, kept, struck)
  BY <1>3 DEF Books, Owned, Named, NoOpening
<1>5. SocketsOK
  BY <1>1 DEF SocketsOK
<1>6. CallsInv
  BY NoCallIs, UnbornIs DEF CallsInv, CallOK, Alone, JobOK, SockOps, JobOps
<1> QED BY <1>2, <1>4, <1>5, <1>6 DEF SocketInv, HeldInv

(* Every step keeps what is held by whom. *)
LEMMA SocketNext == ASSUME SocketInv, [Next]_vars PROVE SocketInv'
<1>1. CASE ProgramStep
  BY <1>1, ProgramStepKeeps
<1>2. CASE CallStep
  BY <1>2, CallStepKeeps
<1>3. CASE HubStep
  BY <1>3, SubmitsKeeps, HubTurnKeeps DEF HubStep
<1>4. CASE ThreadStep
  BY <1>4, ThreadStoresKeeps, ThreadWritesKeeps DEF ThreadStep, DnsStep
<1>5. CASE FinalStep
  BY <1>5, FinalizesClosedKeeps, FinalizesDroppedKeeps DEF FinalStep
<1>6. CASE UNCHANGED vars
  <2> USE <1>6 DEF vars, history, fdVars, waitVars, holders, objects
  <2>1. SocketTypes'
    BY DEF SocketInv, SocketTypes
  <2>2. HeldInv'
    <3>1. Holdings' = Holdings
      BY DEF Holdings, Loose
    <3> QED BY <3>1 DEF SocketInv, HeldInv, SocketsOK
  <2>3. CallsInv'
    BY DEF SocketInv, CallsInv, CallOK, Alone, JobOK, Quiet
  <2> QED BY <2>1, <2>2, <2>3 DEF SocketInv
<1> QED BY <1>1, <1>2, <1>3, <1>4, <1>5, <1>6 DEF Next

(* Each opening of a number is held once; what is open is held by somebody *)
(* who will close it or lets it be lost late; each connection in the hub's *)
(* map is that of a holding, or of a close to be reaped, or was left       *)
(* behind: whatever is thrown, raised or finalized. Until a second close   *)
(* strikes, what is held is open. No two greenlets have a socket or a      *)
(* lookup in common, and while it is quiet a byte in a pipe is from the    *)
(* lookup's own thread.                                                    *)
THEOREM SocketInvariant == Spec => []SocketInv
<1>1. Init => SocketInv
  BY SocketInit
<1>2. SocketInv /\ [Next]_vars => SocketInv'
  BY SocketNext
<1> QED BY <1>1, <1>2, PTL DEF Spec

-----------------------------------------------------------------------------
(* What a holding means while no second close has struck. *)
LEMMA HoldingNames ==
    ASSUME SocketInv, ~struck, NEW x \in Holdings, Lives(x, kept)
    PROVE  /\ x.fd \in Fds /\ x.gen # 0 /\ open[x.fd] = x.gen
           /\ x.known => conn[x.fd] = x.gen
<1>1. Owned(Holdings, open, conn, kept) /\ Named(Holdings, open, conn, kept)
  BY DEF SocketInv, HeldInv, Books
<1> QED BY <1>1, DescriptorsAssumption DEF Owned, Named

(* The ends of the pipe of a lookup that somebody waits for. *)
LEMMA PipeNames ==
    ASSUME SocketInv, ~struck, NEW j \in Jobs, job[j].w.gen # 0
    PROVE  Names(job[j].r) /\ Names(job[j].w)
<1>1. job[j].r.gen # 0
  BY LookupKnown DEF JobOK
<1>2. ReadHolding(j, job[j]) \in Holdings /\ WriteHolding(j, job[j]) \in Holdings
  BY <1>1, KindsDiffer DEF Holdings
<1>3. Lives(ReadHolding(j, job[j]), kept) /\ Lives(WriteHolding(j, job[j]), kept)
  BY DEF Lives, ReadHolding, WriteHolding, Holding
<1>4. Names(job[j].r)
  BY <1>2, <1>3, HoldingNames DEF Names, ReadHolding, Holding
<1>5. Names(job[j].w)
  BY <1>2, <1>3, HoldingNames DEF Names, WriteHolding, Holding
<1> QED BY <1>4, <1>5

(* A socket that the hub has not registered is not the owner of the        *)
(* connection that the hub has under its number, and nobody else is.       *)
LEMMA RefusedFor ==
    ASSUME SocketInv, ~struck, NEW s \in Socks, sock[s].live, ~sock[s].registered,
           conn[sock[s].desc.fd] # 0
    PROVE  sock[s].desc.fd \in Tracked \cup Unreaped \/ conn[sock[s].desc.fd] = Left
<1>1. PICK fd, y : fd = sock[s].desc.fd /\ y = SockHolding(s, sock[s])
  OBVIOUS
<1>2. fd \in Fds /\ y \in Holdings /\ y.fd = fd /\ ~y.known /\ open[fd] = y.gen
  BY <1>1, SocketHolds, SockHoldingIs DEF Descs
<1>3. CASE conn[fd] \in NoOpening
  BY <1>1, <1>2, <1>3 DEF NoOpening, Unreaped
<1>4. CASE conn[fd] \notin NoOpening
  <2>1. PICK x \in Holdings : x.fd = fd /\ x.known /\ (x.kind # "close" => x.gen = conn[fd])
    BY <1>2, <1>4 DEF SocketInv, HeldInv, Books, Owned
  <2>2. x.kind = "close"
    <3>1. SUFFICES ASSUME x.kind # "close" PROVE FALSE
      OBVIOUS
    <3>2. open[x.fd] = x.gen
      BY <3>1, HoldingNames DEF Lives
    <3>3. Same(x, y)
      BY <1>2, <2>1, <3>2 DEF Same
    <3>4. x = y
      BY <1>2, <3>3 DEF SocketInv, HeldInv, Books, Owned
    <3> QED BY <1>2, <2>1, <3>4
  <2>3. PICK c \in closes : x = CloseHolding(c)
    <3>1. \A z \in Loose : z.kind # "close"
      BY LooseNow DEF LooseKinds
    <3>2. /\ \A t, v : SockHolding(t, v).kind # "close"
          /\ \A j, v : ReadHolding(j, v).kind # "close" /\ WriteHolding(j, v).kind # "close"
      BY DEF SockHolding, ReadHolding, WriteHolding, Holding
    <3> QED BY <2>2, <3>1, <3>2, KindsDiffer DEF Holdings
  <2>4. c.fd = fd /\ c.tracked
    BY <2>1, <2>3 DEF CloseHolding, Holding
  <2> QED BY <1>1, <2>4 DEF Tracked
<1> QED BY <1>3, <1>4

(* Who may use a number means the file that has it. *)
LEMMA OwnFileFollows == ASSUME SocketInv PROVE OwnFile
<1> SUFFICES ASSUME ~struck
             PROVE  /\ \A s \in Socks : Held(s) => Names(sock[s].desc)
                    /\ \A s \in Socks : sock[s].registered => conn[sock[s].desc.fd] = sock[s].desc.gen
                    /\ \A s \in Socks : Held(s) /\ ~sock[s].registered /\ conn[sock[s].desc.fd] # 0 =>
                            sock[s].desc.fd \in Tracked \cup Unreaped \/ conn[sock[s].desc.fd] = Left
                    /\ \A d \in FirstCloses \cup raw \cup late \cup dropped : Names(d)
                    /\ \A g \in Waiting : Names(job[call[g].job].r) /\ Names(job[call[g].job].w)
                    /\ \A j \in Jobs : job[j].state \in {"running", "stored"} /\ thrown = 0 => Names(job[j].w)
  BY DEF OwnFile
<1>1. ASSUME NEW s \in Socks, sock[s].live
      PROVE  /\ Names(sock[s].desc)
             /\ sock[s].registered => conn[sock[s].desc.fd] = sock[s].desc.gen
  <2>1. /\ sock[s].desc \in Descs /\ open[sock[s].desc.fd] = sock[s].desc.gen
        /\ sock[s].registered => conn[sock[s].desc.fd] = sock[s].desc.gen
    BY <1>1, SocketHolds
  <2> QED BY <2>1, DescriptorsAssumption DEF Names, Descs
<1>2. \A s \in Socks : sock[s].registered => sock[s].live
  BY DEF SocketInv, HeldInv, SocketsOK, NoSocket
<1>3. \A s \in Socks : Held(s) => sock[s].live
  BY DEF Held
<1>4. ASSUME NEW d \in FirstCloses PROVE Names(d)
  <2>1. PICK c \in closes : Desc(c) = d /\ d \in kept
    BY DEF FirstCloses
  <2>2. PICK x \in Holdings : x = CloseHolding(c)
    BY KindsDiffer DEF Holdings
  <2>3. x.fd = d.fd /\ x.gen = d.gen
    BY <2>1, <2>2 DEF CloseHolding, Holding, Desc
  <2>4. Lives(x, kept)
    BY <2>1, <2>3 DEF Lives, Same
  <2> QED BY <2>3, <2>4, HoldingNames DEF Names
<1>5. ASSUME NEW d \in raw \cup late \cup dropped PROVE Names(d)
  <2>1. PICK x \in Loose : Same(x, d)
    BY LooseHoldingIs DEF Loose, LooseOf
  <2>2. x \in Holdings
    BY KindsDiffer DEF Holdings
  <2>3. Lives(x, kept)
    BY LooseNow DEF LooseKinds, Lives
  <2> QED BY <2>1, <2>2, <2>3, HoldingNames DEF Names, Same
<1>6. \A g \in Waiting : Names(job[call[g].job].r) /\ Names(job[call[g].job].w)
  BY PipeNames DEF Waiting, SocketInv, SocketTypes, CallsInv, CallOK, Calls
<1>7. \A j \in Jobs : job[j].state \in {"running", "stored"} /\ thrown = 0 => Names(job[j].w)
  BY PipeNames, LookupKnown DEF JobOK, Quiet
<1> QED BY <1>1, <1>2, <1>3, <1>4, <1>5, <1>6, <1>7, RefusedFor

(* What is open belongs to somebody. *)
LEMMA OpenOwned ==
    ASSUME SocketInv, NEW fd \in Fds, open[fd] # 0, NEW d, d = [fd |-> fd, gen |-> open[fd]]
    PROVE  \/ \E s \in Socks : Held(s) /\ sock[s].desc = d
           \/ d \in FirstCloses \cup raw \cup late \cup dropped
           \/ \E g \in Waiting : d \in {job[call[g].job].r, job[call[g].job].w}
<1>1. PICK x \in Holdings : x.fd = fd /\ x.gen = open[fd] /\ Lives(x, kept)
  BY DEF SocketInv, HeldInv, Books, Owned
<1>2. \A e \in MaybeDescs \cup Descs : e.fd = fd /\ e.gen = open[fd] => e = d
  BY DEF MaybeDescs, Descs
<1>3. CASE \E s \in Socks : sock[s].live /\ x = SockHolding(s, sock[s])
  <2>1. PICK s \in Socks : sock[s].live /\ x = SockHolding(s, sock[s])
    BY <1>3
  <2>2. sock[s].desc.fd = fd /\ sock[s].desc.gen = open[fd]
    BY <1>1, <2>1 DEF SockHolding, Holding
  <2>3. sock[s].desc = d
    BY <1>2, <2>1, <2>2, SocketHolds
  <2>4. Held(s)
    BY <2>1 DEF Held, SocketInv, HeldInv, SocketsOK
  <2> QED BY <2>3, <2>4
<1>4. CASE \E c \in closes : x = CloseHolding(c)
  <2>1. PICK c \in closes : x = CloseHolding(c)
    BY <1>4
  <2>2. PICK e \in kept : Same(x, e)
    BY <1>1, <2>1 DEF Lives, CloseHolding, Holding
  <2>3. e = d
    BY <1>1, <1>2, <2>2 DEF Same, SocketInv, SocketTypes
  <2>4. Desc(c) = d
    BY <1>1, <2>1 DEF Desc, CloseHolding, Holding
  <2> QED BY <2>2, <2>3, <2>4 DEF FirstCloses
<1>5. CASE x \in Loose
  <2>1. PICK e \in raw \cup late \cup dropped : Same(x, e)
    BY <1>5, LooseHoldingIs DEF Loose, LooseOf
  <2>2. e = d
    BY <1>1, <1>2, <2>1 DEF Same, SocketInv, SocketTypes
  <2> QED BY <2>1, <2>2
<1>6. CASE \E j \in Jobs : job[j].r.gen # 0 /\ x = ReadHolding(j, job[j])
  <2>1. PICK j \in Jobs : job[j].r.gen # 0 /\ x = ReadHolding(j, job[j])
    BY <1>6
  <2>2. job[j].r.fd = fd /\ job[j].r.gen = open[fd]
    BY <1>1, <2>1 DEF ReadHolding, Holding
  <2>3. job[j].r = d
    BY <1>2, <2>2, LookupKnown
  <2>4. PICK g \in Greenlets : call[g].job = j
    BY <2>1, LookupKnown DEF JobOK
  <2> QED BY <2>3, <2>4, NumbersPositive DEF Waiting
<1>7. CASE \E j \in Jobs : job[j].w.gen # 0 /\ x = WriteHolding(j, job[j])
  <2>1. PICK j \in Jobs : job[j].w.gen # 0 /\ x = WriteHolding(j, job[j])
    BY <1>7
  <2>2. job[j].w.fd = fd /\ job[j].w.gen = open[fd]
    BY <1>1, <2>1 DEF WriteHolding, Holding
  <2>3. job[j].w = d
    BY <1>2, <2>2, LookupKnown
  <2>4. PICK g \in Greenlets : call[g].job = j
    BY <2>1, LookupKnown DEF JobOK
  <2> QED BY <2>3, <2>4, NumbersPositive DEF Waiting
<1> QED BY <1>3, <1>4, <1>5, <1>6, <1>7, KindsDiffer DEF Holdings

(* So does what the hub has in its map, but what is left behind. *)
LEMMA ConnectionOwned ==
    ASSUME SocketInv, NEW fd \in Fds, conn[fd] # 0, NEW d, d = [fd |-> fd, gen |-> conn[fd]]
    PROVE  \/ \E s \in Socks : sock[s].registered /\ sock[s].desc = d
           \/ fd \in Tracked \cup Unreaped
           \/ d \in late
           \/ conn[fd] = Left
<1>1. CASE conn[fd] \in NoOpening
  BY <1>1 DEF NoOpening, Unreaped
<1>2. CASE conn[fd] \notin NoOpening
  <2>1. PICK x \in Holdings : x.fd = fd /\ x.known /\ (x.kind # "close" => x.gen = conn[fd])
    BY <1>2 DEF SocketInv, HeldInv, Books, Owned
  <2>2. \A e \in MaybeDescs \cup Descs : e.fd = fd /\ e.gen = conn[fd] => e = d
    BY DEF MaybeDescs, Descs
  <2>3. CASE \E s \in Socks : sock[s].live /\ x = SockHolding(s, sock[s])
    <3>1. PICK s \in Socks : sock[s].live /\ x = SockHolding(s, sock[s])
      BY <2>3
    <3>2. sock[s].desc = d /\ sock[s].registered
      BY <2>1, <2>2, <3>1, SocketHolds, SockHoldingIs
    <3> QED BY <3>2
  <2>4. CASE \E c \in closes : x = CloseHolding(c)
    BY <2>1, <2>4 DEF CloseHolding, Holding, Tracked
  <2>5. CASE x \in Loose
    <3>1. PICK e \in late : x = LateHolding(e)
      BY <2>1, <2>5, LooseHoldingIs DEF Loose, LooseOf
    <3>2. x.gen = conn[fd]
      BY <2>1, <3>1, LooseHoldingIs
    <3>3. e = d
      BY <2>1, <2>2, <3>1, <3>2, LooseHoldingIs DEF Same, SocketInv, SocketTypes
    <3> QED BY <3>1, <3>3
  <2>6. \A j \in Jobs : ~ReadHolding(j, job[j]).known /\ ~WriteHolding(j, job[j]).known
    BY DEF ReadHolding, WriteHolding, Holding
  <2> QED BY <2>1, <2>3, <2>4, <2>5, <2>6, KindsDiffer DEF Holdings
<1> QED BY <1>1, <1>2

(* Both together. *)
LEMMA EverythingOwnedFollows == ASSUME SocketInv PROVE EverythingOwned
BY OpenOwned, ConnectionOwned DEF EverythingOwned

(* A lookup that is over has its answer. *)
LEMMA AnswerStoredFollows == ASSUME SocketInv PROVE AnswerStored
BY DEF AnswerStored, Quiet, Waiting, SocketInv, SocketTypes, CallsInv, CallOK, JobOK, Calls

(* A socket that is not closed, a first close that the hub has yet to      *)
(* execute, a number that the program has and a lookup that is waited for  *)
(* mean their own file, whatever numbers are used again, until a second    *)
(* close of a number has closed somebody else's.                           *)
THEOREM OwnFileHolds == Spec => []OwnFile
BY SocketInvariant, OwnFileFollows, PTL

(* Everything open is somebody's, also after a second close, and what the  *)
(* hub has registered is a socket's, but for connections accepted too late *)
(* and those of attempts that passed the close() of create_connection.     *)
THEOREM EverythingOwnedHolds == Spec => []EverythingOwned
BY SocketInvariant, EverythingOwnedFollows, PTL

(* Nobody is resumed from a lookup before its answer is stored, unless one *)
(* was given up, or a second close has closed somebody else's number.      *)
THEOREM AnswerStoredHolds == Spec => []AnswerStored
BY SocketInvariant, AnswerStoredFollows, PTL
=============================================================================
