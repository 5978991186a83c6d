--------------------------- MODULE HubLoop_proofs ---------------------------
(***************************************************************************)
(* Lemmas on the ready queue and on counting, for the proofs about both    *)
(* kinds of waits.                                                         *)
(***************************************************************************)
EXTENDS HubLoop, FiniteSetTheorems, TLAPS

(* The ready queue.                                                        *)

Occurs(q, x) == \E i \in 1..Len(q) : q[i] = x

Distinct(q) == \A i, j \in 1..Len(q) : q[i] = q[j] => i = j

(* Appending to the ready queue adds one greenlet to those it holds.       *)
LEMMA AppendOccurs ==
  ASSUME NEW S, NEW q \in Seq(S), NEW x \in S
  PROVE  /\ Append(q, x) \in Seq(S)
         /\ \A y : Occurs(Append(q, x), y) <=> y = x \/ Occurs(q, y)
         /\ Distinct(q) /\ ~Occurs(q, x) => Distinct(Append(q, x))
<1>1. /\ Append(q, x) \in Seq(S)
      /\ Len(Append(q, x)) = Len(q) + 1
      /\ Append(q, x)[Len(q) + 1] = x
      /\ \A i \in 1..Len(q) : Append(q, x)[i] = q[i]
  OBVIOUS
<1>2. Len(q) \in Nat
  OBVIOUS
<1>3. \A i : i \in 1..Len(Append(q, x)) <=> i \in 1..Len(q) \/ i = Len(q) + 1
  BY <1>1, <1>2
<1>4. \A y : Occurs(Append(q, x), y) <=> y = x \/ Occurs(q, y)
  BY <1>1, <1>3, Zenon DEF Occurs
<1>5. ASSUME Distinct(q), ~Occurs(q, x) PROVE Distinct(Append(q, x))
  BY <1>1, <1>2, <1>3, <1>5 DEF Occurs, Distinct
<1> QED BY <1>1, <1>4, <1>5

(* Taking the head off a queue without repetitions removes that greenlet.  *)
LEMMA TailOccurs ==
  ASSUME NEW S, NEW q \in Seq(S), q # <<>>, Distinct(q)
  PROVE  /\ Head(q) \in S
         /\ Tail(q) \in Seq(S)
         /\ Distinct(Tail(q))
         /\ \A y : Occurs(Tail(q), y) <=> Occurs(q, y) /\ y # Head(q)
<1>1. /\ Tail(q) \in Seq(S)
      /\ Len(q) \in Nat /\ Len(q) >= 1
      /\ Len(Tail(q)) = Len(q) - 1
      /\ \A i \in 1..Len(Tail(q)) : Tail(q)[i] = q[i + 1]
      /\ Head(q) = q[1] /\ Head(q) \in S
  OBVIOUS
<1>2. \A i : i \in 1..Len(Tail(q)) => i + 1 \in 1..Len(q) /\ i + 1 # 1
  BY <1>1
<1>3. \A i : i \in 1..Len(q) /\ i # 1 => i - 1 \in 1..Len(Tail(q)) /\ (i - 1) + 1 = i
  BY <1>1
<1>4. Distinct(Tail(q))
  BY <1>1, <1>2 DEF Distinct
<1>5. ASSUME NEW y, Occurs(Tail(q), y) PROVE Occurs(q, y) /\ y # Head(q)
  BY <1>1, <1>2, <1>5 DEF Occurs, Distinct
<1>6. ASSUME NEW y, Occurs(q, y), y # Head(q) PROVE Occurs(Tail(q), y)
  <2>1. PICK i \in 1..Len(q) : q[i] = y
    BY <1>6 DEF Occurs
  <2>2. i # 1
    BY <1>1, <1>6, <2>1
  <2>3. i - 1 \in 1..Len(Tail(q)) /\ (i - 1) + 1 = i
    BY <1>3, <2>2
  <2> QED BY <1>1, <2>1, <2>3 DEF Occurs
<1> QED BY <1>1, <1>4, <1>5, <1>6

-----------------------------------------------------------------------------
(* Counting.                                                               *)

(* Removing a part from a finite set takes the part's size off.            *)
LEMMA RemovePart ==
  ASSUME NEW S, IsFiniteSet(S), NEW P, P \subseteq S
  PROVE  /\ IsFiniteSet(P)
         /\ Cardinality(P) \in Nat /\ Cardinality(S) \in Nat
         /\ Cardinality(S \ P) \in Nat
         /\ Cardinality(S \ P) = Cardinality(S) - Cardinality(P)
<1>1. IsFiniteSet(P) /\ S \cap P = P
  BY FS_Subset
<1>2. IsFiniteSet(S \ P) /\ Cardinality(S \ P) = Cardinality(S) - Cardinality(S \cap P)
  BY FS_Difference
<1> QED BY <1>1, <1>2, FS_CardinalityType

(* Adding a part disjoint from a finite set adds the part's size.          *)
LEMMA AddPart ==
  ASSUME NEW S, IsFiniteSet(S), NEW P, IsFiniteSet(P), S \cap P = {}
  PROVE  /\ Cardinality(S \cup P) \in Nat
         /\ Cardinality(S) \in Nat /\ Cardinality(P) \in Nat
         /\ Cardinality(S \cup P) = Cardinality(S) + Cardinality(P)
<1>1. /\ IsFiniteSet(S \cup P)
      /\ Cardinality(S \cup P) = Cardinality(S) + Cardinality(P) - Cardinality({})
  BY FS_Union
<1>2. Cardinality({}) = 0
  BY FS_EmptySet
<1> QED BY <1>1, <1>2, FS_CardinalityType

(* Adding or taking off one element changes the size by one.               *)
LEMMA OneMore ==
  ASSUME NEW S, IsFiniteSet(S), NEW x, x \notin S
  PROVE  /\ IsFiniteSet(S \cup {x})
         /\ Cardinality(S) \in Nat
         /\ Cardinality(S \cup {x}) = Cardinality(S) + 1
BY FS_AddElement, FS_CardinalityType

(* The same, the other way round.                                         *)
LEMMA OneLess ==
  ASSUME NEW S, IsFiniteSet(S), NEW x \in S
  PROVE  /\ IsFiniteSet(S \ {x})
         /\ Cardinality(S) \in Nat
         /\ Cardinality(S) >= 1
         /\ Cardinality(S \ {x}) = Cardinality(S) - 1
<1>1. IsFiniteSet(S \ {x}) /\ Cardinality(S \ {x}) = Cardinality(S) - 1
  BY FS_RemoveElement
<1> QED BY <1>1, FS_CardinalityType
=============================================================================
