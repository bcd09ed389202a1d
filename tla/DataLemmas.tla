------------------------------ MODULE DataLemmas ------------------------------
(***************************************************************************)
(* Lemmas about the data that the proofs share: sets of naturals, finite   *)
(* sets, numbers that wrap and the waiting queues of the kernel, in which  *)
(* a process joins at the end, the head leaves, and nobody stands twice.   *)
(***************************************************************************)
EXTENDS Integers, Sequences, FiniteSetsExt, FiniteSetTheorems, SequenceTheorems,
        WellFoundedInduction, TLAPS

-----------------------------------------------------------------------------
(* Every non-empty set of naturals has a least element.                    *)

Less == OpToRel(<, Nat)

LEMMA LessPairs == \A x, y \in Nat : y < x => <<y, x>> \in Less
<1> TAKE x, y \in Nat
<1> HAVE y < x
<1>1. <<y, x>> \in Nat \X Nat /\ <<y, x>>[1] = y /\ <<y, x>>[2] = x
  OBVIOUS
<1> QED
  BY <1>1, Zenon DEF OpToRel, Less

LEMMA LeastNatural ==
  ASSUME NEW T, T \subseteq Nat, T # {}
  PROVE  \E x \in T : \A y \in T : x <= y
<1>1. IsWellFoundedOn(Less, Nat)
  BY NatLessThanWellFounded DEF Less
<1>2. PICK x \in T : \A y \in T : ~(<<y, x>> \in Less)
  BY <1>1, WFMin
<1>3. \A y \in T : ~(y < x)
  BY <1>2, LessPairs
<1>4. \A y \in T : x <= y
  BY <1>3
<1> QED
  BY <1>4

(* Min finds it.                                                           *)
LEMMA MinOfNaturals ==
  ASSUME NEW T, T \subseteq Nat, T # {}
  PROVE  Min(T) \in T /\ \A y \in T : Min(T) <= y
<1>1. \E x \in T : \A y \in T : x <= y
  BY LeastNatural
<1> QED
  BY <1>1 DEF Min

(* Max finds the greatest of some naturals up to m.                        *)
LEMMA MaxOfNaturals ==
  ASSUME NEW m \in Nat, NEW T, T \subseteq 0..m, T # {}
  PROVE  Max(T) \in T /\ \A y \in T : y <= Max(T)
<1>1. \A x \in T : x \in Int /\ m - x \in Nat
  OBVIOUS
<1> DEFINE U == {m - x : x \in T}
<1>2. PICK u \in U : \A y \in U : u <= y
  <2>1. U \subseteq Nat
    BY <1>1
  <2>2. U # {}
    <3>1. PICK z : z \in T
      OBVIOUS
    <3>2. m - z \in U
      BY <3>1
    <3> QED
      BY <3>2
  <2> QED
    BY <2>1, <2>2, LeastNatural
<1>3. PICK x \in T : u = m - x
  OBVIOUS
<1>4. \A y \in T : m - x <= m - y
  BY <1>2, <1>3
<1> HIDE DEF U
<1>5. \A y \in T : x >= y
  BY <1>1, <1>4
<1>6. Max(T) \in T /\ \A y \in T : Max(T) >= y
  BY <1>5 DEF Max
<1> QED
  BY <1>1, <1>6

(* Two things are two, and what is apart is counted apart.                 *)
LEMMA TwoAreTwo ==
  ASSUME NEW a, NEW b, a # b
  PROVE  IsFiniteSet({a} \cup {b}) /\ Cardinality({a} \cup {b}) = 2
<1>1. IsFiniteSet({a}) /\ Cardinality({a}) = 1 /\ b \notin {a}
  BY FS_Singleton
<1>2. /\ IsFiniteSet({a} \cup {b})
      /\ Cardinality({a} \cup {b}) = IF b \in {a} THEN Cardinality({a}) ELSE Cardinality({a}) + 1
  BY <1>1, FS_AddElement
<1> QED
  BY <1>1, <1>2

LEMMA CountedApart ==
  ASSUME NEW S, NEW T, IsFiniteSet(S), IsFiniteSet(T), S \cap T = {}
  PROVE  /\ IsFiniteSet(S \cup T)
         /\ Cardinality(S \cup T) = Cardinality(S) + Cardinality(T)
<1>1. /\ IsFiniteSet(S \cup T)
      /\ Cardinality(S \cup T) = Cardinality(S) + Cardinality(T) - Cardinality(S \cap T)
  BY FS_Union
<1>2. Cardinality(S \cap T) = 0
  BY FS_EmptySet
<1>3. Cardinality(S) \in Nat /\ Cardinality(T) \in Nat
  BY FS_CardinalityType
<1> QED
  BY <1>1, <1>2, <1>3

-----------------------------------------------------------------------------
(* Numbers that wrap.                                                      *)
LEMMA Wrapping ==
  ASSUME NEW s \in Nat, s > 0, NEW x \in Int
  PROVE  x % s \in 0..s - 1 /\ \E k \in Int : x = k * s + (x % s)
<1>1. x % s \in 0..s - 1
  OBVIOUS
<1>2. \E k \in Int : x = k * s + (x % s)
  OBVIOUS
<1> QED
  BY <1>1, <1>2

(* Numbers that differ by whole turns wrap to the same.                    *)
LEMMA WholeTurns ==
  ASSUME NEW s \in Nat, s > 0, NEW x \in Int, NEW y \in Int, NEW k \in Int, x = y + k * s
  PROVE  x % s = y % s
<1>1. PICK a \in Int : x = a * s + (x % s)
  BY Wrapping
<1>2. PICK b \in Int : y = b * s + (y % s)
  BY Wrapping
<1> DEFINE d == b + k - a
<1>3. x % s \in 0..s - 1 /\ y % s \in 0..s - 1 /\ d \in Int
  BY Wrapping
<1>4. d * s = b * s + k * s - a * s
  OBVIOUS
<1> DEFINE u == x % s
           v == y % s
<1>5. u = v + d * s /\ u \in 0..s - 1 /\ v \in 0..s - 1
  <2>1. x = a * s + u /\ y = b * s + v
    BY <1>1, <1>2
  <2> HIDE DEF u, v
  <2>2. a * s \in Int /\ b * s \in Int /\ k * s \in Int
    OBVIOUS
  <2> QED
    BY <1>3, <1>4, <2>1, <2>2 DEF u, v
<1> HIDE DEF d
<1>6. CASE d = 0
  BY <1>3, <1>5, <1>6
<1>7. CASE d >= 1
  <2>1. d * s >= s
    BY <1>3, <1>7
  <2> QED
    BY <1>3, <1>5, <2>1
<1>8. CASE d <= -1
  <2>1. d * s <= -s
    BY <1>3, <1>8
  <2> QED
    BY <1>3, <1>5, <2>1
<1> QED
  BY <1>3, <1>6, <1>7, <1>8

(* Wrapping before a sum does not show after it.                           *)
LEMMA WrappedSum ==
  ASSUME NEW s \in Nat, s > 0, NEW x \in Int, NEW d \in Int
  PROVE  ((x % s) + d) % s = (x + d) % s
<1>1. PICK k \in Int : x = k * s + (x % s)
  BY Wrapping
<1> DEFINE m == x % s
<1>2. m \in Int /\ m + d \in Int
  BY Wrapping
<1>3. x + d = (m + d) + k * s
  BY <1>1, <1>2
<1> DEFINE p == x + d
           q == m + d
<1>4. p \in Int /\ q \in Int /\ p = q + k * s
  BY <1>2, <1>3
<1> HIDE DEF p, q
<1>5. p % s = q % s
  BY <1>4, WholeTurns
<1> QED
  BY <1>5 DEF p, q

-----------------------------------------------------------------------------
(* Queues.                                                                 *)

InQueue(q, p) == \E i \in 1..Len(q) : q[i] = p

Once(q) == \A i, j \in 1..Len(q) : q[i] = q[j] => i = j

(* What somebody joining a queue and its head leaving it make of it.       *)
JoinedBy(q, p, r) == \A x : InQueue(r, x) <=> InQueue(q, x) \/ x = p
HeadLeft(q, r, S) ==
  /\ q = <<>> => r = <<>>
  /\ q # <<>> =>
       /\ Head(q) \in S /\ InQueue(q, Head(q))
       /\ \A x : InQueue(q, x) /\ x # Head(q) => InQueue(r, x)
       /\ Once(q) => Once(r) /\ \A x : InQueue(r, x) <=> InQueue(q, x) /\ x # Head(q)

(* Joining a queue.                                                        *)
LEMMA JoiningQueue ==
  ASSUME NEW S, NEW q \in Seq(S), NEW p \in S, NEW r, r = Append(q, p)
  PROVE  /\ r \in Seq(S) /\ r # <<>>
         /\ JoinedBy(q, p, r)
         /\ Once(q) /\ ~InQueue(q, p) => Once(r)
<1>1. /\ r \in Seq(S) /\ Len(q) \in Nat /\ Len(r) = Len(q) + 1
      /\ r[Len(q) + 1] = p /\ \A i \in 1..Len(q) : r[i] = q[i]
  OBVIOUS
<1>2. r # <<>>
  BY <1>1
<1>3. ASSUME NEW x PROVE InQueue(r, x) <=> InQueue(q, x) \/ x = p
  BY <1>1 DEF InQueue
<1>4. Once(q) /\ ~InQueue(q, p) => Once(r)
  BY <1>1 DEF InQueue, Once
<1> QED
  BY <1>1, <1>2, <1>3, <1>4 DEF JoinedBy

LEMMA JoinsQueue ==
  ASSUME NEW S, NEW q \in Seq(S), NEW p \in S, NEW r, r = Append(q, p)
  PROVE  /\ r \in Seq(S) /\ r # <<>>
         /\ \A x : InQueue(r, x) <=> InQueue(q, x) \/ x = p
         /\ Once(q) /\ ~InQueue(q, p) => Once(r)
<1>1. r \in Seq(S) /\ r # <<>> /\ JoinedBy(q, p, r) /\ (Once(q) /\ ~InQueue(q, p) => Once(r))
  BY JoiningQueue
<1> QED
  BY <1>1 DEF JoinedBy

(* The head leaving.                                                       *)
LEMMA LeavingQueue ==
  ASSUME NEW S, NEW q \in Seq(S), NEW r, r = SubSeq(q, 2, Len(q))
  PROVE  r \in Seq(S) /\ HeadLeft(q, r, S)
<1>1. CASE q = <<>>
  <2>1. Len(q) = 0
    BY <1>1
  <2>2. r = <<>>
    BY <2>1, SubSeqEmpty
  <2> QED
    BY <1>1, <2>2 DEF HeadLeft
<1>2. CASE q # <<>>
  <2>1. /\ Len(q) \in Nat \ {0} /\ Head(q) \in S /\ Head(q) = q[1]
    BY <1>2, EmptySeq, HeadTailProperties
  <2>2. r \in Seq(S) /\ Len(r) = Len(q) - 1 /\ \A i \in 1..Len(q) - 1 : r[i] = q[i + 1]
    BY <1>2, TailIsSubSeq, HeadTailProperties
  <2>3. InQueue(q, Head(q))
    BY <2>1 DEF InQueue
  <2>4. ASSUME Once(q) PROVE Once(r)
    BY <2>1, <2>2, <2>4 DEF Once
  <2>5. ASSUME NEW x, InQueue(q, x), x # Head(q) PROVE InQueue(r, x)
    <3>1. PICK i \in 1..Len(q) : q[i] = x
      BY <2>5 DEF InQueue
    <3>2. i - 1 \in 1..Len(r) /\ r[i - 1] = x
      BY <2>1, <2>2, <2>5, <3>1
    <3> QED
      BY <3>2 DEF InQueue
  <2>6. ASSUME Once(q), NEW x, InQueue(r, x) PROVE InQueue(q, x) /\ x # Head(q)
    BY <2>1, <2>2, <2>6 DEF Once, InQueue
  <2> QED
    BY <1>2, <2>1, <2>2, <2>3, <2>4, <2>5, <2>6 DEF HeadLeft
<1> QED
  BY <1>1, <1>2

LEMMA LeavesQueue ==
  ASSUME NEW S, NEW q \in Seq(S), NEW r, r = SubSeq(q, 2, Len(q))
  PROVE  /\ r \in Seq(S)
         /\ q = <<>> => r = <<>>
         /\ q # <<>> =>
              /\ Head(q) \in S /\ InQueue(q, Head(q))
              /\ \A x : InQueue(q, x) /\ x # Head(q) => InQueue(r, x)
              /\ Once(q) => Once(r) /\ \A x : InQueue(r, x) <=> InQueue(q, x) /\ x # Head(q)
<1>1. r \in Seq(S) /\ HeadLeft(q, r, S)
  BY LeavingQueue
<1> QED
  BY <1>1 DEF HeadLeft

(* The same of Tail, for somebody who may stand twice.                     *)
LEMMA OthersStay ==
  ASSUME NEW S, NEW q \in Seq(S), q # <<>>
  PROVE  /\ Tail(q) \in Seq(S) /\ Head(q) \in S
         /\ \A x : InQueue(q, x) /\ x # Head(q) => InQueue(Tail(q), x)
<1> DEFINE r == Tail(q)
<1>1. r = SubSeq(q, 2, Len(q))
  BY TailIsSubSeq
<1> HIDE DEF r
<1>2. r \in Seq(S) /\ HeadLeft(q, r, S)
  BY <1>1, LeavingQueue
<1> QED
  BY <1>2 DEF r, HeadLeft

=============================================================================
