---------------------------- MODULE KeyboardProofs ----------------------------
(***************************************************************************)
(* Proofs about the keyboard: for a ring of any size, any number of readers*)
(* and any keys, who sleeps for a key is in the queue keys are handed out  *)
(* to, no key lies unread beside sleepers, and a read gives what was typed *)
(* while it waited, in its order.                                          *)
(*                                                                         *)
(* And about the console, for a screen of any size, any scale and any      *)
(* programs: the cursor stays where the next character has room, and the   *)
(* line that is typed is the line on the screen.                           *)
(***************************************************************************)
EXTENDS Keyboard, Console, DataLemmas

USE DEF NUL

KeyboardStates ==
    [ buffer : [PLACES_IN_RING -> KeyChars], before : KeyChars, after : KeyChars,
      writeIndex : 0..BUFFER_SIZE, readIndex : 0..BUFFER_SIZE, lastIndexFlag : BOOLEAN,
      ctrlFlag : BOOLEAN, shiftFlag : BOOLEAN, capsLockFlag : BOOLEAN,
      waitingToRead : Seq(Readers) ]

(* A ring that has never been full: nothing is written from writeIndex on, *)
(* and what lies between readIndex and writeIndex has not been read.       *)
Ring(k) ==
    /\ k.writeIndex < BUFFER_SIZE /\ k.readIndex < BUFFER_SIZE
    /\ \A i \in PLACES_IN_RING :
          /\ i >= k.writeIndex => k.buffer[i] = NUL
          /\ k.readIndex <= i /\ i < k.writeIndex => k.buffer[i] # NUL

(* The unread characters.                                                  *)
UnreadKeys(k) == IF k.readIndex < k.writeIndex THEN k.writeIndex - k.readIndex ELSE 0
Unread(k) == [i \in 1..UnreadKeys(k) |-> k.buffer[k.readIndex + i - 1]]

Ready == {p \in Readers : reader[p].at = "ready"}

ReadersOK ==
    /\ reader \in [Readers -> [at : {"out", "asleep", "ready"}, size : Sizes \cup {0}]]
    /\ typed \in [Readers -> Seq(KeyChars)]
    /\ \A p \in Readers : IF reader[p].at = "out" THEN typed[p] = <<>> ELSE reader[p].size \in Sizes
    /\ \A p \in Readers : reader[p].at = "asleep" => InQueue(kb.waitingToRead, p)
    /\ wrapped \in BOOLEAN /\ swallowed \in BOOLEAN

(* While the ring has not been full, what is unread was typed while each   *)
(* reader has been reading; and as long as no wake-up was swallowed there  *)
(* is a reader awake for each unread key beside which another one sleeps.  *)
KeysOK ==
    ~wrapped =>
        /\ Ring(kb)
        /\ \A p \in Readers : reader[p].at # "out" => IsSubsequence(Unread(kb), typed[p])
        /\ ~swallowed /\ (\E p \in Readers : reader[p].at = "asleep") =>
              UnreadKeys(kb) <= Cardinality(Ready)

KeyInv == kb \in KeyboardStates /\ ReadersOK /\ IsFiniteSet(Ready) /\ KeysOK

-----------------------------------------------------------------------------
(* Subsequences.                                                           *)
LEMMA EmptySubsequence ==
  ASSUME NEW s, DOMAIN s = {}, NEW t
  PROVE  IsSubsequence(s, t)
<1> DEFINE places == [i \in DOMAIN s |-> 0]
<1>1. places \in [DOMAIN s -> DOMAIN t]
  OBVIOUS
<1> QED
  BY <1>1, Zenon DEF IsSubsequence

(* The part r of s from place n + 1 on, and of a subsequence.              *)
IsPart(r, s, n) ==
    \E l, m \in Nat :
        /\ DOMAIN s = 1..l /\ DOMAIN r = 1..m /\ n \in Nat /\ n + m <= l
        /\ \A i \in 1..m : r[i] = s[i + n]

LEMMA PartOfSubsequence ==
  ASSUME NEW s, NEW t, IsSubsequence(s, t), NEW n, NEW r, IsPart(r, s, n)
  PROVE  IsSubsequence(r, t)
<1>0. PICK l, m \in Nat :
         /\ DOMAIN s = 1..l /\ DOMAIN r = 1..m /\ n \in Nat /\ n + m <= l
         /\ \A i \in 1..m : r[i] = s[i + n]
  BY DEF IsPart
<1>1. PICK places \in [1..l -> DOMAIN t] :
        /\ \A i, j \in 1..l : i < j => places[i] < places[j]
        /\ \A i \in 1..l : s[i] = t[places[i]]
  BY <1>0 DEF IsSubsequence
<1> DEFINE shifted == [i \in 1..m |-> places[i + n]]
<1>2. \A i \in 1..m : i + n \in 1..l
  BY <1>0
<1>3. shifted \in [1..m -> DOMAIN t]
  BY <1>0, <1>1, <1>2
<1>4. \A i, j \in 1..m : i < j => shifted[i] < shifted[j]
  BY <1>0, <1>1, <1>2
<1>5. \A i \in 1..m : r[i] = t[shifted[i]]
  BY <1>0, <1>1, <1>2
<1> HIDE DEF shifted
<1> QED
  BY <1>0, <1>3, <1>4, <1>5 DEF IsSubsequence

(* A character more in t, and one in both.                                 *)
LEMMA LongerSequence ==
  ASSUME NEW S, NEW s, NEW t \in Seq(S), IsSubsequence(s, t), NEW c \in S
  PROVE  IsSubsequence(s, Append(t, c))
<1> DEFINE u == Append(t, c)
<1>1. /\ DOMAIN t = 1..Len(t) /\ DOMAIN u = 1..Len(t) + 1 /\ Len(t) \in Nat
      /\ \A i \in 1..Len(t) : u[i] = t[i]
  OBVIOUS
<1> HIDE DEF u
<1>2. PICK places \in [DOMAIN s -> DOMAIN t] :
        /\ \A i, j \in DOMAIN s : i < j => places[i] < places[j]
        /\ \A i \in DOMAIN s : s[i] = t[places[i]]
  BY DEF IsSubsequence
<1>3. places \in [DOMAIN s -> DOMAIN u]
  BY <1>1, <1>2
<1>4. \A i \in DOMAIN s : s[i] = u[places[i]]
  BY <1>1, <1>2
<1>5. IsSubsequence(s, u)
  BY <1>2, <1>3, <1>4 DEF IsSubsequence
<1> QED
  BY <1>5 DEF u

LEMMA BothLonger ==
  ASSUME NEW S, NEW l \in Nat, NEW s, DOMAIN s = 1..l, NEW t \in Seq(S), IsSubsequence(s, t),
         NEW c \in S,
         NEW r, DOMAIN r = 1..l + 1, \A i \in 1..l : r[i] = s[i], r[l + 1] = c
  PROVE  IsSubsequence(r, Append(t, c))
<1> DEFINE u == Append(t, c)
<1>1. /\ DOMAIN t = 1..Len(t) /\ DOMAIN u = 1..Len(t) + 1 /\ Len(t) \in Nat
      /\ \A i \in 1..Len(t) : u[i] = t[i]
      /\ u[Len(t) + 1] = c
  OBVIOUS
<1> HIDE DEF u
<1>2. PICK places \in [1..l -> DOMAIN t] :
        /\ \A i, j \in 1..l : i < j => places[i] < places[j]
        /\ \A i \in 1..l : s[i] = t[places[i]]
  BY DEF IsSubsequence
<1> DEFINE more == [i \in 1..l + 1 |-> IF i = l + 1 THEN Len(t) + 1 ELSE places[i]]
<1>3. \A i \in 1..l + 1 : i \in 1..l \/ i = l + 1
  OBVIOUS
<1>4. /\ more \in [1..l + 1 -> DOMAIN u] /\ more[l + 1] = Len(t) + 1
      /\ \A i \in 1..l : more[i] = places[i] /\ places[i] \in 1..Len(t)
  BY <1>1, <1>2, <1>3
<1> HIDE DEF more
<1>5. \A i, j \in 1..l + 1 : i < j => more[i] < more[j]
  <2> TAKE i, j \in 1..l + 1
  <2> HAVE i < j
  <2>1. i \in 1..l
    OBVIOUS
  <2>2. CASE j = l + 1
    BY <1>1, <1>4, <2>1, <2>2
  <2>3. CASE j \in 1..l
    BY <1>2, <1>4, <2>1, <2>3
  <2> QED
    BY <1>3, <2>2, <2>3
<1>6. \A i \in 1..l + 1 : r[i] = u[more[i]]
  BY <1>1, <1>2, <1>3, <1>4
<1>7. IsSubsequence(r, u)
  BY <1>4, <1>5, <1>6 DEF IsSubsequence
<1> QED
  BY <1>7 DEF u


-----------------------------------------------------------------------------
(* The driver's functions.                                                 *)

(* The keyboard m is k after something that adds no character: what is     *)
(* unread of it is a part of what was unread.                              *)
PartOf(m, k) ==
    /\ m \in KeyboardStates /\ m.waitingToRead = k.waitingToRead
    /\ Ring(k) =>
          /\ Ring(m) /\ UnreadKeys(m) <= UnreadKeys(k)
          /\ \A i \in 1..UnreadKeys(m) : Unread(m)[i] = Unread(k)[i]

LEMMA UnreadFacts ==
  ASSUME NEW k \in KeyboardStates
  PROVE  /\ UnreadKeys(k) \in Nat /\ DOMAIN Unread(k) = 1..UnreadKeys(k)
         /\ k.readIndex < k.writeIndex => k.readIndex + UnreadKeys(k) = k.writeIndex
         /\ ~(k.readIndex < k.writeIndex) => UnreadKeys(k) = 0
         /\ k.readIndex \in Int /\ k.writeIndex \in Int /\ k.readIndex >= 0 /\ k.writeIndex >= 0
         /\ \A i \in 1..UnreadKeys(k) : Unread(k)[i] = k.buffer[k.readIndex + i - 1]
<1>1. /\ k.readIndex \in Int /\ k.writeIndex \in Int /\ k.readIndex >= 0 /\ k.writeIndex >= 0
  BY KeyboardAssumption DEF KeyboardStates
<1> QED
  BY <1>1 DEF UnreadKeys, Unread

(* Where the unread keys lie in the ring.                                  *)
LEMMA UnreadAt ==
  ASSUME NEW k \in KeyboardStates, NEW i \in 1..UnreadKeys(k)
  PROVE  Unread(k)[i] = k.buffer[k.readIndex + i - 1]
BY UnreadFacts

LEMMA PartOfItself ==
  ASSUME NEW k \in KeyboardStates
  PROVE  PartOf(k, k)
BY UnreadFacts DEF PartOf

LEMMA PartOfPart ==
  ASSUME NEW k \in KeyboardStates, NEW m, NEW n, PartOf(m, k), PartOf(n, m)
  PROVE  PartOf(n, k)
<1> SUFFICES ASSUME Ring(k)
             PROVE  /\ UnreadKeys(n) <= UnreadKeys(k)
                    /\ \A i \in 1..UnreadKeys(n) : Unread(n)[i] = Unread(k)[i]
  BY DEF PartOf
<1>1. UnreadKeys(n) \in Nat /\ UnreadKeys(m) \in Nat /\ UnreadKeys(k) \in Nat
  BY UnreadFacts DEF PartOf
<1> QED
  BY <1>1 DEF PartOf

(* Only the flags changing.                                                *)
LEMMA SameRing ==
  ASSUME NEW k \in KeyboardStates, NEW m \in KeyboardStates, m.buffer = k.buffer,
         m.writeIndex = k.writeIndex, m.readIndex = k.readIndex
  PROVE  UnreadKeys(m) = UnreadKeys(k) /\ Unread(m) = Unread(k) /\ (Ring(m) <=> Ring(k))
<1>1. UnreadKeys(m) = UnreadKeys(k)
  BY DEF UnreadKeys
<1> QED
  BY <1>1 DEF Unread, Ring

(* Nothing left unread.                                                    *)
LEMMA NothingUnread ==
  ASSUME NEW k \in KeyboardStates, NEW m \in KeyboardStates,
         m.waitingToRead = k.waitingToRead, Ring(k) => Ring(m), m.readIndex >= m.writeIndex
  PROVE  PartOf(m, k)
<1>1. UnreadKeys(m) = 0 /\ UnreadKeys(k) \in Nat
  BY UnreadFacts
<1> QED
  BY <1>1 DEF PartOf

LEMMA CleanBuffer ==
  ASSUME NEW k \in KeyboardStates
  PROVE  PartOf(clean_buffer(k), k) /\ UnreadKeys(clean_buffer(k)) = 0
<1> DEFINE m == clean_buffer(k)
<1>1. /\ m \in KeyboardStates /\ m.waitingToRead = k.waitingToRead
      /\ m.readIndex = 0 /\ m.writeIndex = 0
      /\ \A i \in PLACES_IN_RING : m.buffer[i] = IF i < k.writeIndex THEN NUL ELSE k.buffer[i]
  <2> DEFINE b == [i \in PLACES_IN_RING |-> IF i < k.writeIndex THEN NUL ELSE k.buffer[i]]
  <2>1. b \in [PLACES_IN_RING -> KeyChars]
    BY DEF KeyboardStates, KeyChars
  <2>2. m = [k EXCEPT !.buffer = b, !.writeIndex = 0, !.readIndex = 0]
    BY DEF clean_buffer
  <2>3. \A i \in PLACES_IN_RING : b[i] = IF i < k.writeIndex THEN NUL ELSE k.buffer[i]
    OBVIOUS
  <2> HIDE DEF b, m
  <2>4. /\ m \in KeyboardStates /\ m.waitingToRead = k.waitingToRead /\ m.buffer = b
        /\ m.readIndex = 0 /\ m.writeIndex = 0
    <3>1. 0 \in 0..BUFFER_SIZE
      BY KeyboardAssumption
    <3>2. PICK zero \in 0..BUFFER_SIZE : zero = 0
      BY <3>1
    <3>3. m = [k EXCEPT !.buffer = b, !.writeIndex = zero, !.readIndex = zero]
      BY <2>2, <3>2
    <3>4. /\ m \in KeyboardStates /\ m.waitingToRead = k.waitingToRead /\ m.buffer = b
          /\ m.readIndex = zero /\ m.writeIndex = zero
      BY <2>1, <3>3 DEF KeyboardStates
    <3> QED
      BY <3>2, <3>4
  <2> QED
    BY <2>3, <2>4
<1> HIDE DEF m
<1>2. ASSUME Ring(k) PROVE Ring(m)
  <2>1. k.writeIndex \in Int /\ PLACES_IN_RING \subseteq Nat
    BY UnreadFacts DEF PLACES_IN_RING
  <2>2. ASSUME NEW i \in PLACES_IN_RING PROVE m.buffer[i] = NUL
    <3>1. CASE i < k.writeIndex
      BY <1>1, <3>1
    <3>2. CASE i >= k.writeIndex
      BY <1>1, <1>2, <2>1, <3>2 DEF Ring
    <3> QED
      BY <2>1, <3>1, <3>2
  <2>3. 0 < BUFFER_SIZE
    BY KeyboardAssumption
  <2> QED
    BY <1>1, <2>1, <2>2, <2>3 DEF Ring
<1>3. PartOf(m, k) /\ UnreadKeys(m) = 0
  BY <1>1, <1>2, NothingUnread, UnreadFacts
<1> QED
  BY <1>3 DEF m

LEMMA RemoveChar ==
  ASSUME NEW k \in KeyboardStates
  PROVE  PartOf(remove_char_from_buffer(k), k)
<1>1. CASE k.writeIndex <= 1
  BY <1>1, PartOfItself DEF remove_char_from_buffer
<1>2. CASE ~(k.writeIndex <= 1)
  <2> DEFINE m == remove_char_from_buffer(k)
             w == k.writeIndex
  <2>1. /\ w \in Int /\ w >= 2 /\ w <= BUFFER_SIZE /\ w - 1 \in PLACES_IN_RING
        /\ w - 2 \in PLACES_IN_RING /\ w - 2 \in 0..BUFFER_SIZE
    BY <1>2, KeyboardAssumption DEF KeyboardStates, PLACES_IN_RING
  <2>2. /\ m \in KeyboardStates /\ m.waitingToRead = k.waitingToRead
        /\ m.readIndex = k.readIndex /\ m.writeIndex = w - 2
        /\ \A i \in PLACES_IN_RING :
              m.buffer[i] = IF i = w - 1 \/ i = w - 2 THEN NUL ELSE k.buffer[i]
    BY <1>2, <2>1 DEF KeyboardStates, remove_char_from_buffer, KeyChars
  <2> HIDE DEF m
  <2>3. ASSUME Ring(k) PROVE Ring(m)
    <3>1. PLACES_IN_RING \subseteq Nat /\ k.readIndex \in Int
      BY UnreadFacts DEF PLACES_IN_RING
    <3>2. ASSUME NEW i \in PLACES_IN_RING
          PROVE  /\ i >= m.writeIndex => m.buffer[i] = NUL
                 /\ m.readIndex <= i /\ i < m.writeIndex => m.buffer[i] # NUL
      <4>1. CASE i = w - 1 \/ i = w - 2
        BY <2>1, <2>2, <4>1
      <4>2. CASE i # w - 1 /\ i # w - 2
        BY <2>1, <2>2, <2>3, <3>1, <4>2 DEF Ring
      <4> QED
        BY <4>1, <4>2
    <3>3. m.writeIndex < BUFFER_SIZE /\ m.readIndex < BUFFER_SIZE
      BY <2>1, <2>2, <2>3, KeyboardAssumption DEF Ring
    <3> QED
      BY <3>2, <3>3 DEF Ring
  <2>4. CASE k.readIndex >= w - 2
    <3>1. PartOf(m, k)
      BY <2>2, <2>3, <2>4, NothingUnread
    <3> QED
      BY <3>1 DEF m
  <2>5. CASE k.readIndex < w - 2
    <3>1. /\ UnreadKeys(m) = w - 2 - k.readIndex /\ UnreadKeys(k) = w - k.readIndex
          /\ k.readIndex \in Int /\ k.readIndex >= 0
      BY <2>1, <2>2, <2>5, UnreadFacts DEF UnreadKeys
    <3>2. ASSUME NEW i \in 1..UnreadKeys(m) PROVE Unread(m)[i] = Unread(k)[i]
      <4>1. i \in 1..w - 2 - k.readIndex
        BY <3>1
      <4>2. k.readIndex + i - 1 \in Int /\ k.readIndex + i - 1 >= 0 /\ k.readIndex + i - 1 < w - 2
        BY <2>1, <3>1, <4>1
      <4>3. i \in 1..UnreadKeys(k) /\ k.readIndex + i - 1 \in PLACES_IN_RING
        BY <2>1, <3>1, <4>1, <4>2, KeyboardAssumption DEF PLACES_IN_RING
      <4>4. m.buffer[k.readIndex + i - 1] = k.buffer[k.readIndex + i - 1]
        BY <2>1, <2>2, <4>2, <4>3
      <4> QED
        BY <2>2, <3>2, <4>3, <4>4, UnreadFacts
    <3>3. PartOf(m, k)
      BY <2>1, <2>2, <2>3, <3>1, <3>2 DEF PartOf
    <3> QED
      BY <3>3 DEF m
  <2> QED
    BY <2>1, <2>4, <2>5, UnreadFacts
<1> QED
  BY <1>1, <1>2

LEMMA CleanRead ==
  ASSUME NEW k \in KeyboardStates
  PROVE  PartOf(clean_read(k), k) /\ UnreadKeys(clean_read(k)) = 0
<1> DEFINE m == clean_read(k)
<1>1. /\ m \in KeyboardStates /\ m.waitingToRead = k.waitingToRead
      /\ m.readIndex = k.writeIndex /\ m.writeIndex = k.writeIndex /\ m.buffer = k.buffer
  BY KeyboardAssumption DEF KeyboardStates, clean_read
<1> HIDE DEF m
<1>2. Ring(k) => Ring(m)
  BY <1>1, UnreadFacts, KeyboardAssumption DEF Ring, PLACES_IN_RING
<1>3. PartOf(m, k) /\ UnreadKeys(m) = 0
  BY <1>1, <1>2, NothingUnread, UnreadFacts
<1> QED
  BY <1>3 DEF m

(* What the handler cleans up before it looks at a key.                    *)
LEMMA CleanedPart ==
  ASSUME kb \in KeyboardStates
  PROVE  PartOf(Cleaned, kb)
<1> DEFINE one == IF CharIn(kb, kb.readIndex - 1) = "newline" THEN clean_buffer(kb) ELSE kb
<1>1. PartOf(one, kb) /\ one \in KeyboardStates
  BY CleanBuffer, PartOfItself DEF PartOf
<1> HIDE DEF one
<1>2. PartOf(remove_char_from_buffer(one), kb)
  BY <1>1, RemoveChar, PartOfPart
<1>3. Cleaned = IF CharIn(one, one.readIndex - 1) = "erase" THEN remove_char_from_buffer(one) ELSE one
  BY DEF Cleaned, one
<1> QED
  BY <1>1, <1>2, <1>3


(* Storing a character.                                                    *)
LEMMA StoreType ==
  ASSUME NEW k \in KeyboardStates, NEW c \in KeyChars, NEW m, m = Store(k, c)
  PROVE  /\ m \in KeyboardStates /\ m.waitingToRead = k.waitingToRead
         /\ m.readIndex = k.readIndex
         /\ \E place \in PLACES_IN_RING :
               /\ place = IF k.writeIndex >= BUFFER_SIZE THEN 0 ELSE k.writeIndex
               /\ m.writeIndex = place + 1 /\ m.buffer = [k.buffer EXCEPT ![place] = c]
<1> DEFINE where == IF k.writeIndex >= BUFFER_SIZE THEN 0 ELSE k.writeIndex
<1>1. where \in PLACES_IN_RING /\ where + 1 \in 0..BUFFER_SIZE
  BY KeyboardAssumption DEF KeyboardStates, PLACES_IN_RING
<1>2. m = [k EXCEPT !.buffer[where] = c, !.writeIndex = where + 1, !.lastIndexFlag = TRUE]
  BY DEF Store
<1> HIDE DEF where
<1>3. PICK next \in 0..BUFFER_SIZE : next = where + 1
  BY <1>1
<1> DEFINE b == [k.buffer EXCEPT ![where] = c]
<1>4. b \in [PLACES_IN_RING -> KeyChars]
  BY <1>1 DEF KeyboardStates
<1>5. /\ m \in KeyboardStates /\ m.waitingToRead = k.waitingToRead
      /\ m.readIndex = k.readIndex /\ m.writeIndex = next /\ m.buffer = b
  <2>1. m = [k EXCEPT !.buffer = b, !.writeIndex = next, !.lastIndexFlag = TRUE]
    BY <1>2, <1>3
  <2> HIDE DEF b
  <2> QED
    BY <1>4, <2>1 DEF KeyboardStates
<1> QED
  BY <1>1, <1>3, <1>5 DEF where

LEMMA StoreRing ==
  ASSUME NEW k \in KeyboardStates, NEW c \in KeyChars \ {NUL}, NEW m, m = Store(k, c),
         Ring(k), m.writeIndex # BUFFER_SIZE
  PROVE  /\ Ring(m)
         /\ \A i \in 1..UnreadKeys(k) : i \in 1..UnreadKeys(m) => Unread(m)[i] = Unread(k)[i]
         /\ k.readIndex <= k.writeIndex =>
               UnreadKeys(m) = UnreadKeys(k) + 1 /\ Unread(m)[UnreadKeys(k) + 1] = c
         /\ ~(k.readIndex <= k.writeIndex) => UnreadKeys(m) = 0
<1> DEFINE w == k.writeIndex
           r == k.readIndex
<1>1. /\ m \in KeyboardStates /\ m.readIndex = r /\ w \in PLACES_IN_RING
      /\ m.writeIndex = w + 1 /\ m.buffer = [k.buffer EXCEPT ![w] = c]
  <2>1. ~(k.writeIndex >= BUFFER_SIZE)
    BY UnreadFacts, KeyboardAssumption DEF Ring
  <2>2. /\ m \in KeyboardStates /\ m.readIndex = k.readIndex
        /\ \E place \in PLACES_IN_RING :
               /\ place = IF k.writeIndex >= BUFFER_SIZE THEN 0 ELSE k.writeIndex
               /\ m.writeIndex = place + 1 /\ m.buffer = [k.buffer EXCEPT ![place] = c]
    BY StoreType
  <2> QED
    BY <2>1, <2>2
<1>2. /\ r \in Nat /\ w \in Nat /\ w + 1 < BUFFER_SIZE /\ r < BUFFER_SIZE
      /\ PLACES_IN_RING = 0..BUFFER_SIZE - 1
  BY <1>1, UnreadFacts, KeyboardAssumption DEF Ring, PLACES_IN_RING, KeyboardStates
<1>3. /\ m.buffer[w] = c /\ \A i \in PLACES_IN_RING : i # w => m.buffer[i] = k.buffer[i]
  BY <1>1 DEF KeyboardStates
<1>4. Ring(m)
  <2>1. ASSUME NEW i \in PLACES_IN_RING
        PROVE  /\ i >= m.writeIndex => m.buffer[i] = NUL
               /\ m.readIndex <= i /\ i < m.writeIndex => m.buffer[i] # NUL
    <3>1. CASE i = w
      BY <1>1, <1>2, <1>3, <3>1
    <3>2. CASE i # w
      BY <1>1, <1>2, <1>3, <3>2 DEF Ring
    <3> QED
      BY <3>1, <3>2
  <2> QED
    BY <1>1, <1>2, <2>1 DEF Ring
<1>5. CASE r <= w
  <2>1. UnreadKeys(m) = w + 1 - r /\ UnreadKeys(k) = w - r
    BY <1>1, <1>2, <1>5 DEF UnreadKeys
  <2>2. ASSUME NEW i \in 1..w - r PROVE Unread(m)[i] = Unread(k)[i]
    <3> HIDE DEF w, r
    <3>1. r + i - 1 \in PLACES_IN_RING /\ r + i - 1 # w
      BY <1>2, <1>5, KeyboardAssumption DEF PLACES_IN_RING
    <3>2. i \in 1..UnreadKeys(m) /\ i \in 1..UnreadKeys(k)
      BY <1>2, <1>5, <2>1
    <3>3. Unread(m)[i] = m.buffer[r + i - 1] /\ Unread(k)[i] = k.buffer[r + i - 1]
      <4>1. Unread(m)[i] = m.buffer[m.readIndex + i - 1]
        <5>1. m \in KeyboardStates
          BY <1>1
        <5> QED
          BY ONLY <5>1, <3>2, UnreadAt
      <4>2. Unread(k)[i] = k.buffer[k.readIndex + i - 1]
        BY ONLY k \in KeyboardStates, <3>2, UnreadAt
      <4> QED
        BY <1>1, <4>1, <4>2 DEF r
    <3> QED
      BY <1>3, <3>1, <3>3
  <2>3. Unread(m)[w - r + 1] = c
    <3>1. r + (w - r + 1) - 1 = w /\ w - r + 1 \in 1..UnreadKeys(m)
      <4> HIDE DEF w, r
      <4> QED
        BY <1>2, <1>5, <2>1
    <3> DEFINE i == w - r + 1
    <3>2. m.readIndex + i - 1 = w /\ i \in 1..UnreadKeys(m)
      BY <1>1, <3>1
    <3> HIDE DEF i
    <3>3. Unread(m)[i] = m.buffer[m.readIndex + i - 1]
      <4>1. m \in KeyboardStates
        BY <1>1
      <4> QED
        BY ONLY <4>1, <3>2, UnreadAt
    <3> QED
      BY <1>3, <3>2, <3>3 DEF i
  <2> QED
    BY <1>2, <1>4, <1>5, <2>1, <2>2, <2>3
<1>6. CASE ~(r <= w)
  <2>1. UnreadKeys(m) = 0 /\ UnreadKeys(k) = 0
    BY <1>1, <1>2, <1>6 DEF UnreadKeys
  <2> QED
    BY <1>4, <1>6, <2>1
<1> QED
  BY <1>5, <1>6

(* A key is available when some are unread.                                *)
LEMMA Available ==
  ASSUME NEW k \in KeyboardStates, Ring(k)
  PROVE  is_key_available(k) <=> UnreadKeys(k) > 0
<1>1. /\ k.readIndex \in PLACES_IN_RING /\ k.readIndex \in Nat /\ k.writeIndex \in Nat
      /\ k.readIndex # -1 /\ k.readIndex # BUFFER_SIZE
  BY UnreadFacts, KeyboardAssumption DEF Ring, PLACES_IN_RING
<1>2. is_key_available(k) <=> k.buffer[k.readIndex] # NUL
  BY <1>1 DEF is_key_available, CharIn
<1>3. k.buffer[k.readIndex] # NUL <=> k.readIndex < k.writeIndex
  BY <1>1 DEF Ring
<1> QED
  BY <1>1, <1>2, <1>3 DEF UnreadKeys

(* How many characters a read takes.                                       *)
LEMMA TakenFacts ==
  ASSUME NEW k, NEW size \in Nat, NEW n, n = Taken(k, size)
  PROVE  /\ n \in 0..size
         /\ \A i \in 0..n - 1 : CharIn(k, RingPlace(k, i)) # NUL
         /\ n < size => CharIn(k, RingPlace(k, n)) = NUL
<1> DEFINE T == {l \in 0..size : \A i \in 0..l - 1 : CharIn(k, RingPlace(k, i)) # NUL}
<1>1. T \subseteq 0..size /\ 0 \in T
  OBVIOUS
<1>2. n = Max(T)
  BY DEF Taken
<1> HIDE DEF T
<1>3. n \in T /\ \A l \in T : l <= n
  BY <1>1, <1>2, MaxOfNaturals
<1> USE DEF T
<1>4. ASSUME n < size, CharIn(k, RingPlace(k, n)) # NUL PROVE FALSE
  <2>1. PICK l \in 0..size : l = n + 1
    BY <1>3, <1>4
  <2>2. ASSUME NEW i \in 0..l - 1 PROVE CharIn(k, RingPlace(k, i)) # NUL
    <3>1. i = n \/ i \in 0..n - 1
      BY <1>3, <2>1
    <3> QED
      BY <1>3, <1>4, <3>1
  <2>3. l \in T
    BY <2>2
  <2> HIDE DEF T
  <2>4. n \in Int
    BY <1>1, <1>3
  <2> QED
    BY <1>3, <2>1, <2>3, <2>4
<1> QED
  BY <1>3, <1>4


(* Where in the ring a read looks.                                         *)
LEMMA PlaceInRing ==
  ASSUME NEW k \in KeyboardStates, NEW i \in Nat, k.readIndex + i < BUFFER_SIZE
  PROVE  /\ RingPlace(k, i) = k.readIndex + i
         /\ (k.readIndex + i) % BUFFER_SIZE = k.readIndex + i
         /\ k.readIndex + i \in PLACES_IN_RING
         /\ CharIn(k, RingPlace(k, i)) = k.buffer[k.readIndex + i]
<1>1. k.readIndex + i \in Nat /\ BUFFER_SIZE \in Nat \ {0}
  BY UnreadFacts, KeyboardAssumption
<1>2. ASSUME NEW a \in Nat, a < BUFFER_SIZE PROVE a % BUFFER_SIZE = a
  BY <1>1, <1>2
<1>3. (k.readIndex + i) % BUFFER_SIZE = k.readIndex + i
  BY <1>1, <1>2
<1>4. RingPlace(k, i) = k.readIndex + i
  BY <1>3, UnreadFacts DEF RingPlace
<1>5. k.readIndex + i \in PLACES_IN_RING /\ k.readIndex + i # -1 /\ k.readIndex + i # BUFFER_SIZE
  BY <1>1 DEF PLACES_IN_RING
<1> QED
  BY <1>3, <1>4, <1>5 DEF CharIn

(* The n places read hold NUL afterwards, and the others what they held.    *)
Emptied(k, m, n) ==
  /\ \A i \in 0..n - 1 : RingPlace(k, i) \in PLACES_IN_RING => m.buffer[RingPlace(k, i)] = NUL
  /\ \A j \in PLACES_IN_RING :
        (\A i \in 0..n - 1 : RingPlace(k, i) # j) => m.buffer[j] = k.buffer[j]

(* The unread keys of m are those of k but the first n.                    *)
Shifted(k, m, n) == \A i \in 1..UnreadKeys(m) : Unread(m)[i] = Unread(k)[i + n]

(* What a read takes from the ring: the first of the unread characters.    *)
LEMMA GetType ==
  ASSUME NEW k \in KeyboardStates, NEW size \in Nat, NEW n, n = Taken(k, size),
         NEW m, m = AfterGet(k, size)
  PROVE  /\ m \in KeyboardStates /\ m.waitingToRead = k.waitingToRead
         /\ m.writeIndex = k.writeIndex
         /\ m.readIndex = IF n = 0 THEN k.readIndex ELSE (k.readIndex + n) % BUFFER_SIZE
         /\ Emptied(k, m, n)
<1> DEFINE places == {RingPlace(k, i) : i \in 0..n - 1}
           b == [j \in PLACES_IN_RING |-> IF j \in places THEN NUL ELSE k.buffer[j]]
           a == IF BUFFER_SIZE \in places THEN NUL ELSE k.after
           r == IF n = 0 THEN k.readIndex ELSE (k.readIndex + n) % BUFFER_SIZE
<1>1. n \in Nat
  BY TakenFacts
<1>2. b \in [PLACES_IN_RING -> KeyChars] /\ a \in KeyChars
  BY DEF KeyboardStates, KeyChars
<1>3. r \in 0..BUFFER_SIZE
  <2>1. BUFFER_SIZE \in Nat \ {0} /\ k.readIndex + n \in Nat /\ k.readIndex \in 0..BUFFER_SIZE
    BY <1>1, UnreadFacts, KeyboardAssumption DEF KeyboardStates
  <2>2. (k.readIndex + n) % BUFFER_SIZE \in 0..BUFFER_SIZE - 1
    BY <2>1
  <2> QED
    BY <2>1, <2>2
<1>4. m = [k EXCEPT !.buffer = b, !.after = a, !.readIndex = r]
  BY DEF AfterGet
<1>5. /\ \A i \in 0..n - 1 : RingPlace(k, i) \in PLACES_IN_RING => b[RingPlace(k, i)] = NUL
      /\ \A j \in PLACES_IN_RING : (\A i \in 0..n - 1 : RingPlace(k, i) # j) => b[j] = k.buffer[j]
  OBVIOUS
<1> HIDE DEF b, a, r, places
<1>6. /\ m \in KeyboardStates /\ m.waitingToRead = k.waitingToRead
      /\ m.writeIndex = k.writeIndex /\ m.readIndex = r /\ m.buffer = b
  BY <1>2, <1>3, <1>4 DEF KeyboardStates
<1> QED
  BY <1>5, <1>6 DEF r, Emptied

LEMMA GetRing ==
  ASSUME NEW k \in KeyboardStates, NEW size \in Nat, NEW n, n = Taken(k, size),
         NEW m, m = AfterGet(k, size), Ring(k)
  PROVE  /\ Ring(m)
         /\ n \in Nat /\ n + UnreadKeys(m) = UnreadKeys(k)
         /\ Shifted(k, m, n)
         /\ DOMAIN get_buffer(k, size) = 1..n
         /\ \A i \in 1..n : get_buffer(k, size)[i] = Unread(k)[i]
<1>0. /\ m \in KeyboardStates /\ m.writeIndex = k.writeIndex
      /\ m.readIndex = IF n = 0 THEN k.readIndex ELSE (k.readIndex + n) % BUFFER_SIZE
      /\ Emptied(k, m, n)
  BY GetType
<1> DEFINE u == UnreadKeys(k)
           q == k.readIndex
           w == k.writeIndex
<1>1. /\ u \in Nat /\ q \in Nat /\ w \in Nat /\ w < BUFFER_SIZE /\ q < BUFFER_SIZE
      /\ BUFFER_SIZE \in Nat \ {0}
      /\ q < w => q + u = w
      /\ ~(q < w) => u = 0
  BY UnreadFacts, KeyboardAssumption DEF Ring
<1>2. /\ n \in 0..size
      /\ \A i \in 0..n - 1 : CharIn(k, RingPlace(k, i)) # NUL
  BY TakenFacts
<1>3. n <= u
  <2> SUFFICES ASSUME n > u PROVE FALSE
    BY <1>1, <1>2
  <2>1. CharIn(k, RingPlace(k, u)) # NUL
    BY <1>1, <1>2
  <2>2. q + u < BUFFER_SIZE /\ q + u >= w
    BY <1>1
  <2>3. k.buffer[q + u] = NUL
    <3>1. q + u \in PLACES_IN_RING
      BY <1>1, <2>2, PlaceInRing
    <3> QED
      BY <2>2, <3>1 DEF Ring
  <2> QED
    BY <1>1, <2>1, <2>2, <2>3, PlaceInRing
<1>4. /\ m \in KeyboardStates /\ m.writeIndex = w /\ m.readIndex = q + n
      /\ \A j \in PLACES_IN_RING : m.buffer[j] = IF j \in q..q + n - 1 THEN NUL ELSE k.buffer[j]
  <2>1. q + n < BUFFER_SIZE /\ n \in Nat
    BY <1>1, <1>2, <1>3
  <2>2. m.readIndex = q + n
    BY <1>0, <1>1, <2>1, PlaceInRing
  <2>3. \A i \in 0..n - 1 : RingPlace(k, i) = q + i
    <3> TAKE i \in 0..n - 1
    <3>1. i \in Nat /\ q + i < BUFFER_SIZE
      BY <1>1, <1>2, <2>1
    <3> QED
      BY <3>1, PlaceInRing
  <2>4. ASSUME NEW j \in PLACES_IN_RING
        PROVE  m.buffer[j] = IF j \in q..q + n - 1 THEN NUL ELSE k.buffer[j]
    <3>1. j \in Nat
      BY DEF PLACES_IN_RING
    <3>2. CASE j \in q..q + n - 1
      <4>1. j - q \in 0..n - 1 /\ j = q + (j - q)
        BY <1>1, <2>1, <3>1, <3>2
      <4>2. RingPlace(k, j - q) = j
        BY <2>3, <4>1
      <4> QED
        BY <1>0, <3>2, <4>1, <4>2 DEF Emptied
    <3>3. CASE j \notin q..q + n - 1
      <4>1. ASSUME NEW i \in 0..n - 1 PROVE RingPlace(k, i) # j
        BY <1>1, <2>1, <2>3, <3>1, <3>3
      <4> QED
        BY <1>0, <3>3, <4>1 DEF Emptied
    <3> QED
      BY <3>2, <3>3
  <2> QED
    BY <1>0, <2>2, <2>4
<1>5. UnreadKeys(m) = u - n
  <2>1. CASE q < w
    BY <1>1, <1>2, <1>3, <1>4, <2>1 DEF UnreadKeys
  <2>2. CASE ~(q < w)
    BY <1>1, <1>2, <1>3, <1>4, <2>2 DEF UnreadKeys
  <2> QED
    BY <2>1, <2>2
<1>6. Ring(m)
  <2>1. ASSUME NEW j \in PLACES_IN_RING
        PROVE  /\ j >= m.writeIndex => m.buffer[j] = NUL
               /\ m.readIndex <= j /\ j < m.writeIndex => m.buffer[j] # NUL
    <3>1. j \in Nat /\ n \in Nat
      BY <1>2 DEF PLACES_IN_RING
    <3>2. CASE j \in q..q + n - 1
      BY <1>1, <1>4, <3>1, <3>2
    <3>3. CASE j \notin q..q + n - 1
      BY <1>1, <1>4, <3>1, <3>3 DEF Ring
    <3> QED
      BY <3>2, <3>3
  <2>2. m.writeIndex < BUFFER_SIZE /\ m.readIndex < BUFFER_SIZE
    BY <1>1, <1>2, <1>3, <1>4
  <2> QED
    BY <2>1, <2>2 DEF Ring
<1>7. ASSUME NEW i \in 1..UnreadKeys(m) PROVE Unread(m)[i] = Unread(k)[i + n]
  <2>1. /\ i \in Nat /\ n \in Nat /\ i + n \in 1..UnreadKeys(k) /\ q < w
        /\ q + n + i - 1 \in PLACES_IN_RING /\ q + n + i - 1 \notin q..q + n - 1
        /\ q + (i + n) - 1 = q + n + i - 1
    BY <1>1, <1>2, <1>3, <1>5 DEF PLACES_IN_RING
  <2>2. Unread(m)[i] = m.buffer[q + n + i - 1] /\ Unread(k)[i + n] = k.buffer[q + (i + n) - 1]
    BY <1>4, <2>1, UnreadAt
  <2> QED
    BY <1>4, <2>1, <2>2
<1>8. DOMAIN get_buffer(k, size) = 1..n
  BY DEF get_buffer
<1>9. ASSUME NEW i \in 1..n PROVE get_buffer(k, size)[i] = Unread(k)[i]
  <2>1. /\ i - 1 \in Nat /\ q + (i - 1) < BUFFER_SIZE /\ i \in 1..UnreadKeys(k)
        /\ q + (i - 1) = q + i - 1
    BY <1>1, <1>2, <1>3
  <2>2. get_buffer(k, size)[i] = k.buffer[q + (i - 1)]
    BY <2>1, PlaceInRing DEF get_buffer
  <2> QED
    BY <2>1, <2>2, UnreadFacts
<1>10. Shifted(k, m, n)
  BY <1>7 DEF Shifted
<1>11. n \in Nat /\ n + UnreadKeys(m) = UnreadKeys(k)
  BY <1>1, <1>2, <1>3, <1>5
<1> QED
  BY <1>6, <1>8, <1>9, <1>10, <1>11


-----------------------------------------------------------------------------
(* The steps.                                                              *)

(* A reader less or more among those that are awake.                       *)
LEMMA ReadyCount ==
  ASSUME IsFiniteSet(Ready), NEW p \in Readers
  PROVE  /\ Cardinality(Ready) \in Nat
         /\ IsFiniteSet(Ready \ {p}) /\ IsFiniteSet(Ready \cup {p})
         /\ p \in Ready => Cardinality(Ready \ {p}) = Cardinality(Ready) - 1
         /\ p \notin Ready => Cardinality(Ready \cup {p}) = Cardinality(Ready) + 1
BY FS_CardinalityType, FS_AddElement, FS_RemoveElement

(* The unread characters from place n + 1 on.                              *)
LEMMA RestOfUnread ==
  ASSUME NEW k \in KeyboardStates, NEW m \in KeyboardStates, NEW n \in Nat,
         n + UnreadKeys(m) = UnreadKeys(k),
         Shifted(k, m, n),
         NEW t, IsSubsequence(Unread(k), t)
  PROVE  IsSubsequence(Unread(m), t)
<1>1. IsPart(Unread(m), Unread(k), n)
  BY UnreadFacts DEF IsPart, Shifted
<1> QED
  BY <1>1, PartOfSubsequence

(* What is unread after something that added no character has been typed   *)
(* to everyone who is reading.                                             *)
LEMMA PartWasTyped ==
  ASSUME KeyInv, ~wrapped, NEW k, PartOf(k, kb), NEW p \in Readers, reader[p].at # "out"
  PROVE  IsSubsequence(Unread(k), typed[p])
<1>1. /\ k \in KeyboardStates /\ kb \in KeyboardStates /\ Ring(kb)
      /\ IsSubsequence(Unread(kb), typed[p])
  BY DEF KeyInv, KeysOK, PartOf
<1>2. /\ UnreadKeys(k) \in Nat /\ DOMAIN Unread(k) = 1..UnreadKeys(k)
      /\ UnreadKeys(kb) \in Nat /\ DOMAIN Unread(kb) = 1..UnreadKeys(kb)
  BY <1>1, UnreadFacts
<1>3. /\ UnreadKeys(k) <= UnreadKeys(kb)
      /\ \A i \in 1..UnreadKeys(k) : Unread(k)[i] = Unread(kb)[i]
  BY <1>1 DEF PartOf
<1>4. IsPart(Unread(k), Unread(kb), 0)
  BY <1>2, <1>3 DEF IsPart
<1> QED
  BY <1>1, <1>4, PartOfSubsequence

(* Nothing changes but the keyboard, which gets no character.              *)
LEMMA PartKeeps ==
  ASSUME KeyInv, PartOf(kb', kb), UNCHANGED <<reader, typed, wrapped, swallowed>>
  PROVE  KeyInv'
<1>1. kb' \in KeyboardStates /\ kb'.waitingToRead = kb.waitingToRead
  BY DEF PartOf
<1>2. Ready' = Ready
  BY DEF Ready
<1>3. ReadersOK' /\ IsFiniteSet(Ready)'
  BY <1>1, <1>2 DEF KeyInv, ReadersOK
<1>4. ASSUME ~wrapped PROVE KeysOK'
  <2>1. Ring(kb') /\ UnreadKeys(kb') <= UnreadKeys(kb)
    BY <1>4 DEF KeyInv, KeysOK, PartOf
  <2>2. \A p \in Readers : reader[p].at # "out" => IsSubsequence(Unread(kb'), typed[p])
    BY <1>4, PartWasTyped
  <2>3. ~swallowed /\ (\E p \in Readers : reader[p].at = "asleep") =>
           UnreadKeys(kb') <= Cardinality(Ready)
    <3>1. UnreadKeys(kb') \in Nat /\ UnreadKeys(kb) \in Nat /\ Cardinality(Ready) \in Nat
      BY <1>1, UnreadFacts, FS_CardinalityType DEF KeyInv
    <3> QED
      BY <1>4, <2>1, <3>1 DEF KeyInv, KeysOK
  <2>4. Cardinality(Ready)' = Cardinality(Ready)
    BY <1>2
  <2> QED
    BY <2>1, <2>2, <2>3, <2>4 DEF KeysOK
<1> QED
  BY <1>1, <1>3, <1>4 DEF KeyInv, KeysOK

(* A turn of read's loop.                                                  *)
LEMMA TurnKeeps ==
  ASSUME KeyInv, NEW k, PartOf(k, kb), NEW p \in Readers, NEW size \in Sizes,
         reader[p].at # "asleep", Turn(k, p, size), UNCHANGED <<wrapped, swallowed>>,
         ~wrapped /\ reader[p].at = "out" => UnreadKeys(k) = 0
  PROVE  KeyInv'
<1>1. /\ k \in KeyboardStates /\ kb \in KeyboardStates /\ k.waitingToRead = kb.waitingToRead
      /\ size \in Nat /\ size >= 1
  BY KeyboardAssumption DEF PartOf, KeyInv
<1>2. /\ ReadersOK /\ IsFiniteSet(Ready)
      /\ ~wrapped => Ring(k)
  BY DEF KeyInv, KeysOK, PartOf
<1>3. CASE is_key_available(k)
  <2> DEFINE n == Taken(k, size)
  <2>1. /\ kb' = AfterGet(k, size)
        /\ reader' = [reader EXCEPT ![p] = Out]
        /\ typed' = [typed EXCEPT ![p] = <<>>]
    BY <1>3 DEF Turn
  <2>2. kb' \in KeyboardStates /\ kb'.waitingToRead = kb.waitingToRead
    BY SMTT(40), <1>1, <2>1, GetType
  <2>3. Ready' = Ready \ {p}
    BY <1>2, <2>1 DEF Ready, ReadersOK, Out
  <2>4. IsFiniteSet(Ready)'
    BY <1>2, <2>3, ReadyCount
  <2>5. ReadersOK'
    <3>1. reader' \in [Readers -> [at : {"out", "asleep", "ready"}, size : Sizes \cup {0}]]
      BY <1>2, <2>1 DEF ReadersOK, Out
    <3>2. typed' \in [Readers -> Seq(KeyChars)]
      BY <1>2, <2>1 DEF ReadersOK
    <3>3. ASSUME NEW o \in Readers
          PROVE  /\ IF reader'[o].at = "out" THEN typed'[o] = <<>> ELSE reader'[o].size \in Sizes
                 /\ reader'[o].at = "asleep" => InQueue(kb'.waitingToRead, o)
      <4>1. CASE o = p
        BY <1>2, <2>1, <4>1 DEF ReadersOK, Out
      <4>2. CASE o # p
        BY <1>2, <2>1, <2>2, <4>2 DEF ReadersOK
      <4> QED
        BY <4>1, <4>2
    <3> QED
      BY <1>2, <3>1, <3>2, <3>3 DEF ReadersOK
  <2>6. ASSUME ~wrapped PROVE KeysOK'
    <3>1. /\ Ring(kb') /\ n \in Nat /\ n + UnreadKeys(kb') = UnreadKeys(k)
          /\ Shifted(k, kb', n)
      BY <1>1, <1>2, <2>1, <2>6, GetRing
    <3>2. UnreadKeys(k) > 0 /\ reader[p].at = "ready"
      <4>1. UnreadKeys(k) > 0
        BY <1>1, <1>2, <1>3, <2>6, Available
      <4> QED
        BY <1>2, <2>6, <4>1 DEF ReadersOK
    <3>3. n >= 1
      <4> SUFFICES ASSUME n = 0 PROVE FALSE
        BY <3>1
      <4>1. CharIn(k, RingPlace(k, 0)) = NUL
        BY <1>1, TakenFacts
      <4>2. RingPlace(k, 0) = k.readIndex
        BY DEF RingPlace
      <4> QED
        BY <1>3, <4>1, <4>2 DEF is_key_available
    <3> HIDE DEF n
    <3>4. UnreadKeys(k) <= UnreadKeys(kb)
      BY <2>6 DEF PartOf, KeyInv, KeysOK
    <3>5. /\ UnreadKeys(k) \in Nat /\ UnreadKeys(kb) \in Nat /\ UnreadKeys(kb') \in Nat
          /\ DOMAIN Unread(k) = 1..UnreadKeys(k) /\ DOMAIN Unread(kb') = 1..UnreadKeys(kb')
      BY <1>1, <2>2, UnreadFacts
    <3>6. ASSUME NEW o \in Readers, reader'[o].at # "out"
          PROVE  IsSubsequence(Unread(kb'), typed'[o])
      <4>1. reader[o].at # "out" /\ typed'[o] = typed[o]
        BY <1>2, <2>1, <3>6 DEF ReadersOK, Out
      <4>2. IsSubsequence(Unread(k), typed[o])
        BY <2>6, <4>1, PartWasTyped
      <4>3. IsSubsequence(Unread(kb'), typed[o])
        BY ONLY <1>1, <2>2, <3>1, <4>2, RestOfUnread
      <4> QED
        BY <4>1, <4>3
    <3>7. ASSUME ~swallowed, NEW o \in Readers, reader'[o].at = "asleep"
          PROVE  UnreadKeys(kb') <= Cardinality(Ready')
      <4>1. reader[o].at = "asleep"
        BY <1>2, <2>1, <3>7 DEF ReadersOK, Out
      <4>2. UnreadKeys(kb) <= Cardinality(Ready)
        BY <2>6, <3>7, <4>1 DEF KeyInv, KeysOK
      <4>3. p \in Ready
        BY <3>2 DEF Ready
      <4>4. Cardinality(Ready') = Cardinality(Ready) - 1 /\ Cardinality(Ready) \in Nat
        BY <1>2, <2>3, <4>3, ReadyCount
      <4> QED
        BY <3>1, <3>3, <3>4, <3>5, <4>2, <4>4
    <3> QED
      BY <3>1, <3>6, <3>7 DEF KeysOK
  <2> QED
    BY <2>2, <2>4, <2>5, <2>6 DEF KeyInv, KeysOK
<1>4. CASE ~is_key_available(k)
  <2>1. /\ kb' = [k EXCEPT !.waitingToRead = Append(@, p)]
        /\ reader' = [reader EXCEPT ![p] = [at |-> "asleep", size |-> size]]
        /\ typed' = typed
    BY <1>4 DEF Turn
  <2>2. PICK q \in Seq(Readers) :
          /\ q = Append(k.waitingToRead, p)
          /\ \A o : InQueue(q, o) <=> InQueue(kb.waitingToRead, o) \/ o = p
    <3> DEFINE w == k.waitingToRead
    <3>1. w \in Seq(Readers)
      BY <1>1 DEF KeyboardStates
    <3>2. /\ Append(w, p) \in Seq(Readers)
          /\ \A o : InQueue(Append(w, p), o) <=> InQueue(w, o) \/ o = p
      <4> DEFINE v == Append(w, p)
      <4>1. v = Append(w, p)
        OBVIOUS
      <4> HIDE DEF w, v
      <4>2. v \in Seq(Readers)
        BY <3>1, <4>1
      <4>3. JoinedBy(w, p, v)
        BY ONLY <3>1, <4>1, p \in Readers, JoiningQueue
      <4> QED
        BY <4>1, <4>2, <4>3 DEF JoinedBy
    <3> QED
      BY <1>1, <3>2
  <2>3. kb' = [k EXCEPT !.waitingToRead = q]
    BY <2>1, <2>2
  <2>4. /\ kb' \in KeyboardStates /\ kb'.waitingToRead = q /\ kb'.buffer = k.buffer
        /\ kb'.readIndex = k.readIndex /\ kb'.writeIndex = k.writeIndex
    BY <1>1, <2>3 DEF KeyboardStates
  <2>5. Ready' = Ready \ {p}
    BY <1>2, <2>1 DEF Ready, ReadersOK
  <2>6. IsFiniteSet(Ready)'
    BY <1>2, <2>5, ReadyCount
  <2>7. ReadersOK'
    <3>1. reader' \in [Readers -> [at : {"out", "asleep", "ready"}, size : Sizes \cup {0}]]
      BY <1>2, <2>1 DEF ReadersOK
    <3>2. ASSUME NEW o \in Readers
          PROVE  /\ IF reader'[o].at = "out" THEN typed'[o] = <<>> ELSE reader'[o].size \in Sizes
                 /\ reader'[o].at = "asleep" => InQueue(kb'.waitingToRead, o)
      <4>1. CASE o = p
        BY <1>2, <2>1, <2>2, <2>4, <4>1 DEF ReadersOK
      <4>2. CASE o # p
        BY <1>2, <2>1, <2>2, <2>4, <4>2 DEF ReadersOK
      <4> QED
        BY <4>1, <4>2
    <3> QED
      BY <1>2, <2>1, <3>1, <3>2 DEF ReadersOK
  <2>8. ASSUME ~wrapped PROVE KeysOK'
    <3>1. UnreadKeys(kb') = 0 /\ Ring(kb')
      <4>1. UnreadKeys(k) = 0
        BY <1>1, <1>2, <1>4, <2>8, Available, UnreadFacts
      <4> QED
        BY <1>1, <1>2, <2>4, <2>8, <4>1, SameRing
    <3>2. ASSUME NEW o \in Readers PROVE IsSubsequence(Unread(kb'), typed'[o])
      <4>1. DOMAIN Unread(kb') = {}
        BY <2>4, <3>1, UnreadFacts
      <4> QED
        BY <4>1, EmptySubsequence
    <3>3. UnreadKeys(kb') <= Cardinality(Ready')
      BY <2>6, <3>1, FS_CardinalityType
    <3> QED
      BY <3>1, <3>2, <3>3 DEF KeysOK
  <2> QED
    BY <2>4, <2>6, <2>7, <2>8 DEF KeyInv, KeysOK
<1> QED
  BY <1>3, <1>4

(* Processes that leave their read.                                        *)
LEMMA LeaveKeeps ==
  ASSUME KeyInv, NEW dead, Leave(dead), kb' \in KeyboardStates,
         kb'.waitingToRead = kb.waitingToRead, wrapped' \in BOOLEAN, swallowed' \in BOOLEAN
  PROVE  /\ ReadersOK' /\ Ready' = Ready \ dead /\ IsFiniteSet(Ready')
         /\ \A o \in Readers : reader'[o].at # "out" => reader'[o] = reader[o] /\ typed'[o] = typed[o]
<1>1. ReadersOK /\ IsFiniteSet(Ready)
  BY DEF KeyInv
<1>2. /\ reader' = [o \in Readers |-> IF o \in dead THEN Out ELSE reader[o]]
      /\ typed' = [o \in Readers |-> IF o \in dead THEN <<>> ELSE typed[o]]
  BY DEF Leave
<1>3. \A o \in Readers :
         IF o \in dead THEN reader'[o] = Out /\ typed'[o] = <<>>
         ELSE reader'[o] = reader[o] /\ typed'[o] = typed[o]
  BY <1>2
<1>4. Out.at = "out"
  BY DEF Out
<1>5. Ready' = Ready \ dead
  BY <1>3, <1>4 DEF Ready
<1>6. IsFiniteSet(Ready')
  <2>1. (Ready \ dead) \in SUBSET Ready
    OBVIOUS
  <2> QED
    BY ONLY <1>1, <1>5, <2>1, FS_Subset
<1>7. reader' \in [Readers -> [at : {"out", "asleep", "ready"}, size : Sizes \cup {0}]]
  <2>1. Out \in [at : {"out", "asleep", "ready"}, size : Sizes \cup {0}]
    BY DEF Out
  <2> QED
    BY <1>1, <1>2, <2>1 DEF ReadersOK
<1>8. typed' \in [Readers -> Seq(KeyChars)]
  <2>1. typed \in [Readers -> Seq(KeyChars)] /\ <<>> \in Seq(KeyChars)
    BY <1>1 DEF ReadersOK
  <2> QED
    BY <1>2, <2>1
<1>9. ASSUME NEW o \in Readers
      PROVE  /\ IF reader'[o].at = "out" THEN typed'[o] = <<>> ELSE reader'[o].size \in Sizes
             /\ reader'[o].at = "asleep" => InQueue(kb'.waitingToRead, o)
  <2>1. CASE o \in dead
    BY <1>3, <1>4, <2>1
  <2>2. CASE o \notin dead
    BY <1>1, <1>3, <2>2 DEF ReadersOK
  <2> QED
    BY <2>1, <2>2
<1> QED
  BY <1>3, <1>4, <1>5, <1>6, <1>7, <1>8, <1>9 DEF ReadersOK

(* ^C.                                                                     *)
LEMMA KilledKeeps ==
  ASSUME KeyInv, NEW k, PartOf(k, kb), NEW dead, Killed(k, dead)
  PROVE  KeyInv'
<1>1. k \in KeyboardStates /\ kb \in KeyboardStates /\ ReadersOK
  BY DEF PartOf, KeyInv
<1>2. PartOf(kb', kb) /\ UnreadKeys(kb') = 0
  BY <1>1, CleanBuffer, PartOfPart DEF Killed
<1>3. /\ kb' \in KeyboardStates /\ kb'.waitingToRead = kb.waitingToRead
      /\ wrapped' = wrapped /\ swallowed' = swallowed /\ Leave(dead)
  BY <1>2 DEF PartOf, Killed
<1>4. ReadersOK' /\ IsFiniteSet(Ready')
  BY <1>1, <1>3, LeaveKeeps DEF ReadersOK
<1>5. ASSUME ~wrapped PROVE KeysOK'
  <2>1. Ring(kb')
    BY <1>2, <1>5 DEF PartOf, KeyInv, KeysOK
  <2>2. ASSUME NEW o \in Readers PROVE IsSubsequence(Unread(kb'), typed'[o])
    <3>1. DOMAIN Unread(kb') = {}
      BY <1>2, <1>3, UnreadFacts
    <3> QED
      BY <3>1, EmptySubsequence
  <2>3. UnreadKeys(kb') <= Cardinality(Ready')
    BY <1>2, <1>4, FS_CardinalityType
  <2> QED
    BY <2>1, <2>2, <2>3 DEF KeysOK
<1> QED
  BY <1>3, <1>4, <1>5 DEF KeyInv, KeysOK

(* A kill that leaves the ring as it is.                                   *)
LEMMA KillReaderKeeps ==
  ASSUME KeyInv, NEW p \in Readers, KillReader(p)
  PROVE  KeyInv'
<1>1. kb \in KeyboardStates /\ ReadersOK /\ kb' = kb /\ wrapped' = wrapped /\ Leave({p})
  BY DEF KeyInv, KillReader
<1>2. swallowed' = (swallowed \/ reader[p].at = "ready")
  BY DEF KillReader
<1>3. swallowed' \in BOOLEAN /\ wrapped' \in BOOLEAN
  BY <1>1, <1>2 DEF ReadersOK
<1>4. /\ ReadersOK' /\ Ready' = Ready \ {p} /\ IsFiniteSet(Ready')
      /\ \A o \in Readers : reader'[o].at # "out" => reader'[o] = reader[o] /\ typed'[o] = typed[o]
  BY <1>1, <1>3, LeaveKeeps
<1>5. ASSUME ~wrapped PROVE KeysOK'
  <2>1. Ring(kb')
    BY <1>1, <1>5 DEF KeyInv, KeysOK
  <2>2. ASSUME NEW o \in Readers, reader'[o].at # "out" PROVE IsSubsequence(Unread(kb'), typed'[o])
    BY <1>1, <1>4, <1>5, <2>2 DEF KeyInv, KeysOK
  <2>3. ASSUME ~swallowed', NEW o \in Readers, reader'[o].at = "asleep"
        PROVE  UnreadKeys(kb') <= Cardinality(Ready')
    <3>1. p \notin Ready /\ ~swallowed
      BY <1>2, <2>3 DEF Ready
    <3>2. Ready' = Ready /\ reader[o].at = "asleep"
      BY <1>4, <2>3, <3>1
    <3> QED
      BY <1>1, <1>5, <3>1, <3>2 DEF KeyInv, KeysOK
  <2> QED
    BY <2>1, <2>2, <2>3 DEF KeysOK
<1> QED
  BY <1>1, <1>4, <1>5 DEF KeyInv, KeysOK

(* A character: the head of the queue is woken for it.                     *)
LEMMA AddedQueue ==
  ASSUME NEW k \in KeyboardStates, NEW c \in KeyChars, Add(k, c)
  PROVE  /\ kb' \in KeyboardStates
         /\ LET m == Store(k, c)
            IN  /\ m \in KeyboardStates /\ kb'.buffer = m.buffer
                /\ kb'.readIndex = m.readIndex /\ kb'.writeIndex = m.writeIndex
         /\ k.waitingToRead = <<>> => kb'.waitingToRead = <<>> /\ reader' = reader
         /\ k.waitingToRead # <<>> =>
              /\ Head(k.waitingToRead) \in Readers /\ reader' = Wakes(Head(k.waitingToRead))
              /\ \A o : InQueue(k.waitingToRead, o) /\ o # Head(k.waitingToRead) =>
                       InQueue(kb'.waitingToRead, o)
<1> DEFINE m == Store(k, c)
           w == k.waitingToRead
<1>1. m \in KeyboardStates /\ m.waitingToRead = w /\ w \in Seq(Readers)
  BY StoreType DEF KeyboardStates
<1>2. CASE w = <<>>
  <2>1. kb' = m /\ reader' = reader
    BY <1>2 DEF Add
  <2> HIDE DEF m
  <2> QED
    BY <1>1, <1>2, <2>1 DEF m
<1>3. CASE w # <<>>
  <2>1. kb' = [m EXCEPT !.waitingToRead = Tail(@)] /\ reader' = Wakes(Head(w))
    BY <1>3 DEF Add
  <2>2. PICK t \in Seq(Readers) :
          /\ t = Tail(w)
          /\ \A o : InQueue(w, o) /\ o # Head(w) => InQueue(t, o)
    <3> HIDE DEF w
    <3> QED
      BY <1>1, <1>3, OthersStay
  <2>3. Head(w) \in Readers
    <3> HIDE DEF w
    <3> QED
      BY <1>1, <1>3
  <2> HIDE DEF m
  <2>4. kb' = [m EXCEPT !.waitingToRead = t]
    BY <1>1, <2>1, <2>2
  <2>5. /\ kb' \in KeyboardStates /\ kb'.waitingToRead = t /\ kb'.buffer = m.buffer
        /\ kb'.readIndex = m.readIndex /\ kb'.writeIndex = m.writeIndex
    BY <1>1, <2>4 DEF KeyboardStates
  <2> QED
    BY <1>1, <1>3, <2>1, <2>2, <2>3, <2>5 DEF m
<1> QED
  BY <1>2, <1>3

LEMMA AddKeeps ==
  ASSUME KeyInv, NEW k, PartOf(k, kb), NEW c \in KeyChars \ {NUL}, Add(k, c)
  PROVE  KeyInv'
<1> DEFINE m == Store(k, c)
           queue == k.waitingToRead
<1>1. /\ k \in KeyboardStates /\ queue = kb.waitingToRead /\ ReadersOK /\ IsFiniteSet(Ready)
      /\ c \in KeyChars
  BY DEF KeyInv, PartOf
<1>2. /\ kb' \in KeyboardStates /\ m \in KeyboardStates /\ kb'.buffer = m.buffer
      /\ kb'.readIndex = m.readIndex /\ kb'.writeIndex = m.writeIndex
      /\ queue = <<>> => kb'.waitingToRead = <<>> /\ reader' = reader
      /\ queue # <<>> =>
           /\ Head(queue) \in Readers /\ reader' = Wakes(Head(queue))
           /\ \A o : InQueue(queue, o) /\ o # Head(queue) => InQueue(kb'.waitingToRead, o)
  BY <1>1, AddedQueue
<1>3. /\ typed' = [o \in Readers |-> IF reader[o].at = "out" THEN typed[o] ELSE Append(typed[o], c)]
      /\ wrapped' = (wrapped \/ m.writeIndex = BUFFER_SIZE)
      /\ swallowed' = (swallowed \/ (queue # <<>> /\ reader[Head(queue)].at # "asleep"))
  BY DEF Add
<1> HIDE DEF m, queue
<1>4. ASSUME NEW o \in Readers, queue = <<>> \/ o # Head(queue) PROVE reader'[o] = reader[o]
  BY <1>1, <1>2, <1>4 DEF Wakes, ReadersOK
<1>5. ASSUME queue # <<>>
      PROVE  /\ reader'[Head(queue)].size = reader[Head(queue)].size
             /\ reader'[Head(queue)].at =
                   IF reader[Head(queue)].at = "asleep" THEN "ready" ELSE reader[Head(queue)].at
  <2>1. reader \in [Readers -> [at : {"out", "asleep", "ready"}, size : Sizes \cup {0}]]
    BY <1>1 DEF ReadersOK
  <2>2. Head(queue) \in Readers /\ reader' = Wakes(Head(queue))
    BY <1>2, <1>5
  <2> DEFINE h == Head(queue)
  <2> HIDE DEF h
  <2>3. h \in Readers /\ reader' = [reader EXCEPT ![h].at = IF @ = "asleep" THEN "ready" ELSE @]
    BY <2>2 DEF h, Wakes
  <2>4. /\ reader'[h].size = reader[h].size
        /\ reader'[h].at = IF reader[h].at = "asleep" THEN "ready" ELSE reader[h].at
    BY <2>1, <2>3
  <2> QED
    BY <2>4 DEF h
<1>6. reader' \in [Readers -> [at : {"out", "asleep", "ready"}, size : Sizes \cup {0}]]
  <2>1. CASE queue = <<>>
    BY <1>1, <1>2, <2>1 DEF ReadersOK
  <2>2. CASE queue # <<>>
    <3>1. reader \in [Readers -> [at : {"out", "asleep", "ready"}, size : Sizes \cup {0}]]
      BY <1>1 DEF ReadersOK
    <3>2. PICK h \in Readers : reader' = [reader EXCEPT ![h].at = IF @ = "asleep" THEN "ready" ELSE @]
      BY <1>2, <2>2 DEF Wakes
    <3> DEFINE at == IF reader[h].at = "asleep" THEN "ready" ELSE reader[h].at
    <3>3. reader' = [reader EXCEPT ![h] = [@ EXCEPT !.at = at]] /\ at \in {"out", "asleep", "ready"}
      BY <3>1, <3>2
    <3> HIDE DEF at
    <3>4. [reader[h] EXCEPT !.at = at] \in [at : {"out", "asleep", "ready"}, size : Sizes \cup {0}]
      BY <3>1, <3>3
    <3> QED
      BY <3>1, <3>3, <3>4
  <2> QED
    BY <2>1, <2>2
<1>7. \A o \in Readers :
         /\ reader'[o].at = "out" <=> reader[o].at = "out"
         /\ reader'[o].size = reader[o].size
         /\ reader'[o].at = "asleep" => reader[o].at = "asleep" /\ (queue = <<>> \/ o # Head(queue))
  BY <1>4, <1>5
<1>8. typed' \in [Readers -> Seq(KeyChars)]
  <2>1. \A o \in Readers : typed[o] \in Seq(KeyChars) /\ Append(typed[o], c) \in Seq(KeyChars)
    BY <1>1 DEF ReadersOK
  <2> QED
    BY <1>3, <2>1
<1>9. ReadersOK'
  <2>1. ASSUME NEW o \in Readers
        PROVE  /\ IF reader'[o].at = "out" THEN typed'[o] = <<>> ELSE reader'[o].size \in Sizes
               /\ reader'[o].at = "asleep" => InQueue(kb'.waitingToRead, o)
    <3>1. IF reader'[o].at = "out" THEN typed'[o] = <<>> ELSE reader'[o].size \in Sizes
      BY <1>1, <1>3, <1>7 DEF ReadersOK
    <3>2. ASSUME reader'[o].at = "asleep" PROVE InQueue(kb'.waitingToRead, o)
      <4>1. InQueue(queue, o) /\ (queue = <<>> \/ o # Head(queue))
        BY <1>1, <1>7, <3>2 DEF ReadersOK
      <4>2. queue # <<>>
        BY <4>1 DEF InQueue
      <4> QED
        BY <1>2, <4>1, <4>2
    <3> QED
      BY <3>1, <3>2
  <2>2. wrapped' \in BOOLEAN /\ swallowed' \in BOOLEAN
    BY <1>3
  <2> QED
    BY <1>6, <1>8, <2>1, <2>2 DEF ReadersOK
<1>10. Ready' = IF queue # <<>> /\ reader[Head(queue)].at = "asleep"
                THEN Ready \cup {Head(queue)} ELSE Ready
  <2>1. CASE queue # <<>> /\ reader[Head(queue)].at = "asleep"
    <3>1. Head(queue) \in Readers /\ reader'[Head(queue)].at = "ready"
      BY <1>2, <1>5, <2>1
    <3>2. \A o \in Readers : o # Head(queue) => reader'[o].at = reader[o].at
      BY <1>4
    <3> QED
      BY <2>1, <3>1, <3>2 DEF Ready
  <2>2. CASE ~(queue # <<>> /\ reader[Head(queue)].at = "asleep")
    <3>1. \A o \in Readers : reader'[o].at = reader[o].at
      BY <1>4, <1>5, <2>2
    <3> QED
      BY <2>2, <3>1 DEF Ready
  <2> QED
    BY <2>1, <2>2
<1>11. IsFiniteSet(Ready)'
  BY <1>1, <1>2, <1>10, ReadyCount
<1>12. ASSUME ~wrapped' PROVE KeysOK'
  <2>1. ~wrapped /\ m.writeIndex # BUFFER_SIZE /\ Ring(k) /\ k \in KeyboardStates
    BY <1>1, <1>3, <1>12 DEF PartOf, KeyInv, KeysOK
  <2>2. UnreadKeys(kb') = UnreadKeys(m) /\ Unread(kb') = Unread(m) /\ (Ring(kb') <=> Ring(m))
    BY <1>2, SameRing
  <2>3. /\ Ring(m)
        /\ \A i \in 1..UnreadKeys(k) : i \in 1..UnreadKeys(m) => Unread(m)[i] = Unread(k)[i]
        /\ k.readIndex <= k.writeIndex =>
              UnreadKeys(m) = UnreadKeys(k) + 1 /\ Unread(m)[UnreadKeys(k) + 1] = c
        /\ ~(k.readIndex <= k.writeIndex) => UnreadKeys(m) = 0
    BY <2>1, StoreRing DEF m
  <2>4. /\ UnreadKeys(k) \in Nat /\ DOMAIN Unread(k) = 1..UnreadKeys(k)
        /\ UnreadKeys(m) \in Nat /\ DOMAIN Unread(m) = 1..UnreadKeys(m)
    BY <1>2, <2>1, UnreadFacts
  <2>5. ASSUME NEW o \in Readers, reader'[o].at # "out"
        PROVE  IsSubsequence(Unread(kb'), typed'[o])
    <3>1. CASE k.readIndex <= k.writeIndex
      <4> DEFINE s == Unread(k)
                 r == Unread(m)
                 t == typed[o]
                 l == UnreadKeys(k)
      <4>1. reader[o].at # "out" /\ typed'[o] = Append(t, c) /\ t \in Seq(KeyChars)
        BY <1>1, <1>3, <1>7, <2>5 DEF ReadersOK
      <4>2. IsSubsequence(s, t)
        BY <2>1, <4>1, PartWasTyped
      <4>3. /\ l \in Nat /\ DOMAIN s = 1..l /\ DOMAIN r = 1..l + 1
            /\ \A i \in 1..l : r[i] = s[i]
            /\ r[l + 1] = c
        BY <2>3, <2>4, <3>1
      <4> HIDE DEF s, r, t, l
      <4>4. c \in KeyChars
        BY <1>1
      <4>5. t \in Seq(KeyChars)
        BY <4>1
      <4>6. IsSubsequence(r, Append(t, c))
        BY ONLY <4>2, <4>3, <4>4, <4>5, BothLonger
      <4> QED
        BY <2>2, <4>1, <4>6 DEF r
    <3>2. CASE ~(k.readIndex <= k.writeIndex)
      <4>1. DOMAIN Unread(kb') = {}
        BY <2>2, <2>3, <2>4, <3>2
      <4> QED
        BY <4>1, EmptySubsequence
    <3> QED
      BY <3>1, <3>2
  <2>6. ASSUME ~swallowed', NEW o \in Readers, reader'[o].at = "asleep"
        PROVE  UnreadKeys(kb') <= Cardinality(Ready')
    <3>1. reader[o].at = "asleep" /\ InQueue(queue, o)
      BY <1>1, <1>7, <2>6 DEF ReadersOK
    <3>2. queue # <<>>
      BY <3>1 DEF InQueue
    <3>3. ~swallowed /\ reader[Head(queue)].at = "asleep" /\ Head(queue) \in Readers
      BY <1>2, <1>3, <2>6, <3>2
    <3>4. UnreadKeys(kb) <= Cardinality(Ready) /\ UnreadKeys(k) <= UnreadKeys(kb)
      BY <2>1, <3>1, <3>3 DEF KeyInv, KeysOK, PartOf
    <3>5. Cardinality(Ready') = Cardinality(Ready) + 1 /\ Cardinality(Ready) \in Nat
      <4>1. Head(queue) \notin Ready
        BY <3>3 DEF Ready
      <4> QED
        BY <1>1, <1>10, <3>2, <3>3, <4>1, ReadyCount
    <3>6. UnreadKeys(kb) \in Nat
      BY UnreadFacts DEF KeyInv
    <3> QED
      BY <2>2, <2>3, <2>4, <3>4, <3>5, <3>6
  <2> QED
    BY <2>2, <2>3, <2>5, <2>6 DEF KeysOK
<1> QED
  BY <1>2, <1>9, <1>11, <1>12 DEF KeyInv, KeysOK

-----------------------------------------------------------------------------
(* Init and Next.                                                          *)
LEMMA KeyInitInv == KeyInit => KeyInv
<1> SUFFICES ASSUME KeyInit PROVE KeyInv
  OBVIOUS
<1>1. PICK before \in KeyChars, after \in KeyChars :
          kb = [ buffer |-> [i \in PLACES_IN_RING |-> NUL], before |-> before, after |-> after,
                 writeIndex |-> 0, readIndex |-> 0, lastIndexFlag |-> FALSE, ctrlFlag |-> FALSE,
                 shiftFlag |-> FALSE, capsLockFlag |-> FALSE, waitingToRead |-> <<>> ]
  BY DEF KeyInit, KeyChars
<1>2. PICK zero \in 0..BUFFER_SIZE : zero = 0
  BY KeyboardAssumption
<1>3. PICK b \in [PLACES_IN_RING -> KeyChars] : b = [i \in PLACES_IN_RING |-> NUL]
  BY DEF KeyChars
<1>4. kb = [ buffer |-> b, before |-> before, after |-> after,
             writeIndex |-> zero, readIndex |-> zero, lastIndexFlag |-> FALSE, ctrlFlag |-> FALSE,
             shiftFlag |-> FALSE, capsLockFlag |-> FALSE, waitingToRead |-> <<>> ]
  BY <1>1, <1>2, <1>3
<1>5. /\ kb \in KeyboardStates /\ kb.buffer = b /\ kb.writeIndex = zero /\ kb.readIndex = zero
  BY <1>4 DEF KeyboardStates
<1>6. Ring(kb) /\ UnreadKeys(kb) = 0
  <2>1. UnreadKeys(kb) = 0
    BY <1>2, <1>5 DEF UnreadKeys
  <2>2. \A i \in PLACES_IN_RING : kb.buffer[i] = NUL /\ ~(i < 0)
    BY <1>3, <1>5 DEF PLACES_IN_RING
  <2> QED
    BY <1>2, <1>5, <2>1, <2>2, KeyboardAssumption DEF Ring
<1>7. \A p \in Readers : reader[p] = Out /\ typed[p] = <<>>
  BY DEF KeyInit
<1>8. ReadersOK
  <2>1. Out \in [at : {"out", "asleep", "ready"}, size : Sizes \cup {0}]
    BY DEF Out
  <2>2. reader \in [Readers -> [at : {"out", "asleep", "ready"}, size : Sizes \cup {0}]]
    BY <2>1 DEF KeyInit
  <2>3. typed \in [Readers -> Seq(KeyChars)]
    BY DEF KeyInit
  <2>4. wrapped \in BOOLEAN /\ swallowed \in BOOLEAN
    BY DEF KeyInit
  <2> QED
    BY <1>7, <2>2, <2>3, <2>4 DEF ReadersOK, Out
<1>9. Ready = {}
  BY <1>7 DEF Ready, Out
<1> QED
  BY <1>5, <1>6, <1>7, <1>8, <1>9, FS_EmptySet DEF KeyInv, KeysOK, Out

LEMMA TypedChars ==
  ASSUME NEW k, NEW key \in DOMAIN CharOf
  PROVE  CharTyped(k, key) \in KeyChars \ {NUL} /\ EOF_CHAR \in KeyChars \ {NUL}
<1>1. DOMAIN CharOf = {"c", "d", "one", "enter", "backspace"} /\ DOMAIN Upper = {"c", "d"}
  BY DEF CharOf, Upper
<1>2. CharOf[key] \in KeyChars \ {NUL}
  BY <1>1 DEF CharOf, KeyChars
<1>3. ASSUME key \in DOMAIN Upper PROVE Upper[key] \in KeyChars \ {NUL}
  BY <1>1, <1>3 DEF Upper, KeyChars
<1> QED
  BY <1>2, <1>3 DEF CharTyped, KeyChars, EOF_CHAR

LEMMA KeyNextInv == KeyInv /\ [KeyNext]_keyVars => KeyInv'
<1> SUFFICES ASSUME KeyInv, [KeyNext]_keyVars PROVE KeyInv'
  OBVIOUS
<1>0. kb \in KeyboardStates /\ ReadersOK
  BY DEF KeyInv
<1>1. ASSUME NEW key, KeyPress(key) PROVE KeyInv'
  <2>1. PartOf(Cleaned, kb) /\ Cleaned \in KeyboardStates
    BY <1>0, CleanedPart DEF PartOf
  <2>2. CASE Modifier(Cleaned, key)
    <3>1. /\ kb' \in KeyboardStates /\ kb'.waitingToRead = Cleaned.waitingToRead
          /\ kb'.buffer = Cleaned.buffer /\ kb'.readIndex = Cleaned.readIndex
          /\ kb'.writeIndex = Cleaned.writeIndex
          /\ UNCHANGED <<reader, typed, wrapped, swallowed>>
      BY <2>1, <2>2 DEF Modifier, Sets, KeyboardStates
    <3>2. PartOf(kb', Cleaned)
      <4>1. /\ UnreadKeys(kb') = UnreadKeys(Cleaned) /\ Unread(kb') = Unread(Cleaned)
            /\ (Ring(kb') <=> Ring(Cleaned))
        BY <2>1, <3>1, SameRing
      <4>2. UnreadKeys(Cleaned) \in Nat
        BY <2>1, UnreadFacts
      <4> QED
        BY <3>1, <4>1, <4>2 DEF PartOf
    <3>3. PartOf(kb', kb)
      BY <1>0, <2>1, <3>2, PartOfPart
    <3> QED
      BY <3>1, <3>3, PartKeeps
  <2>3. CASE CtrlC(Cleaned, key)
    BY <2>1, <2>3, KilledKeeps DEF CtrlC
  <2>4. CASE CtrlD(Cleaned, key)
    <3>1. EOF_CHAR \in KeyChars \ {NUL}
      BY DEF EOF_CHAR, KeyChars
    <3> QED
      BY <2>1, <2>4, <3>1, AddKeeps DEF CtrlD
  <2>5. CASE Character(Cleaned, key)
    <3>1. CharTyped(Cleaned, key) \in KeyChars \ {NUL}
      BY <2>5, TypedChars DEF Character
    <3> QED
      BY <2>1, <2>5, <3>1, AddKeeps DEF Character
  <2> QED
    BY <1>1, <2>2, <2>3, <2>4, <2>5 DEF KeyPress
<1>2. CASE SysGetChar
  <2>1. /\ kb' \in KeyboardStates /\ kb'.waitingToRead = kb.waitingToRead
        /\ kb'.buffer = kb.buffer /\ kb'.readIndex = kb.readIndex
        /\ kb'.writeIndex = kb.writeIndex
    BY <1>0, <1>2 DEF SysGetChar, KeyboardStates
  <2>2. PartOf(kb', kb)
    <3>1. /\ UnreadKeys(kb') = UnreadKeys(kb) /\ Unread(kb') = Unread(kb)
          /\ (Ring(kb') <=> Ring(kb))
      BY <1>0, <2>1, SameRing
    <3>2. UnreadKeys(kb) \in Nat
      BY <1>0, UnreadFacts
    <3> QED
      BY <2>1, <3>1, <3>2 DEF PartOf
  <2> QED
    BY <1>2, <2>2, PartKeeps DEF SysGetChar, histories
<1>3. ASSUME NEW p \in Readers, NEW n \in Sizes, SysRead(p, n) PROVE KeyInv'
  <2>1. PartOf(clean_read(kb), kb) /\ UnreadKeys(clean_read(kb)) = 0
    BY <1>0, CleanRead
  <2> QED
    BY <1>3, <2>1, TurnKeeps DEF SysRead
<1>4. ASSUME NEW p \in Readers, ResumeRead(p) PROVE KeyInv'
  <2>1. PartOf(kb, kb)
    BY <1>0, PartOfItself
  <2>2. reader[p].size \in Sizes
    BY <1>0, <1>4 DEF ReadersOK, ResumeRead
  <2> QED
    BY <1>4, <2>1, <2>2, TurnKeeps DEF ResumeRead, histories
<1>5. ASSUME NEW p \in Readers, KillReader(p) PROVE KeyInv'
  BY <1>5, KillReaderKeeps
<1>6. CASE UNCHANGED keyVars
  BY <1>0, <1>6, PartOfItself, PartKeeps DEF keyVars
<1> QED
  BY <1>1, <1>2, <1>3, <1>4, <1>5, <1>6 DEF KeyNext

(* The invariant holds in every state.                                     *)
THEOREM KeyInvariance == KeySpec => []KeyInv
<1> QED
  BY KeyInitInv, KeyNextInv, PTL DEF KeySpec

(* Whoever sleeps for a key is in the queue keys are handed out to,        *)
(* whatever was typed, killed or taken by others before it.                *)
THEOREM SleepersAreQueued == KeySpec => []KeyboardSound
<1>1. KeyInv => KeyboardSound
  <2> SUFFICES ASSUME KeyInv PROVE KeyboardSound
    OBVIOUS
  <2>1. KeyTypeOK
    <3>1. /\ kb.buffer \in [PLACES_IN_RING -> KeyChars] /\ {kb.before, kb.after} \subseteq KeyChars
          /\ kb.writeIndex \in 0..BUFFER_SIZE /\ kb.readIndex \in 0..BUFFER_SIZE
          /\ {kb.lastIndexFlag, kb.ctrlFlag, kb.shiftFlag, kb.capsLockFlag} \subseteq BOOLEAN
          /\ kb.waitingToRead \in Seq(Readers)
      BY DEF KeyInv, KeyboardStates
    <3>2. \A i \in DOMAIN kb.waitingToRead : kb.waitingToRead[i] \in Readers
      BY <3>1
    <3>3. \A p \in Readers : reader[p].at \in {"out", "asleep", "ready"}
      BY DEF KeyInv, ReadersOK
    <3> QED
      BY <3>1, <3>2, <3>3 DEF KeyTypeOK
  <2>2. SleepersQueue
    <3>1. DOMAIN kb.waitingToRead = 1..Len(kb.waitingToRead)
      BY DEF KeyInv, KeyboardStates
    <3> QED
      BY <3>1 DEF KeyInv, ReadersOK, InQueue, SleepersQueue
  <2> QED
    BY <2>1, <2>2 DEF KeyboardSound
<1> QED
  BY <1>1, KeyInvariance, PTL

(* Until a backspace moves writeIndex before readIndex, readIndex is before *)
(* every key that was typed for those who read and that is still there.    *)
ReadBefore(k, places) ==
    k.readIndex <= k.writeIndex /\ \A i \in places : k.buffer[i] # NUL => k.readIndex <= i

FreshInv ==
    /\ fresh \subseteq PLACES_IN_RING /\ behind \in BOOLEAN
    /\ ~wrapped /\ ~behind => ReadBefore(kb, fresh)

(* The keyboard m is k with some keys removed, and perhaps begun anew.     *)
Cleaner(m, k) ==
    /\ m \in KeyboardStates
    /\ \/ m.readIndex = 0
       \/ /\ m.readIndex = k.readIndex
          /\ \A i \in PLACES_IN_RING : m.buffer[i] # NUL => k.buffer[i] # NUL

LEMMA CleanedBefore ==
  ASSUME NEW k \in KeyboardStates, NEW m, Cleaner(m, k), NEW places \in SUBSET PLACES_IN_RING,
         m.readIndex <= m.writeIndex, ReadBefore(k, places)
  PROVE  ReadBefore(m, places)
<1>1. \A i \in places : i \in PLACES_IN_RING /\ 0 <= i
  BY DEF PLACES_IN_RING
<1> QED
  BY <1>1 DEF Cleaner, ReadBefore

LEMMA ClearedRing ==
  ASSUME NEW k \in KeyboardStates
  PROVE  Cleaner(clean_buffer(k), k) /\ clean_buffer(k).readIndex = 0 /\ clean_buffer(k).writeIndex = 0
<1>1. clean_buffer(k) \in KeyboardStates
  BY CleanBuffer DEF PartOf
<1>2. clean_buffer(k).readIndex = 0 /\ clean_buffer(k).writeIndex = 0
  BY DEF clean_buffer, KeyboardStates
<1> QED
  BY <1>1, <1>2 DEF Cleaner

LEMMA RemovedRing ==
  ASSUME NEW k \in KeyboardStates
  PROVE  /\ remove_char_from_buffer(k).readIndex = k.readIndex
         /\ \A i \in PLACES_IN_RING :
               remove_char_from_buffer(k).buffer[i] # NUL => k.buffer[i] # NUL
<1>1. CASE k.writeIndex <= 1
  BY <1>1 DEF remove_char_from_buffer
<1>2. CASE ~(k.writeIndex <= 1)
  BY <1>2 DEF remove_char_from_buffer, KeyboardStates
<1> QED
  BY <1>1, <1>2

LEMMA CleanedCleaner ==
  ASSUME kb \in KeyboardStates
  PROVE  Cleaner(Cleaned, kb)
<1> DEFINE one == IF CharIn(kb, kb.readIndex - 1) = "newline" THEN clean_buffer(kb) ELSE kb
<1>1. one \in KeyboardStates /\ Cleaner(one, kb)
  BY ClearedRing DEF Cleaner
<1> HIDE DEF one
<1>2. Cleaner(remove_char_from_buffer(one), kb)
  <2>1. remove_char_from_buffer(one) \in KeyboardStates
    BY <1>1, RemoveChar DEF PartOf
  <2> QED
    BY <1>1, <2>1, RemovedRing DEF Cleaner
<1>3. Cleaned = IF CharIn(one, one.readIndex - 1) = "erase" THEN remove_char_from_buffer(one) ELSE one
  BY DEF Cleaned, one
<1> QED
  BY <1>1, <1>2, <1>3

(* A character is stored at writeIndex, which is not before readIndex.     *)
LEMMA AddBefore ==
  ASSUME NEW k \in KeyboardStates, NEW c \in KeyChars, Add(k, c), fresh \subseteq PLACES_IN_RING
  PROVE  /\ fresh' \subseteq PLACES_IN_RING
         /\ ReadBefore(k, fresh) /\ Ring(k) => ReadBefore(kb', fresh')
<1> DEFINE m == Store(k, c)
<1>1. /\ m \in KeyboardStates /\ m.readIndex = k.readIndex
      /\ \E place \in PLACES_IN_RING :
            /\ place = IF k.writeIndex >= BUFFER_SIZE THEN 0 ELSE k.writeIndex
            /\ m.writeIndex = place + 1 /\ m.buffer = [k.buffer EXCEPT ![place] = c]
  BY StoreType
<1>2. PICK place \in PLACES_IN_RING :
         /\ place = IF k.writeIndex >= BUFFER_SIZE THEN 0 ELSE k.writeIndex
         /\ m.writeIndex = place + 1 /\ m.buffer = [k.buffer EXCEPT ![place] = c]
  BY <1>1
<1>3. kb'.buffer = m.buffer /\ kb'.readIndex = m.readIndex /\ kb'.writeIndex = m.writeIndex
  BY AddedQueue
<1>4. fresh' = fresh \cup {m.writeIndex - 1} \/ fresh' = fresh \ {m.writeIndex - 1}
  BY DEF Add
<1> HIDE DEF m
<1>5. place \in Int /\ m.writeIndex - 1 = place
  BY <1>2 DEF PLACES_IN_RING
<1>6. fresh' \subseteq PLACES_IN_RING /\ \A i \in fresh' : i = place \/ i \in fresh
  BY <1>4, <1>5
<1>7. ASSUME ReadBefore(k, fresh), Ring(k) PROVE ReadBefore(kb', fresh')
  <2>1. /\ k.readIndex \in Int /\ k.writeIndex \in Int /\ k.readIndex <= k.writeIndex
        /\ ~(k.writeIndex >= BUFFER_SIZE)
    BY <1>7, UnreadFacts, KeyboardAssumption DEF ReadBefore, Ring
  <2>2. place = k.writeIndex /\ kb'.readIndex <= place /\ kb'.readIndex <= kb'.writeIndex
    BY <1>1, <1>2, <1>3, <1>5, <2>1
  <2>3. ASSUME NEW i \in fresh', kb'.buffer[i] # NUL PROVE kb'.readIndex <= i
    <3>1. CASE i = place
      BY <2>2, <3>1
    <3>2. CASE i # place
      <4>1. i \in fresh /\ i \in PLACES_IN_RING
        BY <1>6, <3>2
      <4>2. m.buffer[i] = k.buffer[i]
        BY <1>2, <3>2, <4>1 DEF KeyboardStates
      <4> QED
        BY <1>1, <1>3, <1>7, <2>3, <4>1, <4>2 DEF ReadBefore
    <3> QED
      BY <3>1, <3>2
  <2> QED
    BY <2>2, <2>3 DEF ReadBefore
<1> QED
  BY <1>6, <1>7

(* A turn of read takes the unread keys from readIndex on.                 *)
LEMMA TurnBefore ==
  ASSUME NEW k \in KeyboardStates, Ring(k), NEW p \in Readers, NEW size \in Sizes,
         Turn(k, p, size), NEW places \in SUBSET PLACES_IN_RING, ReadBefore(k, places)
  PROVE  ReadBefore(kb', places)
<1>1. CASE is_key_available(k)
  <2>0. size \in Nat /\ kb' = AfterGet(k, size)
    BY <1>1, KeyboardAssumption DEF Turn
  <2> DEFINE n == Taken(k, size)
  <2>1. /\ kb' \in KeyboardStates /\ kb'.writeIndex = k.writeIndex
        /\ kb'.readIndex = IF n = 0 THEN k.readIndex ELSE (k.readIndex + n) % BUFFER_SIZE
        /\ Emptied(k, kb', n)
    BY <2>0, GetType
  <2>2. n \in Nat /\ n + UnreadKeys(kb') = UnreadKeys(k)
    BY <2>0, GetRing
  <2> HIDE DEF n
  <2>3. /\ k.readIndex \in Nat /\ k.writeIndex \in Nat /\ k.writeIndex < BUFFER_SIZE
        /\ k.readIndex <= k.writeIndex /\ k.readIndex + UnreadKeys(k) = k.writeIndex
    BY UnreadFacts DEF ReadBefore, Ring
  <2>4. UnreadKeys(kb') \in Nat /\ UnreadKeys(k) \in Nat
    BY <2>1, UnreadFacts
  <2>5. k.readIndex + n <= k.writeIndex /\ k.readIndex + n < BUFFER_SIZE
    BY <2>2, <2>3, <2>4, KeyboardAssumption
  <2>6. kb'.readIndex = k.readIndex + n
    <3>1. (k.readIndex + n) % BUFFER_SIZE = k.readIndex + n
      BY <2>2, <2>5, PlaceInRing
    <3> QED
      BY <2>1, <2>2, <2>3, <3>1
  <2>7. ASSUME NEW i \in places, kb'.buffer[i] # NUL PROVE kb'.readIndex <= i
    <3>1. i \in PLACES_IN_RING /\ i \in Int
      BY DEF PLACES_IN_RING
    <3>2. ASSUME NEW j \in 0..n - 1 PROVE RingPlace(k, j) = k.readIndex + j
      <4>1. j \in Nat /\ k.readIndex + j < BUFFER_SIZE
        BY <2>2, <2>3, <2>5, KeyboardAssumption
      <4> QED
        BY <4>1, PlaceInRing
    <3>3. CASE \E j \in 0..n - 1 : RingPlace(k, j) = i
      BY <2>1, <2>7, <3>1, <3>3 DEF Emptied
    <3>4. CASE \A j \in 0..n - 1 : RingPlace(k, j) # i
      <4>1. kb'.buffer[i] = k.buffer[i]
        BY <2>1, <3>1, <3>4 DEF Emptied
      <4>2. k.readIndex <= i
        BY <2>7, <4>1 DEF ReadBefore
      <4>3. ASSUME i < k.readIndex + n PROVE FALSE
        <5>1. PICK j \in 0..n - 1 : j = i - k.readIndex
          BY <2>2, <2>3, <3>1, <4>2, <4>3
        <5> QED
          BY <2>3, <3>1, <3>2, <3>4, <5>1
      <4> QED
        BY <2>2, <2>3, <2>6, <3>1, <4>3
    <3> QED
      BY <3>3, <3>4
  <2> QED
    BY <2>1, <2>3, <2>5, <2>6, <2>7 DEF ReadBefore
<1>2. CASE ~is_key_available(k)
  <2>1. kb' = [k EXCEPT !.waitingToRead = Append(@, p)]
    BY <1>2 DEF Turn
  <2>2. kb'.buffer = k.buffer /\ kb'.readIndex = k.readIndex /\ kb'.writeIndex = k.writeIndex
    BY <2>1 DEF KeyboardStates
  <2> QED
    BY <2>2 DEF ReadBefore
<1> QED
  BY <1>1, <1>2

LEMMA FreshSteps == KeyInv /\ FreshInv /\ [KeyNext]_keyVars => FreshInv'
<1> SUFFICES ASSUME KeyInv, FreshInv, [KeyNext]_keyVars PROVE FreshInv'
  OBVIOUS
<1>0. /\ kb \in KeyboardStates /\ wrapped \in BOOLEAN
      /\ fresh \subseteq PLACES_IN_RING /\ behind \in BOOLEAN
      /\ ~wrapped => Ring(kb)
  BY DEF KeyInv, ReadersOK, KeysOK, FreshInv
<1>1. ASSUME NEW key, KeyPress(key) PROVE FreshInv'
  <2>1. PartOf(Cleaned, kb) /\ Cleaned \in KeyboardStates /\ Cleaner(Cleaned, kb)
    BY <1>0, CleanedPart, CleanedCleaner DEF PartOf
  <2>2. behind' = (behind \/ Cleaned.writeIndex < Cleaned.readIndex)
    BY <1>1 DEF KeyPress
  <2>3. behind' \in BOOLEAN
    BY <1>0, <2>2
  <2>4. ASSUME ~wrapped, ~behind' PROVE ReadBefore(Cleaned, fresh) /\ Ring(Cleaned)
    <3>1. ~behind /\ ~(Cleaned.writeIndex < Cleaned.readIndex)
      BY <2>2, <2>4
    <3>2. Cleaned.readIndex <= Cleaned.writeIndex
      BY <2>1, <3>1, UnreadFacts
    <3>3. ReadBefore(kb, fresh)
      BY <2>4, <3>1 DEF FreshInv
    <3>4. ReadBefore(Cleaned, fresh)
      BY <1>0, <2>1, <3>2, <3>3, CleanedBefore
    <3> QED
      BY <1>0, <2>1, <2>4, <3>4 DEF PartOf
  <2>5. CASE Modifier(Cleaned, key)
    <3>1. /\ kb'.buffer = Cleaned.buffer /\ kb'.readIndex = Cleaned.readIndex
          /\ kb'.writeIndex = Cleaned.writeIndex
          /\ UNCHANGED <<wrapped, fresh>>
      BY <2>1, <2>5 DEF Modifier, Sets, KeyboardStates
    <3> QED
      BY <1>0, <2>3, <2>4, <3>1 DEF FreshInv, ReadBefore
  <2>6. CASE CtrlC(Cleaned, key)
    <3>1. kb' = clean_buffer(Cleaned) /\ wrapped' = wrapped /\ fresh' = fresh
      BY <2>6 DEF CtrlC, Killed
    <3>2. Cleaner(kb', Cleaned) /\ kb'.readIndex = 0 /\ kb'.writeIndex = 0
      BY <2>1, <3>1, ClearedRing
    <3>3. kb'.readIndex <= kb'.writeIndex
      BY <3>2
    <3>4. ASSUME ~wrapped, ~behind' PROVE ReadBefore(kb', fresh)
      BY <1>0, <2>1, <2>4, <3>2, <3>3, <3>4, CleanedBefore
    <3> QED
      BY <1>0, <2>3, <3>1, <3>4 DEF FreshInv
  <2>7. ASSUME NEW c \in KeyChars, Add(Cleaned, c) PROVE FreshInv'
    <3>1. /\ fresh' \subseteq PLACES_IN_RING
          /\ ReadBefore(Cleaned, fresh) /\ Ring(Cleaned) => ReadBefore(kb', fresh')
      BY <1>0, <2>1, <2>7, AddBefore
    <3>2. ~wrapped' => ~wrapped
      BY <2>7 DEF Add
    <3> QED
      BY <2>3, <2>4, <3>1, <3>2 DEF FreshInv
  <2>8. CASE CtrlD(Cleaned, key)
    <3>1. EOF_CHAR \in KeyChars
      BY DEF EOF_CHAR, KeyChars
    <3> QED
      BY <2>7, <2>8, <3>1 DEF CtrlD
  <2>9. CASE Character(Cleaned, key)
    <3>1. CharTyped(Cleaned, key) \in KeyChars
      BY <2>9, TypedChars DEF Character
    <3> QED
      BY <2>7, <2>9, <3>1 DEF Character
  <2> QED
    BY <1>1, <2>5, <2>6, <2>8, <2>9 DEF KeyPress
<1>2. CASE SysGetChar
  <2>1. /\ kb'.buffer = kb.buffer /\ kb'.readIndex = kb.readIndex /\ kb'.writeIndex = kb.writeIndex
        /\ UNCHANGED <<wrapped, fresh, behind>>
    BY <1>0, <1>2 DEF SysGetChar, histories, KeyboardStates
  <2> QED
    BY <2>1 DEF FreshInv, ReadBefore
<1>3. ASSUME NEW p \in Readers, NEW n \in Sizes, SysRead(p, n) PROVE FreshInv'
  <2>1. Turn(clean_read(kb), p, n) /\ fresh' = {} /\ behind' = FALSE /\ wrapped' = wrapped
    BY <1>3 DEF SysRead
  <2>2. clean_read(kb) \in KeyboardStates /\ (~wrapped => Ring(clean_read(kb)))
    BY <1>0, CleanRead DEF PartOf
  <2>3. clean_read(kb).readIndex <= clean_read(kb).writeIndex
    BY <1>0, <2>2, UnreadFacts DEF clean_read, KeyboardStates
  <2>4. ReadBefore(clean_read(kb), {})
    BY <2>3 DEF ReadBefore
  <2>5. ~wrapped => ReadBefore(kb', {})
    BY <2>1, <2>2, <2>4, TurnBefore
  <2> QED
    BY <2>1, <2>5 DEF FreshInv
<1>4. ASSUME NEW p \in Readers, ResumeRead(p) PROVE FreshInv'
  <2>1. Turn(kb, p, reader[p].size) /\ UNCHANGED <<wrapped, fresh, behind>>
    BY <1>4 DEF ResumeRead, histories
  <2>2. reader[p].size \in Sizes
    BY <1>4 DEF KeyInv, ReadersOK, ResumeRead
  <2>3. ASSUME ~wrapped, ~behind PROVE ReadBefore(kb', fresh)
    BY <1>0, <2>1, <2>2, <2>3, TurnBefore DEF FreshInv
  <2> QED
    BY <1>0, <2>1, <2>3 DEF FreshInv
<1>5. ASSUME NEW p \in Readers, KillReader(p) PROVE FreshInv'
  BY <1>5 DEF KillReader, FreshInv, ReadBefore
<1>6. CASE UNCHANGED keyVars
  BY <1>6 DEF keyVars, FreshInv, ReadBefore
<1> QED
  BY <1>1, <1>2, <1>3, <1>4, <1>5, <1>6 DEF KeyNext

(* No key that was typed for a reader lies in the ring, at whatever place, *)
(* while every process that waits for one sleeps: there are at least as    *)
(* many readers awake as there are unread keys, and the keys typed for     *)
(* readers are unread keys until a backspace that nobody read moves        *)
(* writeIndex before readIndex.                                            *)
THEOREM KeysFindReaders == KeySpec => []KeysWakeReaders
<1>1. KeyInit => FreshInv
  <2>1. ASSUME KeyInit PROVE kb.readIndex <= kb.writeIndex
    <3>1. kb.readIndex = 0 /\ kb.writeIndex = 0
      BY <2>1 DEF KeyInit
    <3> QED
      BY <3>1
  <2> QED
    BY <2>1 DEF KeyInit, FreshInv, ReadBefore
<1>2. KeyInv /\ FreshInv => KeysWakeReaders
  <2> SUFFICES ASSUME KeyInv, FreshInv, ~swallowed, ~wrapped,
                      \E p \in Readers : reader[p].at = "asleep",
                      \A p \in Readers : reader[p].at # "ready",
                      NEW i \in fresh, kb.buffer[i] # NUL
               PROVE  behind /\ i < kb.readIndex
    BY DEF KeysWakeReaders
  <2>1. kb \in KeyboardStates /\ Ring(kb) /\ i \in PLACES_IN_RING
    BY DEF KeyInv, KeysOK, FreshInv
  <2>2. UnreadKeys(kb) <= Cardinality(Ready)
    BY DEF KeyInv, KeysOK
  <2>3. Ready = {}
    BY DEF Ready
  <2>4. Cardinality(Ready) = 0
    BY <2>3, FS_EmptySet
  <2>5. /\ i \in Int /\ kb.readIndex \in Int /\ kb.writeIndex \in Int
        /\ kb.readIndex >= kb.writeIndex
    BY <2>1, <2>2, <2>4, UnreadFacts DEF PLACES_IN_RING, UnreadKeys
  <2>6. i < kb.writeIndex
    BY <2>1, <2>5 DEF Ring
  <2>7. i < kb.readIndex
    BY <2>5, <2>6
  <2>8. behind
    BY <2>5, <2>7 DEF FreshInv, ReadBefore
  <2> QED
    BY <2>7, <2>8
<1>3. KeySpec => []FreshInv
  BY <1>1, FreshSteps, KeyInvariance, PTL DEF KeySpec
<1> QED
  BY <1>2, <1>3, KeyInvariance, PTL

(* A read gives characters that were typed while it waited, in their order *)
(* and none twice, and never one that was typed before it.                 *)
THEOREM ReadersGetWhatWasTyped == KeySpec => []ReadsAreFresh
<1>1. KeyInv => ReadsAreFresh
  <2> SUFFICES ASSUME KeyInv, ~wrapped
               PROVE  /\ ~is_key_available(clean_read(kb))
                      /\ \A p \in Readers : reader[p].at = "ready" =>
                            IsSubsequence(get_buffer(kb, reader[p].size), typed[p])
    BY DEF ReadsAreFresh
  <2>1. kb \in KeyboardStates /\ Ring(kb) /\ ReadersOK
    BY DEF KeyInv, KeysOK
  <2>2. ~is_key_available(clean_read(kb))
    <3>1. PartOf(clean_read(kb), kb) /\ UnreadKeys(clean_read(kb)) = 0
      BY <2>1, CleanRead
    <3>2. clean_read(kb) \in KeyboardStates /\ Ring(clean_read(kb))
      BY <2>1, <3>1 DEF PartOf
    <3> QED
      BY <3>1, <3>2, Available
  <2>3. ASSUME NEW p \in Readers, reader[p].at = "ready"
        PROVE  IsSubsequence(get_buffer(kb, reader[p].size), typed[p])
    <3> DEFINE size == reader[p].size
               n == Taken(kb, size)
               m == AfterGet(kb, size)
    <3>1. size \in Nat /\ IsSubsequence(Unread(kb), typed[p])
      <4>1. size \in Sizes /\ 1..BUFFER_SIZE \subseteq Nat
        BY <2>1, <2>3 DEF ReadersOK
      <4>2. size \in Nat
        BY <4>1, KeyboardAssumption
      <4> QED
        BY <2>1, <2>3, <4>2 DEF KeyInv, KeysOK
    <3> HIDE DEF size
    <3>2. /\ n \in Nat /\ n + UnreadKeys(m) = UnreadKeys(kb)
          /\ DOMAIN get_buffer(kb, size) = 1..n
          /\ \A i \in 1..n : get_buffer(kb, size)[i] = Unread(kb)[i]
      BY <2>1, <3>1, GetRing
    <3>3. /\ UnreadKeys(m) \in Nat /\ UnreadKeys(kb) \in Nat
          /\ DOMAIN Unread(kb) = 1..UnreadKeys(kb)
      <4>1. m \in KeyboardStates
        BY <2>1, <3>1, GetType
      <4> QED
        BY <2>1, <4>1, UnreadFacts
    <3> HIDE DEF n, m
    <3>4. IsPart(get_buffer(kb, size), Unread(kb), 0)
      BY <3>2, <3>3 DEF IsPart
    <3> QED
      BY <3>1, <3>4, PartOfSubsequence DEF size
  <2> QED
    BY <2>2, <2>3
<1> QED
  BY <1>1, KeyInvariance, PTL

-----------------------------------------------------------------------------
(* The console.                                                            *)

(***************************************************************************)
(* Lengths: columns and rows of characters of scale s.                     *)
(***************************************************************************)
Scales == 1..MAX_SCALE

LEMMA Multiples ==
  ASSUME NEW s \in Nat, NEW a \in Int, NEW b \in Int
  PROVE  /\ a * s \in Int /\ (a + 1) * s = a * s + s /\ (a - 1) * s = a * s - s
         /\ a <= b => a * s <= b * s
         /\ a \in Nat => a * s \in Nat
<1>1. a * s \in Int /\ b * s \in Int
  OBVIOUS
<1>2. (a + 1) * s = a * s + s /\ (a - 1) * s = a * s - s
  OBVIOUS
<1>3. a \in Nat => a * s \in Nat
  OBVIOUS
<1>4. ASSUME a <= b PROVE a * s <= b * s
  <2> PICK d \in Nat : b = a + d
    BY <1>4
  <2>1. d * s >= 0 /\ b * s = a * s + d * s
    OBVIOUS
  <2> QED
    BY <1>1, <2>1
<1> QED
  BY <1>1, <1>2, <1>3, <1>4

(* Two characters of the grid do not overlap.                              *)
LEMMA GridApart ==
  ASSUME NEW s \in Nat \ {0}, NEW a \in Int, NEW b \in Int, b * s \in a * s..a * s + s - 1
  PROVE  a = b
<1>1. a * s \in Int /\ b * s \in Int /\ a * s <= b * s /\ b * s < a * s + s
  OBVIOUS
<1>2. ASSUME b < a PROVE FALSE
  <2>1. b + 1 <= a /\ (b + 1) * s = b * s + s /\ b + 1 \in Int
    BY <1>2, Multiples
  <2>2. (b + 1) * s <= a * s
    BY <2>1, Multiples
  <2> QED
    BY <1>1, <2>1, <2>2
<1>3. ASSUME a < b PROVE FALSE
  <2>1. a + 1 <= b /\ (a + 1) * s = a * s + s /\ a + 1 \in Int
    BY <1>3, Multiples
  <2>2. (a + 1) * s <= b * s
    BY <2>1, Multiples
  <2> QED
    BY <1>1, <2>1, <2>2
<1> QED
  BY <1>2, <1>3

(* Where place n of lines of m columns is.                                 *)
LEMMA RowAndColumn ==
  ASSUME NEW m \in Nat \ {0}, NEW row \in Int, NEW col \in 0..m - 1
  PROVE  /\ row * m + col \in Int
         /\ (row * m + col) % m = col /\ (row * m + col) \div m = row
<1> PICK n \in Int : n = row * m + col
  BY Multiples
<1>1. n % m = col % m
  BY n = col + row * m, WholeTurns
<1>2. col % m = col
  OBVIOUS
<1>3. n \div m \in Int /\ n = (n \div m) * m + (n % m)
  OBVIOUS
<1>4. PICK q \in Int : q = n \div m /\ q * m = row * m
  BY <1>1, <1>2, <1>3
<1>5. q = row
  <2>1. q * m \in row * m..row * m + m - 1
    BY <1>4, Multiples
  <2> QED
    BY <2>1, GridApart
<1> QED
  BY <1>1, <1>2, <1>4, <1>5

(* Any place has a row and a column.                                       *)
LEMMA RowsCover ==
  ASSUME NEW m \in Nat \ {0}, NEW n \in Int
  PROVE  \E row \in Int, col \in 0..m - 1 : n = row * m + col /\ (n >= 0 <=> row >= 0)
<1> PICK row \in Int, col \in 0..m - 1 : row = n \div m /\ col = n % m /\ n = row * m + col
  <2>1. n \div m \in Int /\ n % m \in 0..m - 1 /\ n = (n \div m) * m + (n % m)
    OBVIOUS
  <2> QED
    BY <2>1
<1>1. row >= 0 => n >= 0
  BY Multiples
<1>2. ASSUME row < 0 PROVE n < 0
  <2>1. row <= -1 /\ row * m \in Int
    BY <1>2
  <2>2. row * m <= (-1) * m
    BY <2>1, Multiples
  <2>3. (-1) * m = -m
    OBVIOUS
  <2> QED
    BY <2>1, <2>2, <2>3
<1>3. n >= 0 <=> row >= 0
  BY <1>1, <1>2
<1> QED
  BY <1>3

(* Aligned is to be on a column and a row.                                 *)
LEMMA MultiplesAre ==
  ASSUME NEW s \in Nat \ {0}, NEW x \in Nat
  PROVE  x % s = 0 <=> \E a \in Nat : x = a * s
<1>1. ASSUME x % s = 0 PROVE \E a \in Nat : x = a * s
  <2>1. PICK a \in Int, col \in 0..s - 1 : x = a * s + col /\ (x >= 0 <=> a >= 0)
    BY RowsCover
  <2>2. x % s = col
    BY <2>1, RowAndColumn
  <2> QED
    BY <1>1, <2>1, <2>2
<1>2. ASSUME NEW a \in Nat, x = a * s PROVE x % s = 0
  <2>1. 0 \in 0..s - 1 /\ x = a * s + 0
    BY <1>2
  <2> QED
    BY <2>1, RowAndColumn
<1> QED
  BY <1>1, <1>2

(* The columns of a line: Advance goes on to a new one behind the last.    *)
Cols(s) == Min({n \in 1..WIDTH : n * s >= WIDTH - s})

LEMMA ColsAre ==
  ASSUME NEW s \in Scales, NEW m, m = Cols(s)
  PROVE  /\ m \in Nat \ {0} /\ m * s >= WIDTH - s
         /\ \A col \in Nat : col < m <=> col = 0 \/ col * s < WIDTH - s
<1> DEFINE T == {n \in 1..WIDTH : n * s >= WIDTH - s}
<1>1. s \in Nat \ {0} /\ WIDTH \in Nat /\ s <= WIDTH /\ WIDTH > 0
  <2>1. WIDTH \in Nat /\ MAX_SCALE \in 1..WIDTH
    BY ConsoleAssumption
  <2> QED
    BY <2>1 DEF Scales
<1>2. WIDTH \in T
  <2>1. 1 * WIDTH <= s * WIDTH /\ s * WIDTH = WIDTH * s
    BY <1>1, Multiples
  <2> QED
    BY <1>1, <2>1
<1>3. T \subseteq Nat /\ T # {}
  BY <1>2
<1>4. m \in T /\ \A n \in T : m <= n
  <2> HIDE DEF T
  <2>1. Min(T) \in T /\ \A n \in T : Min(T) <= n
    BY <1>3, MinOfNaturals
  <2>2. m = Min(T)
    BY DEF Cols, T
  <2> QED
    BY <2>1, <2>2
<1>5. m \in 1..WIDTH /\ m * s >= WIDTH - s
  BY <1>4
<1>6. ASSUME NEW col \in Nat, col < m, col # 0 PROVE col * s < WIDTH - s
  <2>1. col \in 1..WIDTH /\ col \notin T
    BY <1>1, <1>4, <1>5, <1>6
  <2> QED
    BY <1>1, <2>1, Multiples
<1>7. ASSUME NEW col \in Nat, m <= col PROVE col # 0 /\ ~(col * s < WIDTH - s)
  <2>1. m * s <= col * s
    BY <1>1, <1>5, <1>7, Multiples
  <2> QED
    BY <1>1, <1>5, <1>7, <2>1, Multiples
<1> QED
  BY <1>5, <1>6, <1>7

(***************************************************************************)
(* The driver.                                                             *)
(***************************************************************************)

(* What a cell may show.                                                   *)
Texts == {PROMPT, <<"^", "C", "\n">>, <<"^", "D", "\n">>} \cup
    {call.out : call \in UNION {Range(Programs[program]) : program \in DOMAIN Programs}}

Glyphs == {BLANK} \cup Chars \cup UNION {Range(text) : text \in Texts}

Cells == (0..WIDTH - 1) \X (0..HEIGHT - 1)

Screens ==
    [x : 0..CURSOR - 1, y : 0..HEIGHT - 1, scale : Scales, cells : [Cells -> Glyphs]]

(* The next character has room, and a backspace does not wrap the line.    *)
Settled(c) == c.y + c.scale <= HEIGHT /\ (c.x = 0 \/ c.x + c.scale < WIDTH)

LEMMA Lengths ==
  /\ WIDTH \in Nat /\ HEIGHT \in Nat /\ CURSOR \in Nat /\ CURSOR > WIDTH
  /\ \A s \in Scales : s \in Nat \ {0} /\ s <= WIDTH /\ s <= HEIGHT /\ s < CURSOR
  /\ 1 \in Scales /\ WIDTH > 0 /\ HEIGHT > 0
<1>1. /\ WIDTH \in Nat /\ HEIGHT \in Nat /\ CURSOR \in Nat /\ CURSOR > WIDTH
      /\ MAX_SCALE \in 1..WIDTH /\ MAX_SCALE <= HEIGHT
  BY ConsoleAssumption
<1> QED
  BY <1>1 DEF Scales

LEMMA ScreenFields ==
  ASSUME NEW c \in Screens
  PROVE  /\ c.x \in 0..CURSOR - 1 /\ c.y \in 0..HEIGHT - 1 /\ c.scale \in Scales
         /\ c.cells \in [Cells -> Glyphs] /\ DOMAIN c.cells = Cells
         /\ c.x \in Nat /\ c.y \in Nat /\ c.scale \in Nat \ {0}
BY Lengths DEF Screens

Redrawn(c, x, y, f) == [c EXCEPT !.x = x, !.y = y, !.cells = f]

LEMMA ScreenWith ==
  ASSUME NEW c \in Screens, NEW x \in 0..CURSOR - 1, NEW y \in 0..HEIGHT - 1,
         NEW f \in [Cells -> Glyphs], NEW r, r = Redrawn(c, x, y, f)
  PROVE  r \in Screens /\ r.x = x /\ r.y = y /\ r.scale = c.scale /\ r.cells = f
BY DEF Screens, Redrawn

(* What is above the cell, when the screen scrolls by s.                   *)
Scrolled(f, s, p) == IF p[2] < HEIGHT - s THEN f[<<p[1], p[2] + s>>] ELSE BLANK

LEMMA ScrolledCells ==
  ASSUME NEW f \in [Cells -> Glyphs], NEW s \in Scales
  PROVE  [p \in Cells |-> Scrolled(f, s, p)] \in [Cells -> Glyphs]
<1> SUFFICES ASSUME NEW p \in Cells PROVE Scrolled(f, s, p) \in Glyphs
  OBVIOUS
<1>1. BLANK \in Glyphs
  BY DEF Glyphs
<1>2. ASSUME p[2] < HEIGHT - s PROVE <<p[1], p[2] + s>> \in Cells
  <2>1. p[1] \in 0..WIDTH - 1 /\ p[2] \in 0..HEIGHT - 1
    BY DEF Cells
  <2>2. p[2] + s \in 0..HEIGHT - 1
    BY <1>2, <2>1, Lengths
  <2> QED
    BY <2>1, <2>2 DEF Cells
<1> QED
  BY <1>1, <1>2 DEF Scrolled

LEMMA NewLine ==
  ASSUME NEW c \in Screens, NEW r, r = new_line(c)
  PROVE  /\ r \in Screens /\ r.scale = c.scale /\ r.x = 0
         /\ \/ /\ c.y + 2 * c.scale <= HEIGHT
               /\ r.y = c.y + c.scale /\ r.cells = c.cells
            \/ /\ c.y + 2 * c.scale > HEIGHT
               /\ r.y = c.y /\ r.cells = [p \in Cells |-> Scrolled(c.cells, c.scale, p)]
<1>1. /\ c.x \in 0..CURSOR - 1 /\ c.y \in 0..HEIGHT - 1 /\ c.scale \in Scales
      /\ c.cells \in [Cells -> Glyphs] /\ DOMAIN c.cells = Cells
      /\ c.y \in Nat /\ c.scale \in Nat \ {0}
  BY ScreenFields
<1>2. 0 \in 0..CURSOR - 1
  BY Lengths
<1>3. CASE c.y + 2 * c.scale <= HEIGHT
  <2>1. r = [c EXCEPT !.x = 0, !.y = c.y + c.scale]
    BY <1>3 DEF new_line
  <2> PICK f : f = c.cells
    OBVIOUS
  <2>2. r = Redrawn(c, 0, c.y + c.scale, f)
    BY <2>1 DEF Screens, Redrawn
  <2> PICK x, y : x = 0 /\ y = c.y + c.scale
    OBVIOUS
  <2>3. x \in 0..CURSOR - 1 /\ y \in 0..HEIGHT - 1 /\ f \in [Cells -> Glyphs]
    BY <1>1, <1>2, <1>3, Lengths
  <2>4. r = Redrawn(c, x, y, f)
    BY <2>2
  <2>5. r \in Screens /\ r.x = x /\ r.y = y /\ r.scale = c.scale /\ r.cells = f
    BY ONLY c \in Screens, <2>3, <2>4, ScreenWith
  <2> QED
    BY <1>3, <2>5
<1>4. CASE ~(c.y + 2 * c.scale <= HEIGHT)
  <2> PICK f : f = [p \in Cells |-> Scrolled(c.cells, c.scale, p)]
    OBVIOUS
  <2>1. f \in [Cells -> Glyphs]
    BY <1>1, ScrolledCells
  <2>2. r = [c EXCEPT !.x = 0, !.cells = f]
    BY <1>1, <1>4 DEF new_line, Scrolled
  <2> PICK y : y = c.y
    OBVIOUS
  <2>3. r = Redrawn(c, 0, y, f)
    BY <2>2 DEF Screens, Redrawn
  <2>4. c.y + 2 * c.scale > HEIGHT
    BY <1>1, <1>4, Lengths
  <2> PICK x : x = 0
    OBVIOUS
  <2>5. r = Redrawn(c, x, y, f) /\ x \in 0..CURSOR - 1 /\ y \in 0..HEIGHT - 1
    BY <1>1, <1>2, <2>3
  <2>6. r \in Screens /\ r.x = x /\ r.y = y /\ r.scale = c.scale /\ r.cells = f
    BY ONLY c \in Screens, <2>1, <2>5, ScreenWith
  <2> QED
    BY <2>4, <2>6
<1> QED
  BY <1>3, <1>4

(* A character that can be typed and the blank have glyphs.                *)
LEMMA BlankIsDrawn == HasGlyph(BLANK) /\ \A ch \in Chars : HasGlyph(ch)
<1>1. \A ch \in Undrawn : ch \notin Chars /\ ch # " "
  BY ConsoleAssumption
<1> QED
  BY <1>1 DEF HasGlyph, BLANK

(* The glyph of the character at the cursor.                               *)
Covers(c, p) == p[1] \in c.x..c.x + c.scale - 1 /\ p[2] \in c.y..c.y + c.scale - 1

LEMMA PutChar ==
  ASSUME NEW c \in Screens, NEW ch \in Glyphs, HasGlyph(ch), NEW r, r = put_char(c, ch)
  PROVE  /\ r \in Screens /\ r.scale = c.scale /\ r.x = c.x /\ r.y = c.y
         /\ r.cells = [p \in Cells |-> IF Covers(c, p) THEN ch ELSE c.cells[p]]
<1>1. /\ c.x \in 0..CURSOR - 1 /\ c.y \in 0..HEIGHT - 1
      /\ c.cells \in [Cells -> Glyphs] /\ DOMAIN c.cells = Cells
  BY ScreenFields
<1> PICK f : f = [p \in Cells |-> IF Covers(c, p) THEN ch ELSE c.cells[p]]
  OBVIOUS
<1>2. f \in [Cells -> Glyphs]
  BY <1>1
<1>3. r = [c EXCEPT !.cells = f]
  BY <1>1 DEF put_char, Covers
<1> PICK x, y : x = c.x /\ y = c.y
  OBVIOUS
<1>4. r = Redrawn(c, x, y, f)
  BY <1>3 DEF Screens, Redrawn
<1>5. x \in 0..CURSOR - 1 /\ y \in 0..HEIGHT - 1
  BY <1>1
<1>6. r \in Screens /\ r.x = x /\ r.y = y /\ r.scale = c.scale /\ r.cells = f
  BY ONLY c \in Screens, <1>2, <1>4, <1>5, ScreenWith
<1> QED
  BY <1>6

(* The cursor moves by one character, without the wrap of the line.        *)
LEMMA Moves ==
  ASSUME NEW c \in Screens, NEW x, x = (c.x + c.scale) % CURSOR \/ x = (c.x - c.scale) % CURSOR,
         NEW r, r = [c EXCEPT !.x = x]
  PROVE  r \in Screens /\ r.x = x /\ r.y = c.y /\ r.scale = c.scale /\ r.cells = c.cells
<1>1. /\ c.x \in Nat /\ c.scale \in Nat /\ CURSOR \in Nat /\ CURSOR > 0
      /\ c.y \in 0..HEIGHT - 1 /\ c.cells \in [Cells -> Glyphs]
  BY ScreenFields, Lengths
<1>2. x \in 0..CURSOR - 1
  BY <1>1
<1> PICK y, f : y = c.y /\ f = c.cells
  OBVIOUS
<1>3. r = Redrawn(c, x, y, f)
  BY DEF Screens, Redrawn
<1>4. y \in 0..HEIGHT - 1 /\ f \in [Cells -> Glyphs]
  BY <1>1
<1>5. r \in Screens /\ r.x = x /\ r.y = y /\ r.scale = c.scale /\ r.cells = f
  BY ONLY c \in Screens, <1>2, <1>3, <1>4, ScreenWith
<1> QED
  BY <1>5

LEMMA InRange ==
  ASSUME NEW x \in Nat, x < CURSOR
  PROVE  x % CURSOR = x
BY Lengths

(* What the cells show once ch is drawn at the cursor.                     *)
Drawn(c, ch) == [p \in Cells |-> IF Covers(c, p) THEN ch ELSE c.cells[p]]

(* r is c after a line that ends, with the cells f.                        *)
OnNewLine(c, r, f) ==
    /\ r.x = 0
    /\ \/ /\ c.y + 2 * c.scale <= HEIGHT
          /\ r.y = c.y + c.scale /\ r.cells = f
       \/ /\ c.y + 2 * c.scale > HEIGHT
          /\ r.y = c.y /\ r.cells = [p \in Cells |-> Scrolled(f, c.scale, p)]

(* A character is printed, ...                                             *)
LEMMA PrintsOne ==
  ASSUME NEW c \in Screens, NEW ch \in Glyphs, HasGlyph(ch), NEW r, r = Advance(put_char(c, ch))
  PROVE  /\ r \in Screens /\ r.scale = c.scale
         /\ Settled(c) =>
              \/ /\ c.x + 2 * c.scale < WIDTH
                 /\ r.x = c.x + c.scale /\ r.y = c.y /\ r.cells = Drawn(c, ch)
              \/ /\ c.x + 2 * c.scale >= WIDTH
                 /\ OnNewLine(c, r, Drawn(c, ch))
<1> PICK d : d = put_char(c, ch)
  OBVIOUS
<1>1. /\ d \in Screens /\ d.scale = c.scale /\ d.x = c.x /\ d.y = c.y
      /\ d.cells = Drawn(c, ch)
  BY PutChar DEF Drawn
<1> PICK x : x = (d.x + d.scale) % CURSOR
  OBVIOUS
<1> PICK moved : moved = [d EXCEPT !.x = x]
  OBVIOUS
<1>2. /\ moved \in Screens /\ moved.x = x /\ moved.y = d.y /\ moved.scale = d.scale
      /\ moved.cells = d.cells
  BY <1>1, Moves
<1>3. r = IF moved.x >= WIDTH - d.scale THEN new_line(moved) ELSE moved
  BY DEF Advance
<1> PICK l : l = new_line(moved)
  OBVIOUS
<1>4. /\ l \in Screens /\ l.scale = c.scale /\ OnNewLine(c, l, Drawn(c, ch))
  <2>1. moved.y = c.y /\ moved.scale = c.scale /\ moved.cells = Drawn(c, ch)
    BY <1>1, <1>2
  <2>2. l \in Screens /\ l.scale = moved.scale /\ OnNewLine(moved, l, moved.cells)
    <3>1. moved \in Screens /\ l = new_line(moved)
      BY <1>2
    <3> QED
      BY ONLY <3>1, NewLine DEF OnNewLine
  <2> QED
    BY <2>1, <2>2 DEF OnNewLine
<1>5. r \in Screens /\ r.scale = c.scale
  BY <1>1, <1>2, <1>3, <1>4
<1>6. ASSUME Settled(c)
      PROVE  \/ /\ c.x + 2 * c.scale < WIDTH
                /\ r.x = c.x + c.scale /\ r.y = c.y /\ r.cells = Drawn(c, ch)
             \/ /\ c.x + 2 * c.scale >= WIDTH
                /\ OnNewLine(c, r, Drawn(c, ch))
  <2>1. /\ c.x \in Nat /\ c.scale \in Nat /\ c.scale <= WIDTH /\ WIDTH < CURSOR
        /\ WIDTH \in Nat /\ CURSOR \in Nat
    BY ScreenFields, Lengths
  <2>2. c.x + c.scale \in Nat /\ c.x + c.scale < CURSOR
    BY <1>6, <2>1 DEF Settled
  <2>3. x = c.x + c.scale
    BY <1>1, <2>2, InRange
  <2>4. moved.x >= WIDTH - d.scale <=> c.x + 2 * c.scale >= WIDTH
    BY <1>1, <1>2, <2>1, <2>3
  <2>5. CASE c.x + 2 * c.scale >= WIDTH
    BY <1>3, <1>4, <2>4, <2>5
  <2>6. CASE ~(c.x + 2 * c.scale >= WIDTH)
    <3>1. r = moved
      BY <1>3, <2>4, <2>6
    <3>2. c.x + 2 * c.scale < WIDTH
      BY <2>1, <2>6
    <3> QED
      BY <1>1, <1>2, <2>3, <3>1, <3>2
  <2> QED
    BY <2>5, <2>6
<1> QED
  BY <1>5, <1>6

(* ... or one is taken back.                                               *)
LEMMA TakesOneBack ==
  ASSUME NEW c \in Screens, c.x >= c.scale, NEW b, b = StepBack(c),
         NEW r, r = StepBack(Advance(put_char(b, BLANK)))
  PROVE  /\ r \in Screens /\ r.scale = c.scale
         /\ b \in Screens /\ b.scale = c.scale /\ b.y = c.y /\ b.cells = c.cells
         /\ b.x = c.x - c.scale
         /\ Settled(c) => r.x = b.x /\ r.y = c.y /\ r.cells = Drawn(b, BLANK)
<1>1. /\ c.x \in 0..CURSOR - 1 /\ c.x \in Nat /\ c.scale \in Nat \ {0} /\ c.scale <= WIDTH
      /\ CURSOR \in Nat /\ WIDTH \in Nat
  BY ScreenFields, Lengths
<1> PICK x : x = (c.x - c.scale) % CURSOR
  OBVIOUS
<1>2. b = [c EXCEPT !.x = x]
  BY DEF StepBack
<1>3. b \in Screens /\ b.x = x /\ b.y = c.y /\ b.scale = c.scale /\ b.cells = c.cells
  BY <1>2, Moves
<1>4. x = c.x - c.scale
  <2>1. c.x - c.scale \in Nat /\ c.x - c.scale < CURSOR
    BY <1>1
  <2> QED
    BY <2>1, InRange
<1> PICK a : a = Advance(put_char(b, BLANK))
  OBVIOUS
<1>5. BLANK \in Glyphs /\ HasGlyph(BLANK)
  BY BlankIsDrawn DEF Glyphs
<1>6. /\ a \in Screens /\ a.scale = b.scale
      /\ Settled(b) =>
           \/ /\ b.x + 2 * b.scale < WIDTH
              /\ a.x = b.x + b.scale /\ a.y = b.y /\ a.cells = Drawn(b, BLANK)
           \/ /\ b.x + 2 * b.scale >= WIDTH
              /\ OnNewLine(b, a, Drawn(b, BLANK))
  BY <1>3, <1>5, PrintsOne
<1> PICK z : z = (a.x - a.scale) % CURSOR
  OBVIOUS
<1>7. r = [a EXCEPT !.x = z]
  BY DEF StepBack
<1>8. r \in Screens /\ r.x = z /\ r.y = a.y /\ r.scale = a.scale /\ r.cells = a.cells
  BY <1>6, <1>7, Moves
<1>9. ASSUME Settled(c) PROVE r.x = b.x /\ r.y = c.y /\ r.cells = Drawn(b, BLANK)
  <2>1. c.x + c.scale < WIDTH /\ c.y + c.scale <= HEIGHT
    BY <1>1, <1>9 DEF Settled
  <2>2. Settled(b) /\ b.x + 2 * b.scale < WIDTH
    BY <1>1, <1>3, <1>4, <2>1 DEF Settled
  <2>3. a.x = b.x + b.scale /\ a.y = b.y /\ a.cells = Drawn(b, BLANK)
    BY <1>1, <1>3, <1>4, <1>6, <2>2
  <2>4. z = b.x
    <3>1. a.x - a.scale = b.x /\ b.x \in Nat /\ b.x < CURSOR
      BY <1>1, <1>3, <1>4, <1>6, <2>3
    <3> QED
      BY <3>1, InRange
  <2> QED
    BY <1>3, <1>8, <2>3, <2>4
<1> QED
  BY <1>3, <1>4, <1>6, <1>8, <1>9

(* The cursor is on column col of row, of the grid of its scale.           *)
At(c, col, row) == c.x = col * c.scale /\ c.y = row * c.scale

LEMMA AlignedAt ==
  ASSUME NEW c \in Screens
  PROVE  Aligned(c) <=> \E col, row \in Nat : At(c, col, row)
<1>1. c.x \in Nat /\ c.y \in Nat /\ c.scale \in Nat \ {0}
  BY ScreenFields
<1>2. c.x % c.scale = 0 <=> \E col \in Nat : c.x = col * c.scale
  BY <1>1, MultiplesAre
<1>3. c.y % c.scale = 0 <=> \E row \in Nat : c.y = row * c.scale
  BY <1>1, MultiplesAre
<1> QED
  BY <1>2, <1>3 DEF Aligned, At

LEMMA SettledOnNewLine ==
  ASSUME NEW c \in Screens, NEW r \in Screens, r.scale = c.scale, NEW f, OnNewLine(c, r, f),
         Settled(c)
  PROVE  /\ Settled(r)
         /\ \A col, row \in Nat : At(c, col, row) => At(r, 0, row) \/ At(r, 0, row + 1)
<1>1. /\ c.y \in Nat /\ c.scale \in Nat \ {0} /\ HEIGHT \in Nat /\ r.y \in Nat
  BY ScreenFields, Lengths
<1>2. Settled(r)
  BY <1>1 DEF Settled, OnNewLine
<1>3. ASSUME NEW col \in Nat, NEW row \in Nat, At(c, col, row)
      PROVE  At(r, 0, row) \/ At(r, 0, row + 1)
  <2>1. 0 * c.scale = 0 /\ (row + 1) * c.scale = row * c.scale + c.scale
    BY <1>1, Multiples
  <2> QED
    BY <1>3, <2>1 DEF At, OnNewLine
<1> QED
  BY <1>2, <1>3

(* Whatever is printed, the cursor stays where there is room.              *)
PrintKeeps(c, r) ==
    /\ r \in Screens /\ r.scale = c.scale
    /\ Settled(c) => Settled(r)
    /\ Settled(c) /\ Aligned(c) => Aligned(r)

LEMMA PutCharKeeps ==
  ASSUME NEW c \in Screens, NEW ch \in Glyphs \cup Undrawn \cup {BACKSPACE, "\n"},
         NEW r, r = put_char_cursor(c, ch)
  PROVE  PrintKeeps(c, r)
<1>1. /\ c.x \in Nat /\ c.y \in Nat /\ c.scale \in Nat \ {0} /\ WIDTH \in Nat /\ HEIGHT \in Nat
  BY ScreenFields, Lengths
<1>2. CASE ch = "\n"
  <2>1. r = new_line(c)
    BY <1>2 DEF put_char_cursor, BACKSPACE
  <2>2. r \in Screens /\ r.scale = c.scale /\ OnNewLine(c, r, c.cells)
    BY <2>1, NewLine DEF OnNewLine
  <2>3. 0 \in Nat /\ \A row \in Nat : row + 1 \in Nat
    OBVIOUS
  <2> QED
    BY <2>2, <2>3, SettledOnNewLine, AlignedAt DEF PrintKeeps
<1>3. CASE ch = BACKSPACE /\ ch # "\n"
  <2>1. r = IF c.x < c.scale THEN c ELSE StepBack(Advance(put_char(StepBack(c), BLANK)))
    BY <1>3 DEF put_char_cursor
  <2>2. CASE c.x < c.scale
    BY <2>1, <2>2 DEF PrintKeeps
  <2>3. CASE ~(c.x < c.scale)
    <3> PICK b : b = StepBack(c)
      OBVIOUS
    <3>1. c.x >= c.scale /\ r = StepBack(Advance(put_char(b, BLANK)))
      BY <1>1, <2>1, <2>3
    <3>2. /\ r \in Screens /\ r.scale = c.scale
          /\ Settled(c) => r.x = c.x - c.scale /\ r.y = c.y
      BY <3>1, TakesOneBack
    <3>3. Settled(c) => Settled(r)
      BY <1>1, <3>1, <3>2 DEF Settled
    <3>4. ASSUME Settled(c), NEW col \in Nat, NEW row \in Nat, At(c, col, row)
          PROVE  col - 1 \in Nat /\ At(r, col - 1, row)
      <4>1. (col - 1) * c.scale = c.x - c.scale
        <5>1. c.x = col * c.scale /\ col \in Int
          BY <3>4 DEF At
        <5>2. (col - 1) * c.scale = col * c.scale - c.scale
          BY ONLY <1>1, <5>1, Multiples
        <5> QED
          BY <5>1, <5>2
      <4>2. col # 0
        <5>1. 0 * c.scale = 0
          BY <1>1
        <5> QED
          BY <1>1, <3>1, <3>4, <5>1 DEF At
      <4> QED
        BY <3>2, <3>4, <4>1, <4>2 DEF At
    <3> QED
      BY <3>2, <3>3, <3>4, AlignedAt DEF PrintKeeps
  <2> QED
    BY <2>2, <2>3
<1>4. CASE ch # "\n" /\ ch # BACKSPACE /\ ~HasGlyph(ch)
  BY <1>4 DEF put_char_cursor, put_char, PrintKeeps
<1>5. CASE ch # "\n" /\ ch # BACKSPACE /\ HasGlyph(ch)
  <2>1. r = Advance(put_char(c, ch)) /\ ch \in Glyphs /\ HasGlyph(ch)
    BY <1>5 DEF put_char_cursor, HasGlyph
  <2>2. /\ r \in Screens /\ r.scale = c.scale
        /\ Settled(c) => \/ /\ c.x + 2 * c.scale < WIDTH
                            /\ r.x = c.x + c.scale /\ r.y = c.y
                         \/ OnNewLine(c, r, Drawn(c, ch))
    BY <2>1, PrintsOne
  <2>3. CASE OnNewLine(c, r, Drawn(c, ch))
    <3>1. 0 \in Nat /\ \A row \in Nat : row + 1 \in Nat
      OBVIOUS
    <3> QED
      BY <2>2, <2>3, <3>1, SettledOnNewLine, AlignedAt DEF PrintKeeps
  <2>4. CASE c.x + 2 * c.scale < WIDTH /\ r.x = c.x + c.scale /\ r.y = c.y
    <3>1. Settled(c) => Settled(r)
      BY <1>1, <2>2, <2>4 DEF Settled
    <3>2. ASSUME NEW col \in Nat, NEW row \in Nat, At(c, col, row)
          PROVE  col + 1 \in Nat /\ At(r, col + 1, row)
      <4>1. (col + 1) * c.scale = c.x + c.scale
        BY <1>1, <3>2, Multiples DEF At
      <4> QED
        BY <2>2, <2>4, <3>2, <4>1 DEF At
    <3> QED
      BY <2>2, <3>1, <3>2, AlignedAt DEF PrintKeeps
  <2>5. CASE ~Settled(c)
    BY <2>2, <2>5 DEF PrintKeeps
  <2> QED
    BY <2>2, <2>3, <2>4, <2>5
<1> QED
  BY <1>2, <1>3, <1>4, <1>5

(* The loop of print.                                                      *)
PrintLoop(c, text, f, n) ==
    f = [i \in 0..n |-> IF i = 0 THEN c ELSE put_char_cursor(f[i - 1], text[i])]

LEMMA PrintLoopExists ==
  ASSUME NEW c, NEW text, NEW n \in Nat
  PROVE  \E f : PrintLoop(c, text, f, n)
<1> DEFINE bad == {i \in Nat : ~\E f : PrintLoop(c, text, f, i)}
<1> SUFFICES ASSUME bad # {} PROVE FALSE
  OBVIOUS
<1>1. PICK m \in bad : \A i \in bad : m <= i
  BY LeastNatural
<1>2. CASE m = 0
  <2> DEFINE f == [i \in 0..0 |-> c]
  <2>1. f = [i \in 0..0 |-> IF i = 0 THEN c ELSE put_char_cursor(f[i - 1], text[i])]
    OBVIOUS
  <2> HIDE DEF f
  <2> QED
    BY <1>1, <1>2, <2>1 DEF PrintLoop
<1>3. CASE m # 0
  <2>1. m - 1 \in Nat /\ m - 1 \notin bad
    BY <1>1, <1>3
  <2>2. PICK g : PrintLoop(c, text, g, m - 1)
    BY <2>1
  <2> DEFINE f == [i \in 0..m |-> IF i = m THEN put_char_cursor(g[m - 1], text[m]) ELSE g[i]]
  <2>3. ASSUME NEW i \in 0..m
        PROVE  f[i] = IF i = 0 THEN c ELSE put_char_cursor(f[i - 1], text[i])
    <3>1. CASE i = m
      BY <1>1, <1>3, <2>1, <3>1
    <3>2. CASE i # m
      <4>1. i \in 0..m - 1 /\ (i # 0 => i - 1 \in 0..m - 1 /\ i - 1 # m)
        BY <1>1, <3>2
      <4>2. g[i] = IF i = 0 THEN c ELSE put_char_cursor(g[i - 1], text[i])
        BY <2>2, <4>1 DEF PrintLoop
      <4> QED
        BY <1>1, <3>2, <4>1, <4>2
    <3> QED
      BY <3>1, <3>2
  <2>4. f = [i \in 0..m |-> f[i]]
    OBVIOUS
  <2> HIDE DEF f
  <2>5. PrintLoop(c, text, f, m)
    BY <2>3, <2>4, Zenon DEF PrintLoop
  <2> QED
    BY <1>1, <2>5
<1> QED
  BY <1>2, <1>3

LEMMA PrintLoops ==
  ASSUME NEW c, NEW text, Len(text) \in Nat
  PROVE  \E f : PrintLoop(c, text, f, Len(text)) /\ print(c, text) = f[Len(text)]
<1> DEFINE n == Len(text)
           g == CHOOSE f : f = [i \in 0..n |->
                                  IF i = 0 THEN c ELSE put_char_cursor(f[i - 1], text[i])]
<1>1. print(c, text) = g[n]
  BY DEF print
<1>2. \E f : f = [i \in 0..n |-> IF i = 0 THEN c ELSE put_char_cursor(f[i - 1], text[i])]
  <2>1. \E f : PrintLoop(c, text, f, n)
    BY PrintLoopExists
  <2> QED
    BY <2>1, Zenon DEF PrintLoop
<1>3. PrintLoop(c, text, g, n)
  BY <1>2, Zenon DEF PrintLoop
<1> HIDE DEF g
<1> QED
  BY <1>1, <1>3

LEMMA Transitive ==
  ASSUME NEW a, NEW b, NEW c, PrintKeeps(a, b), PrintKeeps(b, c)
  PROVE  PrintKeeps(a, c)
BY DEF PrintKeeps

LEMMA PrintKeepsAll ==
  ASSUME NEW c \in Screens, NEW text \in Texts, NEW r, r = print(c, text)
  PROVE  PrintKeeps(c, r)
<1>1. IsText(text)
  <2>1. ASSUME NEW d \in {"C", "D"}, text = <<"^", d, "\n">> PROVE IsText(text)
    <3>1. \A i \in 1..3 : text[i] \in Range(text)
      BY <2>1 DEF Range
    <3> QED
      BY <2>1, <3>1 DEF IsText
  <2> QED
    BY <2>1, ProgramsAssumption DEF Texts
<1>2. Len(text) \in Nat /\ \A i \in 1..Len(text) : text[i] \in Range(text)
  BY <1>1 DEF IsText
<1>3. Range(text) \subseteq Glyphs
  BY DEF Glyphs
<1>4. PICK f : PrintLoop(c, text, f, Len(text)) /\ r = f[Len(text)]
  BY <1>2, PrintLoops
<1> DEFINE bad == {n \in 0..Len(text) : ~PrintKeeps(c, f[n])}
<1>5. ASSUME bad # {} PROVE FALSE
  <2>1. bad \subseteq Nat
    BY <1>2
  <2>2. PICK m \in bad : \A n \in bad : m <= n
    BY <1>5, <2>1, LeastNatural
  <2>3. f[m] = IF m = 0 THEN c ELSE put_char_cursor(f[m - 1], text[m])
    BY <1>4, <2>2 DEF PrintLoop
  <2>4. CASE m = 0
    <3>1. PrintKeeps(c, c)
      BY DEF PrintKeeps
    <3> QED
      BY <2>2, <2>3, <2>4, <3>1
  <2>5. CASE m # 0
    <3>1. m - 1 \in 0..Len(text) /\ m - 1 \notin bad /\ m \in 1..Len(text)
      BY <1>2, <2>2, <2>5
    <3>2. PrintKeeps(c, f[m - 1])
      BY <3>1
    <3>3. f[m - 1] \in Screens /\ text[m] \in Glyphs
      BY <1>2, <1>3, <3>1, <3>2 DEF PrintKeeps
    <3>4. PrintKeeps(f[m - 1], f[m])
      BY <2>3, <2>5, <3>3, PutCharKeeps
    <3>5. PrintKeeps(c, f[m])
      BY <3>2, <3>4, Transitive
    <3> QED
      BY <2>2, <3>5
  <2> QED
    BY <2>4, <2>5
<1> QED
  BY <1>2, <1>4, <1>5

-----------------------------------------------------------------------------
(* System calls.                                                           *)

SystemCalls == UNION {Range(Programs[program]) : program \in DOMAIN Programs}

LEMMA CallsAreTyped ==
  /\ \A program \in DOMAIN Programs : Programs[program] \in Seq(SystemCalls)
  /\ \A call \in SystemCalls :
        /\ call.op \in SYSTEM_CALLS /\ call.out \in Texts
        /\ call.op = "set_cursor" => call.x \in Nat
        /\ call.op \in {"set_cursor", "cursor_line"} => call.y \in Nat
<1>1. ASSUME NEW program \in DOMAIN Programs PROVE Programs[program] \in Seq(SystemCalls)
  <2>1. Programs[program] \in Seq(Range(Programs[program]))
    BY ProgramsAssumption DEF IsText
  <2>2. Range(Programs[program]) \subseteq SystemCalls
    BY DEF SystemCalls
  <2> QED
    BY <2>1, <2>2
<1>2. ASSUME NEW call \in SystemCalls
      PROVE  /\ call.op \in SYSTEM_CALLS /\ call.out \in Texts
             /\ call.op = "set_cursor" => call.x \in Nat
             /\ call.op \in {"set_cursor", "cursor_line"} => call.y \in Nat
  <2>1. PICK program \in DOMAIN Programs : call \in Range(Programs[program])
    BY DEF SystemCalls
  <2>2. call.out \in Texts
    BY DEF Texts, SystemCalls
  <2> QED
    BY <2>1, <2>2, ProgramsAssumption
<1> QED
  BY <1>1, <1>2

LEMMA SetCursor ==
  ASSUME NEW c \in Screens, NEW x \in Nat, NEW y \in Nat, NEW r, r = set_cursor(c, x, y)
  PROVE  /\ r \in Screens /\ r.scale = c.scale /\ r.y + r.scale <= HEIGHT
         /\ r.x <= x /\ r.x + r.scale <= WIDTH
<1>1. /\ c.scale \in Nat /\ c.scale <= WIDTH /\ c.scale <= HEIGHT /\ c.scale > 0
      /\ WIDTH \in Nat /\ HEIGHT \in Nat /\ WIDTH < CURSOR /\ CURSOR \in Nat
      /\ c.cells \in [Cells -> Glyphs]
  BY ScreenFields, Lengths
<1> PICK u, v, f : u = AtMost(x, WIDTH - c.scale) /\ v = AtMost(y, HEIGHT - c.scale) /\ f = c.cells
  OBVIOUS
<1>2. u \in 0..CURSOR - 1 /\ u <= x /\ u + c.scale <= WIDTH
  BY <1>1 DEF AtMost
<1>3. v \in 0..HEIGHT - 1 /\ v + c.scale <= HEIGHT
  BY <1>1 DEF AtMost
<1>4. r = Redrawn(c, u, v, f)
  BY DEF set_cursor, Redrawn, Screens
<1>5. f \in [Cells -> Glyphs]
  BY <1>1
<1>6. r \in Screens /\ r.x = u /\ r.y = v /\ r.scale = c.scale
  BY ONLY c \in Screens, <1>2, <1>3, <1>4, <1>5, ScreenWith
<1> QED
  BY <1>2, <1>3, <1>6

LEMMA SetScale ==
  ASSUME NEW c \in Screens, NEW s \in Int, NEW r, r = set_scale(c, s)
  PROVE  r \in Screens /\ (r.scale = c.scale => r = c)
<1>1. CASE s \in Scales
  <2>1. r = [c EXCEPT !.scale = s]
    BY <1>1 DEF set_scale, Scales
  <2> QED
    BY <1>1, <2>1 DEF Screens
<1>2. CASE s \notin Scales
  BY <1>2 DEF set_scale, Scales
<1> QED
  BY <1>1, <1>2

LEMMA ClearScreen ==
  ASSUME NEW c \in Screens, NEW r, r = clear_screen(c)
  PROVE  r \in Screens /\ Settled(r)
<1>1. c.cells \in [Cells -> Glyphs] /\ c.scale \in Scales /\ c.scale <= HEIGHT /\ c.scale \in Nat
  BY ScreenFields, Lengths
<1> PICK f, x, y : f = [p \in Cells |-> BLANK] /\ x = 0 /\ y = 0
  OBVIOUS
<1>2. f \in [Cells -> Glyphs] /\ x \in 0..CURSOR - 1 /\ y \in 0..HEIGHT - 1
  <2>1. BLANK \in Glyphs
    BY DEF Glyphs
  <2> QED
    BY <2>1, Lengths
<1>3. r = Redrawn(c, x, y, f)
  BY <1>1 DEF clear_screen, Redrawn
<1>4. r \in Screens /\ r.x = x /\ r.y = y /\ r.scale = c.scale
  BY ONLY c \in Screens, <1>2, <1>3, ScreenWith
<1> QED
  BY <1>1, <1>4 DEF Settled

(***************************************************************************)
(* Types, and the cursor on the screen.                                    *)
(***************************************************************************)
Runs == [fg : Seq(SystemCalls), bg : Seq(SystemCalls)]

ConsTypes ==
    /\ con \in Screens
    /\ line \in Seq(Chars \cup Undrawn) /\ Len(line) <= LINE_SIZE
    /\ ~reading => line = <<>>
    /\ running \in Runs

ConsInv == ConsTypes /\ (~unsettled => Settled(con))

LEMMA NoLine == <<>> \in Seq(Chars \cup Undrawn) /\ Len(<<>>) <= LINE_SIZE
<1>1. LINE_SIZE \in Nat
  BY ConsoleAssumption
<1> QED
  BY <1>1

LEMMA RunsWith ==
  ASSUME NEW old \in Runs, NEW who \in {"fg", "bg"}, NEW calls \in Seq(SystemCalls)
  PROVE  old[who] \in Seq(SystemCalls) /\ [old EXCEPT ![who] = calls] \in Runs
<1>1. CASE who = "fg"
  BY <1>1 DEF Runs
<1>2. CASE who = "bg"
  BY <1>2 DEF Runs
<1> QED
  BY <1>1, <1>2

LEMMA ConsStarts == ConsoleInit => ConsInv
<1> SUFFICES ASSUME ConsoleInit PROVE ConsInv
  OBVIOUS
<1> PICK f : f = [p \in Cells |-> BLANK]
  OBVIOUS
<1>1. con = [x |-> 0, y |-> 0, scale |-> 1, cells |-> f]
  BY DEF ConsoleInit, Cells
<1>2. f \in [Cells -> Glyphs]
  <2>1. BLANK \in Glyphs
    BY DEF Glyphs
  <2> QED
    BY <2>1
<1>3. 0 \in 0..CURSOR - 1 /\ 0 \in 0..HEIGHT - 1 /\ 1 \in Scales /\ 0 + 1 <= HEIGHT
  BY Lengths
<1>4. con \in Screens /\ Settled(con)
  <2> PICK x, y, s : x = 0 /\ y = 0 /\ s = 1
    OBVIOUS
  <2>1. con = [x |-> x, y |-> y, scale |-> s, cells |-> f]
    BY <1>1
  <2>2. x \in 0..CURSOR - 1 /\ y \in 0..HEIGHT - 1 /\ s \in Scales
    BY <1>3
  <2>3. con \in Screens
    BY ONLY <1>2, <2>1, <2>2 DEF Screens
  <2>4. con.x = 0 /\ con.y = 0 /\ con.scale = 1
    BY <1>1
  <2>5. Settled(con)
    BY <1>3, <2>4 DEF Settled
  <2> QED
    BY <2>3, <2>5
<1>5. running \in Runs
  BY DEF ConsoleInit, Runs
<1>6. line = <<>> /\ Len(line) <= LINE_SIZE /\ line \in Seq(Chars \cup Undrawn)
  BY NoLine DEF ConsoleInit
<1> QED
  BY <1>4, <1>5, <1>6 DEF ConsInv, ConsTypes

LEMMA TypeKeeps ==
  ASSUME ConsInv, NEW ch \in Chars \cup Undrawn \cup {BACKSPACE}, Type(ch)
  PROVE  ConsInv'
<1>1. PrintKeeps(con, con')
  <2>1. con \in Screens /\ ch \in Glyphs \cup Undrawn \cup {BACKSPACE, "\n"} /\ con' = put_char_cursor(con, ch)
    BY DEF ConsInv, ConsTypes, Glyphs, Type, Echo
  <2> QED
    BY ONLY <2>1, PutCharKeeps
<1>2. line' \in Seq(Chars \cup Undrawn) /\ Len(line') <= LINE_SIZE
  <2>1. line \in Seq(Chars \cup Undrawn) /\ Len(line) < LINE_SIZE /\ LINE_SIZE \in Nat
    BY ConsoleAssumption DEF ConsInv, ConsTypes, Type
  <2>2. CASE ch = BACKSPACE
    <3>1. line # <<>> /\ line' = SubSeq(line, 1, Len(line) - 1)
      BY <2>2 DEF Type, Front
    <3> QED
      BY <2>1, <3>1
  <2>3. CASE ch # BACKSPACE
    <3>1. ch \in Chars \cup Undrawn /\ line' = Append(line, ch)
      BY <2>3 DEF Type
    <3> QED
      BY <2>1, <3>1
  <2> QED
    BY <2>2, <2>3
<1>3. reading' = reading /\ running' = running /\ unsettled' = unsettled /\ reading
  BY DEF Type
<1> QED
  BY <1>1, <1>2, <1>3 DEF ConsInv, ConsTypes, PrintKeeps

LEMMA EndLineKeeps ==
  ASSUME ConsInv, NEW program \in DOMAIN Programs, EndLine(program)
  PROVE  ConsInv'
<1>1. PrintKeeps(con, con')
  <2>1. con \in Screens /\ "\n" \in Glyphs \cup Undrawn \cup {BACKSPACE, "\n"}
        /\ con' = put_char_cursor(con, "\n")
    BY DEF ConsInv, ConsTypes, EndLine, Echo
  <2> QED
    BY ONLY <2>1, PutCharKeeps
<1>2. line' = <<>> /\ line' \in Seq(Chars \cup Undrawn) /\ Len(line') <= LINE_SIZE
  BY NoLine DEF EndLine
<1>3. running' \in Runs
  <2>1. running \in Runs /\ Programs[program] \in Seq(SystemCalls)
    BY CallsAreTyped DEF ConsInv, ConsTypes
  <2>2. running' = [running EXCEPT !["fg"] = Programs[program]]
    BY DEF EndLine
  <2> QED
    BY <2>1, <2>2, RunsWith
<1>4. unsettled' = unsettled
  BY DEF EndLine
<1> QED
  BY <1>1, <1>2, <1>3, <1>4 DEF ConsInv, ConsTypes, PrintKeeps

LEMMA PromptKeeps ==
  ASSUME ConsInv, Prompt
  PROVE  ConsInv'
<1>1. PrintKeeps(con, con')
  <2>1. con \in Screens /\ PROMPT \in Texts /\ con' = print(con, PROMPT)
    BY DEF ConsInv, ConsTypes, Texts, Prompt
  <2> QED
    BY ONLY <2>1, PrintKeepsAll
<1>2. line' = line /\ line = <<>> /\ running' = running /\ unsettled' = unsettled
  BY DEF Prompt, ConsInv, ConsTypes
<1> QED
  BY <1>1, <1>2 DEF ConsInv, ConsTypes, PrintKeeps

(* What a system call does to the screen.                                  *)
LEMMA CallScreens ==
  ASSUME con \in Screens, NEW who, NEW call \in SystemCalls, NEW r, r = Called(who, call)
  PROVE  /\ r \in Screens
         /\ call.op = "clear" => Settled(r)
         /\ Settled(con) /\ r.scale = con.scale /\ ~(call.op = "set_cursor" /\ AtEdge(r))
              => Settled(r)
<1>1. /\ call.op \in SYSTEM_CALLS /\ call.out \in Texts
      /\ call.op = "set_cursor" => call.x \in Nat
      /\ call.op \in {"set_cursor", "cursor_line"} => call.y \in Nat
  BY CallsAreTyped
<1>2. con.x \in Nat /\ con.y \in Nat /\ con.scale \in Nat \ {0} /\ WIDTH \in Nat
  BY ScreenFields, Lengths
<1>3. CASE call.op = "write"
  <2>1. r = IF Shown(who, call) THEN print(con, call.out) ELSE con
    BY <1>3 DEF Called
  <2>2. PrintKeeps(con, print(con, call.out))
    BY <1>1, PrintKeepsAll
  <2> QED
    BY <1>3, <2>1, <2>2 DEF PrintKeeps
<1>4. CASE call.op \in {"scale_up", "scale_down"}
  <2>1. PICK s \in Int : r = set_scale(con, s)
    BY <1>2, <1>4 DEF Called
  <2>2. r \in Screens /\ (r.scale = con.scale => r = con)
    BY <2>1, SetScale
  <2> QED
    BY <1>4, <2>2
<1>5. CASE call.op = "clear"
  <2>1. r = clear_screen(con)
    BY <1>5 DEF Called
  <2> QED
    BY <2>1, ClearScreen
<1>6. CASE call.op = "set_cursor"
  <2>1. r = set_cursor(con, call.x, call.y)
    BY <1>6 DEF Called
  <2>2. /\ r \in Screens /\ r.y + r.scale <= HEIGHT /\ r.x + r.scale <= WIDTH
    <3> PICK x, y : x = call.x /\ y = call.y
      OBVIOUS
    <3>1. x \in Nat /\ y \in Nat
      BY <1>1, <1>6
    <3>2. r = set_cursor(con, x, y)
      BY <2>1
    <3> QED
      BY ONLY con \in Screens, <3>1, <3>2, SetCursor
  <2>3. r.x \in Nat /\ r.scale \in Nat
    BY <2>2, ScreenFields
  <2>4. ~AtEdge(r) => Settled(r)
    BY <1>2, <2>2, <2>3 DEF AtEdge, Settled
  <2> QED
    BY <1>6, <2>2, <2>4
<1>7. CASE call.op = "cursor_line"
  <2>1. r = IF call.y >= HEIGHT \div con.scale THEN con
            ELSE set_cursor(con, con.x, call.y * con.scale)
    BY <1>7 DEF Called, set_cursor_line
  <2>2. CASE call.y >= HEIGHT \div con.scale
    BY <1>7, <2>1, <2>2
  <2>3. CASE ~(call.y >= HEIGHT \div con.scale)
    <3> PICK y : y = call.y * con.scale
      OBVIOUS
    <3>1. y \in Nat
      BY <1>1, <1>2, <1>7, Multiples
    <3>2. r = set_cursor(con, con.x, y)
      BY <2>1, <2>3
    <3>3. /\ r \in Screens /\ r.scale = con.scale /\ r.y + r.scale <= HEIGHT /\ r.x <= con.x
      <4> PICK x : x = con.x
        OBVIOUS
      <4>1. x \in Nat /\ r = set_cursor(con, x, y)
        BY <1>2, <3>2
      <4>2. r \in Screens /\ r.scale = con.scale /\ r.y + r.scale <= HEIGHT /\ r.x <= x
        BY ONLY con \in Screens, <3>1, <4>1, SetCursor
      <4> QED
        BY <4>2
    <3>4. r.x \in Nat /\ r.y \in Nat
      BY <3>3, ScreenFields
    <3>5. Settled(con) => Settled(r)
      BY <1>2, <3>3, <3>4 DEF Settled
    <3> QED
      BY <1>7, <3>3, <3>5
  <2> QED
    BY <2>2, <2>3
<1> QED
  BY <1>1, <1>3, <1>4, <1>5, <1>6, <1>7 DEF SYSTEM_CALLS

LEMMA CallKeeps ==
  ASSUME ConsInv, NEW who \in {"fg", "bg"}, Call(who)
  PROVE  ConsInv'
<1>1. running \in Runs /\ running[who] # <<>> /\ con \in Screens
  BY DEF ConsInv, ConsTypes, Call
<1>2. /\ running[who] \in Seq(SystemCalls) /\ Head(running[who]) \in SystemCalls
      /\ Tail(running[who]) \in Seq(SystemCalls)
  <2>1. <<>> \in Seq(SystemCalls)
    OBVIOUS
  <2>2. running[who] \in Seq(SystemCalls)
    BY <1>1, <2>1, RunsWith
  <2> QED
    BY <1>1, <2>2
<1> PICK call \in SystemCalls : call = Head(running[who])
  BY <1>2
<1>3. /\ con' = Called(who, call)
      /\ unsettled' = IF call.op = "clear" THEN FALSE
                      ELSE \/ unsettled \/ con'.scale # con.scale
                           \/ call.op = "set_cursor" /\ AtEdge(con')
      /\ running' = [running EXCEPT ![who] = Tail(running[who])]
      /\ line' = line /\ reading' = reading
  BY DEF Call
<1>4. /\ con' \in Screens
      /\ call.op = "clear" => Settled(con')
      /\ Settled(con) /\ con'.scale = con.scale /\ ~(call.op = "set_cursor" /\ AtEdge(con'))
           => Settled(con')
  BY <1>1, <1>3, CallScreens
<1>5. running' \in Runs
  BY <1>1, <1>2, <1>3, RunsWith
<1>6. ~unsettled' => Settled(con')
  BY <1>3, <1>4 DEF ConsInv
<1> QED
  BY <1>3, <1>4, <1>5, <1>6 DEF ConsInv, ConsTypes

LEMMA BackgroundKeeps ==
  ASSUME ConsInv, NEW program \in DOMAIN Programs, Background(program)
  PROVE  ConsInv'
<1>1. running' \in Runs
  <2>1. running \in Runs /\ Programs[program] \in Seq(SystemCalls)
    BY CallsAreTyped DEF ConsInv, ConsTypes
  <2>2. running' = [running EXCEPT !["bg"] = Programs[program]]
    BY DEF Background
  <2> QED
    BY <2>1, <2>2, RunsWith
<1>2. con' = con /\ line' = line /\ reading' = reading /\ unsettled' = unsettled
  BY DEF Background
<1> QED
  BY <1>1, <1>2 DEF ConsInv, ConsTypes, Settled

LEMMA KeyShown ==
  ASSUME ConsInv, NEW c \in {"C", "D"}, ShowsKey(c), running' \in Runs
  PROVE  ConsInv'
<1>1. PrintKeeps(con, con')
  <2>1. con \in Screens /\ <<"^", c, "\n">> \in Texts
    BY DEF ConsInv, ConsTypes, Texts
  <2>2. PrintKeeps(con, print(con, <<"^", c, "\n">>))
    BY ONLY <2>1, PrintKeepsAll
  <2>3. PrintKeeps(con, con)
    BY <2>1 DEF PrintKeeps
  <2> QED
    BY <2>2, <2>3 DEF ShowsKey
<1>2. line' = line /\ reading' = reading /\ unsettled' = unsettled
  BY DEF ShowsKey
<1> QED
  BY <1>1, <1>2 DEF ConsInv, ConsTypes, PrintKeeps

LEMMA PressKeeps ==
  ASSUME ConsInv, PressCtrlC \/ PressCtrlD
  PROVE  ConsInv'
<1>1. running' \in Runs
  <2>1. running \in Runs /\ <<>> \in Seq(SystemCalls)
    BY DEF ConsInv, ConsTypes
  <2>2. CASE PressCtrlC
    <3>1. running' = [running EXCEPT !["fg"] = <<>>]
      BY <2>2 DEF PressCtrlC
    <3> QED
      BY <2>1, <3>1, RunsWith
  <2>3. CASE PressCtrlD
    BY <2>1, <2>3 DEF PressCtrlD
  <2> QED
    BY <2>2, <2>3
<1> QED
  BY <1>1, KeyShown DEF PressCtrlC, PressCtrlD

LEMMA ConsSteps == ConsInv /\ [ConsoleNext]_consoleVars => ConsInv'
<1> SUFFICES ASSUME ConsInv, [ConsoleNext]_consoleVars PROVE ConsInv'
  OBVIOUS
<1>1. CASE UNCHANGED consoleVars
  BY <1>1 DEF consoleVars, ConsInv, ConsTypes, Settled
<1> QED
  BY <1>1, TypeKeeps, EndLineKeeps, PromptKeeps, CallKeeps, BackgroundKeeps, PressKeeps DEF ConsoleNext

(* The types, and the cursor on the screen, is an inductive invariant ...  *)
THEOREM ConsoleInvariance == ConsoleSpec => []ConsInv
<1> QED
  BY ConsStarts, ConsSteps, PTL DEF ConsoleSpec

(* ... so there is always room for the next character, whatever is typed   *)
(* and printed, at every scale, except where unsettled says.               *)
THEOREM CursorStaysOnScreen == ConsoleSpec => []ConsoleSound
<1>1. ConsInv => ConsoleSound
  <2> SUFFICES ASSUME ConsInv PROVE ConsoleSound
    OBVIOUS
  <2>1. /\ con.x \in 0..CURSOR - 1 /\ con.y \in 0..HEIGHT - 1 /\ con.scale \in 1..MAX_SCALE
        /\ con.x \in Nat /\ con.scale \in Nat /\ con.scale <= WIDTH /\ WIDTH \in Nat
    BY ScreenFields, Lengths DEF ConsInv, ConsTypes, Scales
  <2>2. ConsTypeOK
    BY <2>1 DEF ConsTypeOK, ConsInv, ConsTypes
  <2>3. CursorOnScreen
    BY <2>1 DEF CursorOnScreen, ConsInv, Settled
  <2> QED
    BY <2>2, <2>3 DEF ConsoleSound
<1> QED
  BY <1>1, ConsoleInvariance, PTL

-----------------------------------------------------------------------------
(***************************************************************************)
(* The line on the screen.                                                 *)
(***************************************************************************)

(* The cells f of a screen, of lines of m columns of characters of scale s *)
(* show the end of the text before place n.                                *)
Shows(f, s, m, text, n) ==
    \A k \in 1..Len(text), row \in Nat, col \in 0..m - 1 :
        n - k = row * m + col => f[<<col * s, row * s>>] = text[Len(text) - k + 1]

LEMMA Products ==
  ASSUME NEW m \in Nat, NEW row \in Nat
  PROVE  row * m \in Nat
BY Multiples

(* A place before another is in a row that is not below it.                *)
LEMMA Before ==
  ASSUME NEW m \in Nat \ {0}, NEW row \in Int, NEW col \in 0..m - 1,
         NEW below \in Int, NEW right \in 0..m - 1, row * m + col <= below * m + right
  PROVE  row <= below
<1> SUFFICES ASSUME below < row PROVE FALSE
  OBVIOUS
<1>1. below + 1 <= row /\ below + 1 \in Int /\ m \in Nat
  OBVIOUS
<1>2. (below + 1) * m <= row * m /\ row * m \in Int
  BY <1>1, Multiples
<1>3. (below + 1) * m = below * m + m /\ below * m \in Int
  BY <1>1, Multiples
<1> QED
  BY <1>2, <1>3

(* The places of the grid are cells of the screen.                         *)
LEMMA PlacesAreCells ==
  ASSUME NEW s \in Scales, NEW m, m = Cols(s), NEW col \in 0..m - 1, NEW row \in Nat,
         NEW y \in 0..HEIGHT - 1, row * s <= y
  PROVE  <<col * s, row * s>> \in Cells
<1>1. s \in Nat \ {0} /\ s <= WIDTH /\ WIDTH \in Nat /\ HEIGHT \in Nat /\ m \in Nat \ {0}
  BY Lengths, ColsAre
<1>2. col \in Nat /\ col < m
  BY <1>1
<1>3. col = 0 \/ col * s < WIDTH - s
  BY <1>2, ColsAre
<1>4. row * s \in Nat /\ col * s \in Nat /\ 0 * s = 0
  BY <1>1, <1>2, Multiples
<1>5. col * s \in 0..WIDTH - 1
  BY <1>1, <1>3, <1>4
<1>6. row * s \in 0..HEIGHT - 1
  BY <1>1, <1>4
<1> QED
  BY <1>5, <1>6 DEF Cells

(* A character that is drawn shows in its place and in no other.           *)
LEMMA DrawnInPlace ==
  ASSUME NEW c \in Screens, NEW ch, NEW left \in Nat, NEW top \in Nat, At(c, left, top),
         NEW col \in Nat, NEW row \in Nat, <<col * c.scale, row * c.scale>> \in Cells
  PROVE  Drawn(c, ch)[<<col * c.scale, row * c.scale>>] =
           IF col = left /\ row = top THEN ch ELSE c.cells[<<col * c.scale, row * c.scale>>]
<1> PICK s, p : s = c.scale /\ p = <<col * c.scale, row * c.scale>>
  OBVIOUS
<1>1. s \in Nat \ {0} /\ c.x = left * s /\ c.y = top * s /\ p[1] = col * s /\ p[2] = row * s
  BY ScreenFields DEF At
<1>2. Drawn(c, ch)[p] = IF Covers(c, p) THEN ch ELSE c.cells[p]
  BY DEF Drawn
<1>3. Covers(c, p) <=> col * s \in left * s..left * s + s - 1 /\ row * s \in top * s..top * s + s - 1
  BY <1>1 DEF Covers
<1>4. ASSUME Covers(c, p) PROVE col = left /\ row = top
  BY <1>1, <1>3, <1>4, GridApart
<1>5. ASSUME col = left, row = top PROVE Covers(c, p)
  <2>1. left * s \in Int /\ top * s \in Int
    BY <1>1
  <2>2. left * s \in left * s..left * s + s - 1 /\ top * s \in top * s..top * s + s - 1
    BY <1>1, <2>1
  <2> QED
    BY <1>3, <1>5, <2>2
<1> QED
  BY <1>2, <1>4, <1>5

(* One more character ...                                                  *)
LEMMA OneMoreShows ==
  ASSUME NEW c \in Screens, NEW ch, NEW m, m = Cols(c.scale),
         NEW left \in 0..m - 1, NEW top \in Nat, At(c, left, top),
         NEW text \in Seq(Chars), Shows(c.cells, c.scale, m, text, top * m + left)
  PROVE  Shows(Drawn(c, ch), c.scale, m, Append(text, ch), top * m + left + 1)
<1>1. c.scale \in Scales /\ m \in Nat \ {0} /\ c.y \in 0..HEIGHT - 1 /\ c.scale \in Nat
  BY ScreenFields, ColsAre
<1>0. top * m \in Nat /\ left \in Nat /\ top * m + left \in Int
  <2>1. m \in Nat
    BY <1>1
  <2>2. top * m \in Nat
    BY ONLY <2>1, top \in Nat, Products
  <2>3. left \in Nat
    BY ONLY <2>1, left \in 0..m - 1
  <2> QED
    BY ONLY <2>2, <2>3
<1> PICK n \in Int : n = top * m + left
  BY <1>0
<1> PICK longer : longer = Append(text, ch)
  OBVIOUS
<1>2. /\ Len(longer) = Len(text) + 1 /\ Len(text) \in Nat /\ longer[Len(text) + 1] = ch
      /\ \A i \in 1..Len(text) : longer[i] = text[i]
  OBVIOUS
<1> PICK next \in Int : next = n + 1
  OBVIOUS
<1> SUFFICES Shows(Drawn(c, ch), c.scale, m, longer, next)
  OBVIOUS
<1> SUFFICES ASSUME NEW k \in 1..Len(longer), NEW row \in Nat, NEW col \in 0..m - 1,
                    next - k = row * m + col
             PROVE  Drawn(c, ch)[<<col * c.scale, row * c.scale>>] = longer[Len(longer) - k + 1]
  BY Zenon DEF Shows
<1>3. /\ k \in Int /\ k >= 1 /\ row * m \in Int /\ top * m \in Int /\ col \in Nat /\ left \in Nat
      /\ row \in Int /\ top \in Int
  <2>1. m \in Nat /\ Len(longer) \in Int
    BY ONLY <1>1, <1>2
  <2>2. row * m \in Nat
    BY ONLY <2>1, row \in Nat, Products
  <2>3. k \in Int /\ k >= 1
    BY ONLY <2>1, k \in 1..Len(longer)
  <2>4. col \in Nat
    BY ONLY <2>1, col \in 0..m - 1
  <2> QED
    BY ONLY <1>0, <2>2, <2>3, <2>4, row \in Nat, top \in Nat
<1>4. row <= top
  <2>1. row * m + col <= top * m + left
    <3> PICK a, b : a = row * m /\ b = top * m
      OBVIOUS
    <3>1. /\ n = b + left /\ next = n + 1 /\ next - k = a + col /\ a \in Int /\ b \in Int
          /\ k \in Int /\ k >= 1 /\ col \in Nat /\ left \in Nat
      BY <1>3
    <3>2. a + col <= b + left
      BY ONLY <3>1
    <3> QED
      BY <3>2
  <2>2. m \in Nat \ {0}
    BY <1>1
  <2> QED
    BY ONLY <1>3, <2>1, <2>2, col \in 0..m - 1, left \in 0..m - 1, Before
<1>5. <<col * c.scale, row * c.scale>> \in Cells
  <2>1. row * c.scale <= top * c.scale /\ top * c.scale = c.y
    BY <1>1, <1>3, <1>4, Multiples DEF At
  <2> PICK s, y : s = c.scale /\ y = c.y
    OBVIOUS
  <2>2. s \in Scales /\ m = Cols(s) /\ y \in 0..HEIGHT - 1 /\ row * s <= y
    BY <1>1, <2>1
  <2>3. <<col * s, row * s>> \in Cells
    BY ONLY <2>2, col \in 0..m - 1, row \in Nat, PlacesAreCells
  <2> QED
    BY <2>3
<1>6. Drawn(c, ch)[<<col * c.scale, row * c.scale>>] =
        IF col = left /\ row = top THEN ch ELSE c.cells[<<col * c.scale, row * c.scale>>]
  <2>1. c \in Screens /\ At(c, left, top)
    OBVIOUS
  <2> QED
    BY ONLY <1>3, <1>5, <2>1, row \in Nat, top \in Nat, DrawnInPlace
<1>7. CASE k = 1
  <2>1. col = left /\ row = top
    <3>1. (row * m + col) % m = col /\ (row * m + col) \div m = row
      BY <1>1, <1>3, RowAndColumn
    <3>2. (top * m + left) % m = left /\ (top * m + left) \div m = top
      BY <1>1, <1>3, RowAndColumn
    <3>3. row * m + col = top * m + left
      BY <1>3, <1>7
    <3> QED
      BY <3>1, <3>2, <3>3
  <2> QED
    BY <1>2, <1>6, <1>7, <2>1
<1>8. CASE k # 1
  <2>1. ~(col = left /\ row = top)
    BY <1>3, <1>8
  <2>2. k - 1 \in 1..Len(text) /\ n - (k - 1) = row * m + col
    <3>1. k \in 1..Len(longer) /\ n \in Int /\ next = n + 1 /\ next - k = row * m + col
      OBVIOUS
    <3> QED
      BY ONLY <1>2, <1>3, <1>8, <3>1
  <2>3. c.cells[<<col * c.scale, row * c.scale>>] = text[Len(text) - (k - 1) + 1]
    BY <2>2, Zenon DEF Shows
  <2>4. Len(text) - (k - 1) + 1 = Len(longer) - k + 1 /\ Len(longer) - k + 1 \in 1..Len(text)
    BY <1>2, <1>3, <2>2
  <2> QED
    BY <1>2, <1>6, <2>1, <2>3, <2>4
<1> QED
  BY <1>7, <1>8

(* ... or one less, which is drawn over at b, ...                          *)
LEMMA OneLessShows ==
  ASSUME NEW b \in Screens, NEW ch, NEW m, m = Cols(b.scale),
         NEW left \in 0..m - 1, NEW top \in Nat, At(b, left, top),
         NEW text \in Seq(Chars), text # <<>>,
         Shows(b.cells, b.scale, m, text, top * m + left + 1)
  PROVE  Shows(Drawn(b, ch), b.scale, m, Front(text), top * m + left)
<1>1. b.scale \in Scales /\ m \in Nat \ {0} /\ b.y \in 0..HEIGHT - 1 /\ b.scale \in Nat
  BY ScreenFields, ColsAre
<1>0. top * m \in Nat /\ left \in Nat /\ top * m + left \in Int
  <2>1. m \in Nat
    BY <1>1
  <2>2. top * m \in Nat
    BY ONLY <2>1, top \in Nat, Products
  <2>3. left \in Nat
    BY ONLY <2>1, left \in 0..m - 1
  <2> QED
    BY ONLY <2>2, <2>3
<1> PICK n \in Int : n = top * m + left
  BY <1>0
<1> PICK shorter : shorter = Front(text)
  OBVIOUS
<1>2. /\ Len(shorter) = Len(text) - 1 /\ Len(text) \in Nat \ {0}
      /\ \A i \in 1..Len(text) - 1 : shorter[i] = text[i]
  <2>1. shorter = SubSeq(text, 1, Len(text) - 1) /\ Len(text) \in Nat \ {0}
        /\ text \in Seq(Chars)
    <3>1. Len(text) \in Nat /\ text # <<>> /\ text \in Seq(Chars)
      OBVIOUS
    <3>2. Len(text) # 0
      BY ONLY <3>1
    <3> QED
      BY <3>1, <3>2 DEF Front
  <2> PICK l : l = Len(text) - 1
    OBVIOUS
  <2>2. l \in Nat /\ l <= Len(text) /\ shorter = SubSeq(text, 1, l) /\ text \in Seq(Chars)
    BY <2>1
  <2>3. Len(shorter) = l /\ \A i \in 1..l : shorter[i] = text[i]
    BY ONLY <2>2
  <2> QED
    BY <2>1, <2>3
<1> SUFFICES Shows(Drawn(b, ch), b.scale, m, shorter, n)
  OBVIOUS
<1> SUFFICES ASSUME NEW k \in 1..Len(shorter), NEW row \in Nat, NEW col \in 0..m - 1,
                    n - k = row * m + col
             PROVE  Drawn(b, ch)[<<col * b.scale, row * b.scale>>]
                      = shorter[Len(shorter) - k + 1]
  BY Zenon DEF Shows
<1>3. /\ k \in Int /\ k >= 1 /\ row * m \in Int /\ top * m \in Int /\ col \in Nat /\ left \in Nat
      /\ row \in Int /\ top \in Int
  <2>1. m \in Nat /\ Len(shorter) \in Int
    BY ONLY <1>1, <1>2
  <2>2. row * m \in Nat
    BY ONLY <2>1, row \in Nat, Products
  <2>3. k \in Int /\ k >= 1
    BY ONLY <2>1, k \in 1..Len(shorter)
  <2>4. col \in Nat
    BY ONLY <2>1, col \in 0..m - 1
  <2> QED
    BY ONLY <1>0, <2>2, <2>3, <2>4, row \in Nat, top \in Nat
<1>4. row <= top
  <2>1. row * m + col <= top * m + left
    BY <1>3
  <2> QED
    BY <1>1, <1>3, <2>1, Before
<1>5. <<col * b.scale, row * b.scale>> \in Cells
  <2>1. row * b.scale <= top * b.scale /\ top * b.scale = b.y
    BY <1>1, <1>3, <1>4, Multiples DEF At
  <2> PICK s, y : s = b.scale /\ y = b.y
    OBVIOUS
  <2>2. s \in Scales /\ m = Cols(s) /\ y \in 0..HEIGHT - 1 /\ row * s <= y
    BY <1>1, <2>1
  <2>3. <<col * s, row * s>> \in Cells
    BY ONLY <2>2, col \in 0..m - 1, row \in Nat, PlacesAreCells
  <2> QED
    BY <2>3
<1>6. Drawn(b, ch)[<<col * b.scale, row * b.scale>>] =
        IF col = left /\ row = top THEN ch ELSE b.cells[<<col * b.scale, row * b.scale>>]
  <2>1. b \in Screens /\ At(b, left, top)
    OBVIOUS
  <2> QED
    BY ONLY <1>3, <1>5, <2>1, row \in Nat, top \in Nat, DrawnInPlace
<1>7. ~(col = left /\ row = top)
  BY <1>3
<1>8. k + 1 \in 1..Len(text) /\ n + 1 - (k + 1) = row * m + col
  <2>1. k \in 1..Len(shorter) /\ n \in Int /\ n - k = row * m + col
    OBVIOUS
  <2> QED
    BY ONLY <1>2, <1>3, <2>1
<1>9. b.cells[<<col * b.scale, row * b.scale>>] = text[Len(text) - (k + 1) + 1]
  <2> PICK next, i : next = n + 1 /\ i = k + 1
    OBVIOUS
  <2>1. Shows(b.cells, b.scale, m, text, next)
    OBVIOUS
  <2>2. i \in 1..Len(text) /\ next - i = row * m + col
    BY <1>8
  <2>3. b.cells[<<col * b.scale, row * b.scale>>] = text[Len(text) - i + 1]
    BY <2>1, <2>2, Zenon DEF Shows
  <2> QED
    BY <2>3
<1>10. /\ Len(text) - (k + 1) + 1 = Len(shorter) - k + 1
       /\ Len(shorter) - k + 1 \in 1..Len(text) - 1
  BY <1>2, <1>3
<1> QED
  BY <1>2, <1>6, <1>7, <1>9, <1>10

(* ... and the line goes up with the screen.                               *)
LEMMA ScrolledShows ==
  ASSUME NEW f, NEW s \in Scales, NEW m, m = Cols(s), NEW text \in Seq(Chars),
         NEW top \in Nat, top * s + s <= HEIGHT, Shows(f, s, m, text, top * m + m)
  PROVE  Shows([p \in Cells |-> Scrolled(f, s, p)], s, m, text, top * m)
<1>1. s \in Nat \ {0} /\ m \in Nat \ {0} /\ HEIGHT \in Nat
  BY Lengths, ColsAre
<1>0. top * m \in Nat /\ top * m + m \in Int
  BY <1>1, Products
<1> PICK n \in Int : n = top * m
  BY <1>0
<1> PICK n2 \in Int : n2 = top * m + m
  BY <1>0
<1> SUFFICES Shows([p \in Cells |-> Scrolled(f, s, p)], s, m, text, n)
  OBVIOUS
<1> SUFFICES ASSUME NEW k \in 1..Len(text), NEW row \in Nat, NEW col \in 0..m - 1,
                    n - k = row * m + col
             PROVE  [p \in Cells |-> Scrolled(f, s, p)][<<col * s, row * s>>]
                      = text[Len(text) - k + 1]
  BY Zenon DEF Shows
<1>2. k \in Int /\ k >= 1 /\ row * m \in Int /\ col \in Nat /\ row \in Int /\ top \in Int
  <2>1. m \in Nat /\ Len(text) \in Int
    BY <1>1
  <2>2. row * m \in Nat
    BY ONLY <2>1, row \in Nat, Products
  <2>3. k \in Int /\ k >= 1
    BY ONLY <2>1, k \in 1..Len(text)
  <2>4. col \in Nat
    BY ONLY <2>1, col \in 0..m - 1
  <2> QED
    BY ONLY <2>2, <2>3, <2>4, row \in Nat, top \in Nat
<1>3. (row + 1) * m = row * m + m /\ row + 1 \in Nat /\ n2 - k = (row + 1) * m + col
  <2>1. (row + 1) * m = row * m + m /\ m \in Int
    BY <1>1, <1>2, Multiples
  <2>2. n \in Int /\ n2 = n + m /\ n - k = row * m + col
    OBVIOUS
  <2> QED
    BY ONLY <1>2, <2>1, <2>2, row \in Nat
<1>4. f[<<col * s, (row + 1) * s>>] = text[Len(text) - k + 1]
  BY <1>3, Zenon DEF Shows
<1>5. row + 1 <= top
  <2>1. m - 1 \in 0..m - 1 /\ (row + 1) * m + col <= top * m + (m - 1)
    <3>1. /\ n2 = top * m + m /\ n2 - k = (row + 1) * m + col /\ (row + 1) * m \in Int
          /\ top * m \in Int /\ m \in Nat \ {0}
      BY <1>0, <1>1, <1>2, <1>3
    <3> QED
      BY ONLY <1>2, <3>1
  <2> PICK right, above : right = m - 1 /\ above = row + 1
    OBVIOUS
  <2>2. /\ m \in Nat \ {0} /\ right \in 0..m - 1 /\ above \in Int /\ top \in Int
        /\ above * m + col <= top * m + right
    BY <1>1, <1>2, <2>1
  <2>3. above <= top
    BY ONLY <2>2, col \in 0..m - 1, Before
  <2> QED
    BY <2>3
<1>6. /\ (row + 1) * s <= top * s /\ (row + 1) * s = row * s + s /\ row * s \in Nat
      /\ top * s \in Nat
  <2>1. row * s \in Nat /\ top * s \in Nat
    BY <1>1, Products
  <2>2. (row + 1) * s = row * s + s
    BY <1>1, <1>2, Multiples
  <2>3. (row + 1) * s <= top * s
    BY <1>1, <1>2, <1>3, <1>5, Multiples
  <2> QED
    BY <2>1, <2>2, <2>3
<1>7. row * s < HEIGHT - s
  <2>1. s \in Nat \ {0} /\ HEIGHT \in Nat /\ top * s + s <= HEIGHT
    BY <1>1
  <2> QED
    BY ONLY <1>6, <2>1
<1>8. <<col * s, row * s>> \in Cells
  <2> PICK y : y = row * s
    OBVIOUS
  <2>1. y \in 0..HEIGHT - 1 /\ row * s <= y
    BY <1>1, <1>6, <1>7
  <2> QED
    BY <2>1, PlacesAreCells
<1>9. Scrolled(f, s, <<col * s, row * s>>) = f[<<col * s, row * s + s>>]
  BY <1>7 DEF Scrolled
<1> QED
  BY <1>4, <1>6, <1>8, <1>9

(* The cursor is behind the line.                                          *)
LineAt(c, text) ==
    \E col \in 0..Cols(c.scale) - 1, row \in Nat :
        /\ At(c, col, row)
        /\ Shows(c.cells, c.scale, Cols(c.scale), text, row * Cols(c.scale) + col)

LEMMA ColumnOfLine ==
  ASSUME NEW c \in Screens, Settled(c), NEW col \in Nat, NEW row \in Nat, At(c, col, row)
  PROVE  col \in 0..Cols(c.scale) - 1
<1> PICK s, m : s = c.scale /\ m = Cols(s)
  OBVIOUS
<1>1. s \in Scales /\ s \in Nat \ {0} /\ WIDTH \in Nat
  BY ScreenFields, Lengths
<1>2. m \in Nat \ {0} /\ (col < m <=> col = 0 \/ col * s < WIDTH - s)
  BY ONLY <1>1, m = Cols(s), col \in Nat, ColsAre
<1>3. col = 0 \/ col * s < WIDTH - s
  <2>1. c.x = col * s /\ (c.x = 0 \/ c.x + s < WIDTH) /\ c.x \in Nat
    BY ScreenFields DEF Settled, At
  <2>2. CASE c.x = 0
    <3>1. ASSUME col # 0 PROVE FALSE
      <4>1. 1 <= col /\ 1 \in Int
        BY <3>1
      <4>2. 1 * s <= col * s /\ 1 * s = s
        BY <1>1, <4>1, Multiples
      <4> QED
        BY <1>1, <2>1, <2>2, <4>2
    <3> QED
      BY <3>1
  <2>3. CASE c.x + s < WIDTH
    <3>1. c.x < WIDTH - s
      BY <1>1, <2>1, <2>3
    <3> QED
      BY <2>1, <3>1
  <2> QED
    BY <2>1, <2>2, <2>3
<1>4. col < m
  BY <1>2, <1>3
<1> QED
  BY <1>2, <1>4

LEMMA LineStarts ==
  ASSUME NEW c \in Screens, Settled(c), Aligned(c)
  PROVE  LineAt(c, <<>>)
<1> PICK m : m = Cols(c.scale)
  OBVIOUS
<1>1. PICK col, row \in Nat : At(c, col, row)
  BY AlignedAt
<1>2. col \in 0..m - 1
  BY <1>1, ColumnOfLine
<1>3. Shows(c.cells, c.scale, m, <<>>, row * m + col)
  <2>1. 1..Len(<<>>) = {}
    OBVIOUS
  <2> QED
    BY <2>1, Zenon DEF Shows
<1> QED
  BY <1>1, <1>2, <1>3, Zenon DEF LineAt

LEMMA TypedIsShown ==
  ASSUME NEW c \in Screens, Settled(c), NEW text \in Seq(Chars), LineAt(c, text),
         NEW ch \in Chars, NEW r, r = Advance(put_char(c, ch))
  PROVE  LineAt(r, Append(text, ch))
<1>0. ch \in Glyphs /\ HasGlyph(ch)
  BY BlankIsDrawn DEF Glyphs
<1> PICK s, m, longer, f :
       s = c.scale /\ m = Cols(s) /\ longer = Append(text, ch) /\ f = Drawn(c, ch)
  OBVIOUS
<1>1. PICK col \in 0..m - 1, row \in Nat :
        At(c, col, row) /\ Shows(c.cells, s, m, text, row * m + col)
  BY Zenon DEF LineAt
<1>2. /\ s \in Scales /\ s \in Nat \ {0} /\ WIDTH \in Nat /\ HEIGHT \in Nat
      /\ c.x \in Nat /\ c.y \in Nat
  BY ScreenFields, Lengths
<1>3. m \in Nat \ {0} /\ \A i \in Nat : i < m <=> i = 0 \/ i * s < WIDTH - s
  BY ONLY <1>2, m = Cols(s), ColsAre
<1>4. col \in Nat /\ row \in Nat /\ c.x = col * s /\ c.y = row * s
  BY <1>1, <1>3 DEF At
<1>5. (col + 1) * s = c.x + s /\ (row + 1) * s = c.y + s /\ (row + 1) * m = row * m + m
  <2>1. m \in Nat /\ s \in Nat /\ col \in Int /\ row \in Int
    BY <1>2, <1>3, <1>4
  <2>2. (col + 1) * s = col * s + s
    BY ONLY <2>1, Multiples
  <2>3. (row + 1) * s = row * s + s
    BY ONLY <2>1, Multiples
  <2>4. (row + 1) * m = row * m + m
    BY ONLY <2>1, Multiples
  <2> QED
    BY ONLY <1>4, <2>2, <2>3, <2>4
<1>6. row * m \in Nat /\ 0 * s = 0
  BY <1>2, <1>3, Products
<1>7. Shows(f, s, m, longer, row * m + col + 1)
  <2>1. /\ m = Cols(c.scale) /\ At(c, col, row)
        /\ Shows(c.cells, c.scale, m, text, row * m + col)
    BY <1>1
  <2>2. Shows(Drawn(c, ch), c.scale, m, Append(text, ch), row * m + col + 1)
    BY ONLY c \in Screens, <2>1, col \in 0..m - 1, row \in Nat, text \in Seq(Chars), OneMoreShows
  <2> QED
    BY <2>2
<1>8. /\ r \in Screens /\ r.scale = s
      /\ \/ /\ c.x + 2 * s < WIDTH
            /\ r.x = c.x + s /\ r.y = c.y /\ r.cells = f
         \/ /\ c.x + 2 * s >= WIDTH
            /\ OnNewLine(c, r, f)
  BY <1>0, PrintsOne
<1>9. CASE c.x + 2 * s < WIDTH /\ r.x = c.x + s /\ r.y = c.y /\ r.cells = f
  <2> PICK right : right = col + 1
    OBVIOUS
  <2>1. right \in 0..m - 1
    <3>1. right \in Nat /\ (col + 1) * s < WIDTH - s
      <4>1. c.x + s < WIDTH - s
        BY ONLY <1>2, <1>9
      <4> QED
        BY <1>4, <1>5, <4>1
    <3> QED
      BY <1>3, <3>1
  <2>2. At(r, right, row)
    BY <1>4, <1>5, <1>8, <1>9 DEF At
  <2>3. Shows(r.cells, r.scale, m, longer, row * m + right)
    <3>1. row * m + col + 1 = row * m + right
      BY <1>4, <1>6
    <3> QED
      BY <1>7, <1>8, <1>9, <3>1
  <2>4. m = Cols(r.scale) /\ row \in Nat
    BY <1>8
  <2> QED
    BY <2>1, <2>2, <2>3, <2>4, Zenon DEF LineAt
<1>10. CASE c.x + 2 * s >= WIDTH /\ OnNewLine(c, r, f)
  <2>1. col + 1 = m
    <3>1. col + 1 \in Nat /\ col + 1 # 0 /\ ~((col + 1) * s < WIDTH - s)
      <4>1. ~(c.x + s < WIDTH - s)
        BY ONLY <1>2, <1>10
      <4> QED
        BY <1>4, <1>5, <4>1
    <3>2. ~(col + 1 < m)
      BY <1>3, <3>1
    <3> QED
      BY <1>3, <3>2
  <2>2. row * m + col + 1 = row * m + m
    BY <1>4, <1>6, <2>1
  <2>3. Shows(f, s, m, longer, row * m + m)
    BY <1>7, <2>2
  <2>4. 0 \in 0..m - 1 /\ r.x = 0 /\ m = Cols(r.scale)
    BY <1>3, <1>8, <1>10 DEF OnNewLine
  <2>5. CASE r.y = c.y + s /\ r.cells = f
    <3> PICK top : top = row + 1
      OBVIOUS
    <3>1. top \in Nat /\ At(r, 0, top)
      BY <1>4, <1>5, <1>6, <1>8, <2>4, <2>5 DEF At
    <3>2. Shows(r.cells, r.scale, m, longer, top * m + 0)
      <4>1. top * m + 0 = row * m + m
        BY <1>3, <1>5, <1>6
      <4> QED
        BY <1>8, <2>3, <2>5, <4>1
    <3> QED
      BY <2>4, <3>1, <3>2, ZenonT(40) DEF LineAt
  <2>6. CASE r.y = c.y /\ r.cells = [p \in Cells |-> Scrolled(f, s, p)]
    <3>1. At(r, 0, row)
      BY <1>4, <1>6, <1>8, <2>4, <2>6 DEF At
    <3>2. Shows([p \in Cells |-> Scrolled(f, s, p)], s, m, longer, row * m)
      <4>1. row * s + s <= HEIGHT
        BY <1>4 DEF Settled
      <4>2. longer \in Seq(Chars)
        OBVIOUS
      <4> QED
        BY ONLY <1>2, m = Cols(s), row \in Nat, <2>3, <4>1, <4>2, ScrolledShows
    <3>3. Shows(r.cells, r.scale, m, longer, row * m + 0)
      <4>1. row * m + 0 = row * m
        BY <1>6
      <4> QED
        BY <1>8, <2>6, <3>2, <4>1
    <3> QED
      BY <2>4, <3>1, <3>3, Zenon DEF LineAt
  <2> QED
    BY <1>10, <2>5, <2>6 DEF OnNewLine
<1> QED
  BY <1>8, <1>9, <1>10

LEMMA ErasedIsShown ==
  ASSUME NEW c \in Screens, Settled(c), NEW text \in Seq(Chars), text # <<>>, LineAt(c, text),
         c.x >= c.scale, NEW r, r = put_char_cursor(c, BACKSPACE)
  PROVE  LineAt(r, Front(text))
<1> PICK b : b = StepBack(c)
  OBVIOUS
<1> PICK s, m, shorter, f :
       s = c.scale /\ m = Cols(s) /\ shorter = Front(text) /\ f = Drawn(b, BLANK)
  OBVIOUS
<1>1. PICK col \in 0..m - 1, row \in Nat :
        At(c, col, row) /\ Shows(c.cells, s, m, text, row * m + col)
  BY Zenon DEF LineAt
<1>2. /\ s \in Scales /\ s \in Nat \ {0} /\ c.x \in Nat /\ c.y \in Nat
  BY ScreenFields, Lengths
<1>3. m \in Nat \ {0}
  BY ONLY <1>2, m = Cols(s), ColsAre
<1>4. col \in Nat /\ row \in Nat /\ c.x = col * s /\ c.y = row * s
  BY <1>1, <1>3 DEF At
<1>5. (col - 1) * s = c.x - s /\ 0 * s = 0
  BY <1>2, <1>4, Multiples
<1>6. row * m \in Nat
  BY <1>3, Products
<1> PICK left : left = col - 1
  OBVIOUS
<1>7. left \in 0..m - 1 /\ row * m + left + 1 = row * m + col
  <2>1. col # 0
    BY <1>2, <1>4, <1>5
  <2> QED
    BY <1>3, <1>4, <1>6, <2>1
<1>8. r = StepBack(Advance(put_char(b, BLANK)))
  <2>1. ~(c.x < c.scale) /\ "\n" # BACKSPACE
    BY <1>2 DEF BACKSPACE
  <2> QED
    BY <2>1 DEF put_char_cursor
<1>9. /\ r \in Screens /\ r.scale = s /\ b \in Screens /\ b.scale = s /\ b.y = c.y
      /\ b.cells = c.cells /\ b.x = c.x - s
      /\ r.x = b.x /\ r.y = c.y /\ r.cells = f
  BY <1>8, TakesOneBack
<1>10. At(b, left, row) /\ At(r, left, row)
  BY <1>4, <1>5, <1>9 DEF At
<1>11. Shows(f, s, m, shorter, row * m + left)
  <2>1. /\ m = Cols(b.scale) /\ b \in Screens
        /\ Shows(b.cells, b.scale, m, text, row * m + left + 1)
    BY <1>1, <1>7, <1>9
  <2>2. Shows(Drawn(b, BLANK), b.scale, m, Front(text), row * m + left)
    BY ONLY <2>1, <1>7, <1>10, row \in Nat, text \in Seq(Chars), text # <<>>, OneLessShows
  <2> QED
    BY <1>9, <2>2
<1>12. Shows(r.cells, r.scale, m, shorter, row * m + left) /\ m = Cols(r.scale)
  BY <1>9, <1>11
<1> QED
  BY <1>7, <1>10, <1>12, Zenon DEF LineAt

-----------------------------------------------------------------------------
(* What is shown of a text: the characters that have a glyph, and each has *)
(* as many of those behind it as in the text.                              *)
GlyphsFrom(text, i) == {j \in i..Len(text) : HasGlyph(text[j])}

ShownOf(text, shown) ==
    \A i \in 1..Len(text) : HasGlyph(text[i]) =>
        /\ Cardinality(GlyphsFrom(text, i)) \in 1..Len(shown)
        /\ shown[Len(shown) - Cardinality(GlyphsFrom(text, i)) + 1] = text[i]

OneLonger(text, longer, ch) ==
    /\ Len(text) \in Nat /\ Len(longer) = Len(text) + 1 /\ longer[Len(longer)] = ch
    /\ \A i \in 1..Len(text) : longer[i] = text[i]

LEMMA Longer ==
  ASSUME NEW S, NEW text \in Seq(S), NEW ch \in S
  PROVE  Append(text, ch) \in Seq(S) /\ OneLonger(text, Append(text, ch), ch)
BY DEF OneLonger

LEMMA Shorter ==
  ASSUME NEW S, NEW text \in Seq(S), text # <<>>
  PROVE  Front(text) \in Seq(S) /\ OneLonger(Front(text), text, Last(text))
<1>1. Len(text) \in Nat \ {0}
  <2>1. Len(text) \in Nat /\ Len(text) # 0
    OBVIOUS
  <2> QED
    BY <2>1
<1>2. Front(text) = SubSeq(text, 1, Len(text) - 1) /\ Last(text) = text[Len(text)]
  BY DEF Front, Last
<1> PICK l, shorter : l = Len(text) - 1 /\ shorter = Front(text)
  OBVIOUS
<1>3. l \in Nat /\ l <= Len(text) /\ shorter = SubSeq(text, 1, l) /\ text \in Seq(S)
  BY <1>1, <1>2
<1>4. shorter \in Seq(S) /\ Len(shorter) = l /\ \A i \in 1..l : shorter[i] = text[i]
  BY ONLY <1>3
<1> QED
  BY <1>1, <1>2, <1>4 DEF OneLonger

LEMMA GlyphsOfLonger ==
  ASSUME NEW text, NEW longer, NEW ch, OneLonger(text, longer, ch), NEW i \in 1..Len(text)
  PROVE  /\ Cardinality(GlyphsFrom(text, i)) \in Nat
         /\ Cardinality(GlyphsFrom(longer, i)) =
               Cardinality(GlyphsFrom(text, i)) + (IF HasGlyph(ch) THEN 1 ELSE 0)
         /\ HasGlyph(text[i]) => Cardinality(GlyphsFrom(text, i)) > 0
<1>1. /\ Len(text) \in Nat /\ Len(longer) = Len(text) + 1 /\ longer[Len(text) + 1] = ch
      /\ \A j \in 1..Len(text) : longer[j] = text[j]
  BY DEF OneLonger
<1>2. IsFiniteSet(GlyphsFrom(text, i))
  <2>1. IsFiniteSet(i..Len(text))
    BY <1>1, FS_Interval
  <2>2. GlyphsFrom(text, i) \in SUBSET (i..Len(text))
    BY DEF GlyphsFrom
  <2> QED
    BY ONLY <2>1, <2>2, FS_Subset
<1>3. Len(text) + 1 \notin GlyphsFrom(text, i)
  BY <1>1 DEF GlyphsFrom
<1>4. GlyphsFrom(longer, i) =
         IF HasGlyph(ch) THEN GlyphsFrom(text, i) \cup {Len(text) + 1} ELSE GlyphsFrom(text, i)
  <2>1. \A j : j \in i..Len(longer) <=> j \in i..Len(text) \/ j = Len(text) + 1
    BY <1>1
  <2>2. \A j \in i..Len(text) : longer[j] = text[j]
    BY <1>1
  <2> QED
    BY <1>1, <2>1, <2>2 DEF GlyphsFrom
<1>5. Cardinality(GlyphsFrom(text, i)) \in Nat
  BY <1>2, FS_CardinalityType
<1>6. Cardinality(GlyphsFrom(longer, i)) =
         Cardinality(GlyphsFrom(text, i)) + (IF HasGlyph(ch) THEN 1 ELSE 0)
  <2>1. CASE HasGlyph(ch)
    <3>1. Cardinality(GlyphsFrom(text, i) \cup {Len(text) + 1}) = Cardinality(GlyphsFrom(text, i)) + 1
      BY ONLY <1>2, <1>3, FS_AddElement
    <3> QED
      BY <1>4, <2>1, <3>1
  <2>2. CASE ~HasGlyph(ch)
    BY <1>4, <1>5, <2>2
  <2> QED
    BY <2>1, <2>2
<1>7. ASSUME HasGlyph(text[i]) PROVE Cardinality(GlyphsFrom(text, i)) > 0
  <2>1. i \in GlyphsFrom(text, i)
    BY <1>1, <1>7 DEF GlyphsFrom
  <2>2. Cardinality(GlyphsFrom(text, i)) # 0
    BY <1>2, <2>1, FS_EmptySet
  <2> QED
    BY <1>5, <2>2
<1> QED
  BY <1>5, <1>6, <1>7

LEMMA LastGlyph ==
  ASSUME NEW text, NEW longer, NEW ch, OneLonger(text, longer, ch), HasGlyph(ch)
  PROVE  Cardinality(GlyphsFrom(longer, Len(longer))) = 1
<1>1. Len(longer) \in Int /\ longer[Len(longer)] = ch
  BY DEF OneLonger
<1>2. GlyphsFrom(longer, Len(longer)) = {Len(longer)}
  BY <1>1 DEF GlyphsFrom
<1> QED
  BY <1>2, FS_Singleton

(* One character more in the text is one more shown, or none.              *)
LEMMA MoreIsShown ==
  ASSUME NEW text, NEW longer, NEW ch, OneLonger(text, longer, ch),
         NEW shown, NEW more, ShownOf(text, shown), Len(shown) \in Nat,
         IF HasGlyph(ch) THEN OneLonger(shown, more, ch) ELSE more = shown
  PROVE  ShownOf(longer, more)
<1>1. /\ Len(text) \in Nat /\ Len(longer) = Len(text) + 1 /\ longer[Len(longer)] = ch
      /\ \A i \in 1..Len(text) : longer[i] = text[i]
  BY DEF OneLonger
<1>2. ASSUME NEW i \in 1..Len(longer), HasGlyph(longer[i])
      PROVE  /\ Cardinality(GlyphsFrom(longer, i)) \in 1..Len(more)
             /\ more[Len(more) - Cardinality(GlyphsFrom(longer, i)) + 1] = longer[i]
  <2>1. CASE i = Len(longer)
    <3>1. HasGlyph(ch) /\ OneLonger(shown, more, ch)
      BY <1>1, <1>2, <2>1
    <3>2. Cardinality(GlyphsFrom(longer, i)) = 1
      BY <2>1, <3>1, LastGlyph
    <3> QED
      BY <1>1, <2>1, <3>1, <3>2 DEF OneLonger
  <2>2. CASE i # Len(longer)
    <3> PICK n, m : n = Cardinality(GlyphsFrom(text, i)) /\ m = Cardinality(GlyphsFrom(longer, i))
      OBVIOUS
    <3>1. i \in 1..Len(text) /\ longer[i] = text[i]
      BY <1>1, <2>2
    <3>2. n \in Nat /\ m = n + (IF HasGlyph(ch) THEN 1 ELSE 0)
      BY <3>1, GlyphsOfLonger
    <3>3. n \in 1..Len(shown) /\ shown[Len(shown) - n + 1] = text[i]
      BY <1>2, <3>1 DEF ShownOf
    <3>4. CASE HasGlyph(ch)
      <4>1. /\ Len(more) = Len(shown) + 1 /\ m = n + 1
            /\ \A j \in 1..Len(shown) : more[j] = shown[j]
        BY <3>2, <3>4 DEF OneLonger
      <4>2. m \in 1..Len(more) /\ Len(more) - m + 1 = Len(shown) - n + 1
        BY <3>2, <3>3, <4>1
      <4>3. Len(shown) - n + 1 \in 1..Len(shown)
        BY <3>3
      <4> QED
        BY <3>1, <3>3, <4>1, <4>2, <4>3
    <3>5. CASE ~HasGlyph(ch)
      BY <3>1, <3>2, <3>3, <3>5
    <3> QED
      BY <3>4, <3>5
  <2> QED
    BY <2>1, <2>2
<1> QED
  BY <1>2 DEF ShownOf

(* One that was shown less.                                                *)
LEMMA LessIsShown ==
  ASSUME NEW text, NEW longer, NEW ch, OneLonger(text, longer, ch), HasGlyph(ch),
         NEW shown, NEW more, NEW d, OneLonger(shown, more, d), ShownOf(longer, more)
  PROVE  ShownOf(text, shown)
<1>1. /\ Len(text) \in Nat /\ Len(longer) = Len(text) + 1 /\ Len(shown) \in Nat
      /\ Len(more) = Len(shown) + 1
      /\ \A i \in 1..Len(text) : longer[i] = text[i]
      /\ \A i \in 1..Len(shown) : more[i] = shown[i]
  BY DEF OneLonger
<1>2. ASSUME NEW i \in 1..Len(text), HasGlyph(text[i])
      PROVE  /\ Cardinality(GlyphsFrom(text, i)) \in 1..Len(shown)
             /\ shown[Len(shown) - Cardinality(GlyphsFrom(text, i)) + 1] = text[i]
  <2> PICK n, m : n = Cardinality(GlyphsFrom(text, i)) /\ m = Cardinality(GlyphsFrom(longer, i))
    OBVIOUS
  <2>1. n \in Nat /\ m = n + 1 /\ n > 0
    BY <1>2, GlyphsOfLonger
  <2>2. i \in 1..Len(longer) /\ longer[i] = text[i]
    BY <1>1
  <2>3. m \in 1..Len(more) /\ more[Len(more) - m + 1] = text[i]
    BY <1>2, <2>2 DEF ShownOf
  <2>4. n \in 1..Len(shown) /\ Len(more) - m + 1 = Len(shown) - n + 1
    BY <1>1, <2>1, <2>3
  <2>5. Len(shown) - n + 1 \in 1..Len(shown)
    BY <1>1, <2>4
  <2> QED
    BY <1>1, <2>3, <2>4, <2>5
<1> QED
  BY <1>2 DEF ShownOf

-----------------------------------------------------------------------------
(* While a line is read and nothing disturbs it, what has a glyph of it is *)
(* shown before the cursor, which a character or a backspace moves along   *)
(* the grid.                                                               *)
LineShown(c, text) == \E shown \in Seq(Chars) : LineAt(c, shown) /\ ShownOf(text, shown)

LineInv ==
    /\ ConsInv
    /\ reading /\ ~disturbed => Settled(con) /\ LineShown(con, line)

LEMMA LineStep ==
  ASSUME LineInv, ConsInv', ConsoleNext, reading', ~disturbed'
  PROVE  Settled(con') /\ LineShown(con', line')
<1>1. con \in Screens /\ line \in Seq(Chars \cup Undrawn) /\ (~reading => line = <<>>)
  BY DEF LineInv, ConsInv, ConsTypes
<1>2. CASE Prompt
  <2>1. ~unsettled /\ Aligned(con) /\ con' = print(con, PROMPT) /\ line' = <<>>
    BY <1>1, <1>2 DEF Prompt
  <2>2. Settled(con)
    BY <2>1 DEF LineInv, ConsInv
  <2>3. PROMPT \in Texts
    BY DEF Texts
  <2>4. PrintKeeps(con, con')
    BY ONLY <1>1, <2>1, <2>3, PrintKeepsAll
  <2>5. con' \in Screens /\ Settled(con') /\ Aligned(con')
    BY <2>1, <2>2, <2>4 DEF PrintKeeps
  <2>6. LineAt(con', <<>>)
    BY <2>5, LineStarts
  <2>7. ShownOf(<<>>, <<>>) /\ <<>> \in Seq(Chars)
    <3>1. 1..Len(<<>>) = {}
      OBVIOUS
    <3> QED
      BY <3>1 DEF ShownOf
  <2> QED
    BY <2>1, <2>5, <2>6, <2>7 DEF LineShown
<1>3. ASSUME NEW ch \in Chars \cup Undrawn \cup {BACKSPACE}, Type(ch)
      PROVE  Settled(con') /\ LineShown(con', line')
  <2> PICK S : S = Chars \cup Undrawn
    OBVIOUS
  <2>0. line \in Seq(S) /\ (ch # BACKSPACE => ch \in S)
    BY <1>1
  <2>1. /\ reading /\ ~disturbed
        /\ ch = BACKSPACE => ~(con.x < con.scale) /\ HasGlyph(Last(line))
        /\ con' = put_char_cursor(con, ch)
        /\ IF ch = BACKSPACE THEN line # <<>> /\ line' = Front(line) ELSE line' = Append(line, ch)
    BY <1>3 DEF Type, Echo
  <2>2. Settled(con)
    BY <2>1 DEF LineInv
  <2> PICK shown \in Seq(Chars) : LineAt(con, shown) /\ ShownOf(line, shown)
    BY <2>1 DEF LineInv, LineShown
  <2>3. PrintKeeps(con, con')
    <3>1. ch \in Glyphs \cup Undrawn \cup {BACKSPACE, "\n"}
      BY DEF Glyphs
    <3> QED
      BY ONLY <1>1, <2>1, <3>1, PutCharKeeps
  <2>4. Settled(con')
    BY <2>2, <2>3 DEF PrintKeeps
  <2>5. CASE ch = BACKSPACE
    <3>1. con.x >= con.scale /\ con' = put_char_cursor(con, BACKSPACE)
      BY <1>1, <2>1, <2>5, ScreenFields
    <3>2. line # <<>> /\ line' = Front(line) /\ HasGlyph(Last(line))
      BY <2>1, <2>5
    <3>3. OneLonger(Front(line), line, Last(line))
      BY <1>1, <3>2, Shorter
    <3>4. shown # <<>>
      <4>1. Len(line) \in 1..Len(line) /\ line[Len(line)] = Last(line)
        BY <3>3 DEF OneLonger
      <4>2. Cardinality(GlyphsFrom(line, Len(line))) \in 1..Len(shown)
        BY <3>2, <4>1 DEF ShownOf
      <4> QED
        BY <4>2
    <3>5. Front(shown) \in Seq(Chars) /\ OneLonger(Front(shown), shown, Last(shown))
      BY <3>4, Shorter
    <3>6. ShownOf(Front(line), Front(shown))
      BY <3>2, <3>3, <3>5, LessIsShown
    <3>7. shown \in Seq(Chars) /\ LineAt(con, shown)
      OBVIOUS
    <3>8. LineAt(con', Front(shown))
      BY ONLY <1>1, <2>2, <3>1, <3>4, <3>7, ErasedIsShown
    <3> QED
      BY <2>4, <3>2, <3>5, <3>6, <3>8 DEF LineShown
  <2>6. CASE ch # BACKSPACE /\ HasGlyph(ch)
    <3>1. ch \in Chars /\ ch # "\n"
      BY <2>6, ConsoleAssumption DEF HasGlyph
    <3>2. con' = Advance(put_char(con, ch)) /\ line' = Append(line, ch)
      BY <2>1, <2>6, <3>1 DEF put_char_cursor
    <3>3. shown \in Seq(Chars) /\ LineAt(con, shown)
      OBVIOUS
    <3>4. LineAt(con', Append(shown, ch))
      BY ONLY <1>1, <2>2, <3>1, <3>2, <3>3, TypedIsShown
    <3>5. OneLonger(line, Append(line, ch), ch)
      <4>1. line \in Seq(S) /\ ch \in S
        BY <2>0, <2>6
      <4> QED
        BY ONLY <4>1, Longer
    <3>6. OneLonger(shown, Append(shown, ch), ch) /\ Append(shown, ch) \in Seq(Chars)
      BY <3>1, Longer
    <3>7. Len(shown) \in Nat /\ ShownOf(line, shown)
      OBVIOUS
    <3>8. ShownOf(Append(line, ch), Append(shown, ch))
      BY <2>6, <3>5, <3>6, <3>7, MoreIsShown
    <3> QED
      BY <2>4, <3>2, <3>4, <3>6, <3>8 DEF LineShown
  <2>7. CASE ch # BACKSPACE /\ ~HasGlyph(ch)
    <3>1. ch \in Undrawn /\ ch # "\n"
      BY <2>7, ConsoleAssumption DEF HasGlyph
    <3>2. con' = con /\ line' = Append(line, ch)
      BY <2>1, <2>7, <3>1 DEF put_char_cursor, put_char
    <3>3. OneLonger(line, Append(line, ch), ch)
      <4>1. line \in Seq(S) /\ ch \in S
        BY <2>0, <2>7
      <4> QED
        BY ONLY <4>1, Longer
    <3>4. Len(shown) \in Nat /\ ShownOf(line, shown)
      OBVIOUS
    <3>5. ShownOf(Append(line, ch), shown)
      BY <2>7, <3>3, <3>4, MoreIsShown
    <3> QED
      BY <2>4, <3>2, <3>5 DEF LineShown
  <2> QED
    BY <2>5, <2>6, <2>7
<1>4. ASSUME NEW program \in DOMAIN Programs, EndLine(program) PROVE FALSE
  BY <1>4 DEF EndLine
<1>5. ASSUME NEW who \in {"fg", "bg"}, Call(who)
      PROVE  Settled(con') /\ LineShown(con', line')
  <2>1. /\ reading /\ ~disturbed /\ con' = con /\ line' = line
    BY <1>5 DEF Call
  <2> QED
    BY <2>1 DEF LineInv
<1>6. ASSUME NEW program \in DOMAIN Programs, Background(program)
      PROVE  Settled(con') /\ LineShown(con', line')
  <2>1. /\ reading /\ ~disturbed /\ con' = con /\ line' = line
    BY <1>6 DEF Background
  <2> QED
    BY <2>1 DEF LineInv
<1>7. ASSUME PressCtrlC \/ PressCtrlD
      PROVE  Settled(con') /\ LineShown(con', line')
  <2>1. /\ reading /\ ~disturbed /\ con' = con /\ line' = line
    BY <1>7 DEF PressCtrlC, PressCtrlD, ShowsKey
  <2> QED
    BY <2>1 DEF LineInv
<1> QED
  BY <1>2, <1>3, <1>4, <1>5, <1>6, <1>7 DEF ConsoleNext

LEMMA LineSteps == LineInv /\ [ConsoleNext]_consoleVars => LineInv'
<1> SUFFICES ASSUME LineInv, [ConsoleNext]_consoleVars PROVE LineInv'
  OBVIOUS
<1>1. ConsInv'
  BY ConsSteps DEF LineInv
<1>2. CASE UNCHANGED consoleVars
  <2>1. con' = con /\ line' = line /\ reading' = reading /\ disturbed' = disturbed
    BY <1>2 DEF consoleVars
  <2> QED
    BY <1>1, <2>1 DEF LineInv
<1>3. CASE ConsoleNext
  BY <1>1, <1>3, LineStep DEF LineInv
<1> QED
  BY <1>2, <1>3

(* That is an inductive invariant ...                                      *)
THEOREM ShownInvariance == ConsoleSpec => []LineInv
<1>1. ConsoleInit => LineInv
  BY ConsStarts DEF ConsoleInit, LineInv
<1> QED
  BY <1>1, LineSteps, PTL DEF ConsoleSpec

(* ... and Place says which cells: the characters with a glyph that        *)
(* insert_command has in its buffer are what the user sees before the      *)
(* cursor, over wrapped lines, scrolling and backspaces, whatever other    *)
(* characters are typed between them, until something else is drawn on the *)
(* screen or a backspace takes back a character that is not shown.         *)
THEOREM TypedLineIsShown == ConsoleSpec => []LineIsShown
<1>1. LineInv => LineIsShown
  <2> SUFFICES ASSUME LineInv, reading, ~disturbed, NEW i \in DrawnFrom(1),
                      Place(Cardinality(DrawnFrom(i)))[2] >= 0
               PROVE  con.cells[Place(Cardinality(DrawnFrom(i)))] = line[i]
    BY DEF LineIsShown
  <2> PICK s, m, k : s = con.scale /\ m = Cols(s) /\ k = Cardinality(DrawnFrom(i))
    OBVIOUS
  <2> PICK shown \in Seq(Chars) : LineAt(con, shown) /\ ShownOf(line, shown)
    BY DEF LineInv, LineShown
  <2>1. con \in Screens /\ LineAt(con, shown)
    BY DEF LineInv, ConsInv, ConsTypes
  <2>2. /\ s \in Scales /\ s \in Nat \ {0}
    BY <2>1, ScreenFields, Lengths
  <2>3. m \in Nat \ {0}
    BY ONLY <2>2, m = Cols(s), ColsAre
  <2>4. PICK left \in 0..m - 1, top \in Nat :
          At(con, left, top) /\ Shows(con.cells, s, m, shown, top * m + left)
    BY <2>1, Zenon DEF LineAt
  <2>5. left \in Nat /\ con.x = left * s /\ con.y = top * s
    BY <2>3, <2>4 DEF At
  <2>6. con.x \div s = left /\ con.y \div s = top
    <3>1. 0 \in 0..s - 1 /\ left * s + 0 = con.x /\ top * s + 0 = con.y
      <4>1. left * s \in Nat /\ top * s \in Nat
        BY <2>2, <2>5, Products
      <4>2. s \in Nat \ {0}
        BY <2>2
      <4> QED
        BY ONLY <2>5, <4>1, <4>2
    <3>2. s \in Nat \ {0} /\ left \in Int /\ top \in Int
      BY <2>2, <2>5
    <3>3. (left * s + 0) \div s = left
      BY ONLY <3>1, <3>2, RowAndColumn
    <3>4. (top * s + 0) \div s = top
      BY ONLY <3>1, <3>2, RowAndColumn
    <3> QED
      BY <3>1, <3>3, <3>4
  <2>7. Columns = m
    BY DEF Columns, Cols
  <2> PICK place : place = top * m + left
    OBVIOUS
  <2> PICK n : n = place - k
    OBVIOUS
  <2>8. k \in 1..Len(shown) /\ shown[Len(shown) - k + 1] = line[i] /\ k \in Int
    <3>1. i \in 1..Len(line) /\ HasGlyph(line[i]) /\ DrawnFrom(i) = GlyphsFrom(line, i)
      BY DEF DrawnFrom, GlyphsFrom
    <3>2. k \in 1..Len(shown) /\ shown[Len(shown) - k + 1] = line[i]
      BY <3>1 DEF ShownOf
    <3> QED
      BY <3>2
  <2>9. n \in Int /\ place \in Int /\ n = top * m + (left - k)
    <3> PICK b : b = top * m
      OBVIOUS
    <3>1. b \in Nat /\ place = b + left /\ n = place - k /\ k \in Int /\ left \in Nat
      BY <2>3, <2>5, <2>8, Products
    <3>2. n \in Int /\ place \in Int /\ n = b + (left - k)
      BY ONLY <3>1
    <3> QED
      BY <3>2
  <2>10. Place(Cardinality(DrawnFrom(i))) = <<(n % m) * s, (n \div m) * s>>
    <3>1. n = (con.y \div con.scale) * Columns + con.x \div con.scale - k
      BY ONLY <2>6, <2>7, <2>9, s = con.scale
    <3>2. Place(k) = <<(n % Columns) * con.scale, (n \div Columns) * con.scale>>
      BY ONLY <3>1, Zenon DEF Place
    <3> QED
      BY ONLY <2>7, <3>2, s = con.scale, k = Cardinality(DrawnFrom(i))
  <2> PICK row, col : row = n \div m /\ col = n % m
    OBVIOUS
  <2>11. row \in Int /\ col \in 0..m - 1 /\ n = row * m + col
    <3>1. n \in Int
      BY <2>9
    <3>2. n \div m \in Int /\ n % m \in 0..m - 1
      BY ONLY <2>3, <3>1
    <3>3. n = (n \div m) * m + (n % m)
      BY ONLY <2>3, <3>1
    <3> QED
      BY <3>2, <3>3
  <2>12. n % m = col /\ n \div m = row
    OBVIOUS
  <2>13. row >= 0
    <3>1. row * s >= 0
      BY <2>10, <2>12
    <3>2. ASSUME row < 0 PROVE FALSE
      <4>1. row <= -1 /\ -1 \in Int /\ row \in Int
        BY <2>11, <3>2
      <4>2. row * s <= (-1) * s
        BY <2>2, <4>1, Multiples
      <4>3. (-1) * s = -s /\ row * s \in Int
        BY <2>2
      <4> QED
        BY ONLY <2>2, <3>1, <4>2, <4>3
    <3> QED
      BY <3>2
  <2>14. row \in Nat /\ place - k = row * m + col /\ Shows(con.cells, s, m, shown, place)
    BY <2>4, <2>11, <2>13
  <2>15. con.cells[<<col * s, row * s>>] = shown[Len(shown) - k + 1]
    BY ONLY <2>8, <2>11, <2>14, Zenon DEF Shows
  <2> QED
    BY <2>8, <2>10, <2>12, <2>15
<1> QED
  BY <1>1, ShownInvariance, PTL

=============================================================================
