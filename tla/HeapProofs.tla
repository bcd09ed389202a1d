------------------------------ MODULE HeapProofs ------------------------------
(***************************************************************************)
(* Proofs about the two memory managers, the free list of                  *)
(* Kernel/memory/memoryManagement.c and the buddy system of                *)
(* Kernel/memory/buddyMemoryManagement.c: whatever is asked for and freed, *)
(* the blocks of either tile its heap, and each keeps what Heap promises.  *)
(***************************************************************************)
EXTENDS Managers, DataLemmas

(* The bytes that blocks are made of.                                      *)
HEAP_END == LIST_TOTAL - BLOCK_SIZE

HeapBlocks == {b \in [addr : Nat, size : Nat] :
                  b.size > BLOCK_SIZE /\ b.addr + b.size <= HEAP_END}

InList(list, byte) == \E i \in DOMAIN list : Covers(list[i], byte)

(* No two blocks of the list share a byte.                                 *)
ListApart(list) ==
  \A byte \in Nat : \A i, j \in DOMAIN list :
      Covers(list[i], byte) /\ Covers(list[j], byte) => i = j

-----------------------------------------------------------------------------
(* The loop of coalesce_free_blocks.                                       *)

LoopOver(list, f, n) ==
    f = [i \in 0..n |-> IF i = 0 THEN <<>> ELSE Join(f[i - 1], list[i])]

(* There is such a loop over any list: each turn extends the one before.   *)
LEMMA LoopExists ==
  ASSUME NEW list, NEW n \in Nat
  PROVE  \E f : LoopOver(list, f, n)
<1> DEFINE bad == {i \in Nat : ~\E f : LoopOver(list, f, i)}
<1> SUFFICES ASSUME bad # {} PROVE FALSE
  OBVIOUS
<1>1. PICK m \in bad : \A i \in bad : m <= i
  BY LeastNatural
<1>2. CASE m = 0
  <2> DEFINE f == [i \in 0..0 |-> <<>>]
  <2>1. f = [i \in 0..0 |-> IF i = 0 THEN <<>> ELSE Join(f[i - 1], list[i])]
    OBVIOUS
  <2> HIDE DEF f
  <2> QED
    BY <1>1, <1>2, <2>1 DEF LoopOver
<1>3. CASE m # 0
  <2>1. m - 1 \in Nat /\ m - 1 \notin bad
    BY <1>1, <1>3
  <2>2. PICK g : LoopOver(list, g, m - 1)
    BY <2>1
  <2> DEFINE f == [i \in 0..m |-> IF i = m THEN Join(g[m - 1], list[m]) ELSE g[i]]
  <2>3. ASSUME NEW i \in 0..m
        PROVE  f[i] = IF i = 0 THEN <<>> ELSE Join(f[i - 1], list[i])
    <3>1. CASE i = m
      BY <1>1, <1>3, <2>1, <3>1
    <3>2. CASE i # m
      <4>1. i \in 0..m - 1 /\ (i # 0 => i - 1 \in 0..m - 1 /\ i - 1 # m)
        BY <1>1, <3>2
      <4>2. g[i] = IF i = 0 THEN <<>> ELSE Join(g[i - 1], list[i])
        BY <2>2, <4>1 DEF LoopOver
      <4> QED
        BY <1>1, <3>2, <4>1, <4>2
    <3> QED
      BY <3>1, <3>2
  <2>4. f = [i \in 0..m |-> f[i]]
    OBVIOUS
  <2> HIDE DEF f
  <2>5. LoopOver(list, f, m)
    BY <2>3, <2>4, Zenon DEF LoopOver
  <2> QED
    BY <1>1, <2>5
<1> QED
  BY <1>2, <1>3

LEMMA CoalesceLoops ==
  ASSUME NEW list, Len(list) \in Nat
  PROVE  \E f : LoopOver(list, f, Len(list)) /\ coalesce_free_blocks(list) = f[Len(list)]
<1> DEFINE n == Len(list)
           g == CHOOSE f : f = [i \in 0..n |-> IF i = 0 THEN <<>> ELSE Join(f[i - 1], list[i])]
<1>1. coalesce_free_blocks(list) = g[n]
  BY DEF coalesce_free_blocks
<1>2. \E f : f = [i \in 0..n |-> IF i = 0 THEN <<>> ELSE Join(f[i - 1], list[i])]
  BY LoopExists DEF LoopOver
<1>3. LoopOver(list, g, n)
  BY <1>2, Zenon DEF LoopOver
<1> HIDE DEF g
<1> QED
  BY <1>1, <1>3

(* A turn of the loop: the block joins the list, its bytes with it.        *)
Misses(list, block) == \A byte \in Nat : ~(InList(list, byte) /\ Covers(block, byte))
Gains(list, block, new) ==
  \A byte \in Nat : InList(new, byte) <=> InList(list, byte) \/ Covers(block, byte)

LEMMA BothFit ==
  ASSUME BLOCK_SIZE \in Nat, NEW addr \in Nat, NEW size \in Nat, NEW more \in Nat,
         size > BLOCK_SIZE, (addr + size) + more <= HEAP_END
  PROVE  /\ size + more \in Nat /\ size + more > BLOCK_SIZE
         /\ addr + (size + more) <= HEAP_END
<1>1. HEAP_END \in Int
  BY ListAssumption DEF HEAP_END
<1> QED
  BY <1>1

LEMMA Joining ==
  ASSUME NEW list \in Seq(HeapBlocks), NEW block \in HeapBlocks, NEW new,
         new = Join(list, block), ListApart(list), Misses(list, block)
  PROVE  new \in Seq(HeapBlocks) /\ ListApart(new) /\ Gains(list, block, new)
<1> DEFINE k == Len(list)
<1>0. k \in Nat /\ DOMAIN list = 1..k /\ \A i \in 1..k : list[i] \in HeapBlocks
  OBVIOUS
<1>1. CASE list # <<>> /\ Touches(Last(list), block)
  <2> DEFINE last == list[k]
             both == Block(last.addr, last.size + block.size)
  <2>1. k \in 1..k /\ last \in HeapBlocks /\ Last(list) = last
    BY <1>0, <1>1 DEF Last
  <2>2. both \in HeapBlocks
    <3>1. BLOCK_SIZE \in Nat /\ LIST_TOTAL \in Nat
      BY ListAssumption
    <3>2. /\ last.addr \in Nat /\ last.size \in Nat /\ last.size > BLOCK_SIZE
          /\ block.addr \in Nat /\ block.size \in Nat /\ block.size > BLOCK_SIZE
          /\ last.addr + last.size = block.addr /\ block.addr + block.size <= HEAP_END
      BY <1>1, <2>1 DEF Touches, HeapBlocks
    <3> DEFINE addr == last.addr
               size == last.size + block.size
    <3>3. addr \in Nat /\ size \in Nat /\ size > BLOCK_SIZE /\ addr + size <= HEAP_END
      <4>1. (last.addr + last.size) + block.size <= HEAP_END
        BY <3>2, Zenon
      <4> QED
        BY <3>1, <3>2, <4>1, BothFit
    <3>4. both = [addr |-> addr, size |-> size]
      BY DEF Block
    <3> HIDE DEF addr, size, both
    <3> QED
      BY <3>3, <3>4 DEF HeapBlocks
  <2>3. \A byte \in Nat : Covers(both, byte) <=> Covers(last, byte) \/ Covers(block, byte)
    BY <1>1, <2>1 DEF Touches, HeapBlocks, Block, Covers
  <2>4. new = Append(SubSeq(list, 1, k - 1), both)
    BY <1>1, <2>1 DEF Join, Front
  <2> HIDE DEF both
  <2>5. /\ new \in Seq(HeapBlocks) /\ DOMAIN new = 1..k /\ new[k] = both
        /\ \A i \in 1..k : i # k => new[i] = list[i]
    <3> DEFINE front == SubSeq(list, 1, k - 1)
    <3>1. /\ front \in Seq(HeapBlocks) /\ Len(front) = k - 1
          /\ \A i \in 1..k - 1 : front[i] = list[i]
      BY <1>0, <2>1
    <3>2. new = Append(front, both)
      BY <2>4
    <3> HIDE DEF front, k
    <3>3. /\ new \in Seq(HeapBlocks) /\ Len(new) = k - 1 + 1 /\ new[k - 1 + 1] = both
          /\ \A i \in 1..k - 1 : new[i] = front[i]
      BY <2>2, <3>1, <3>2
    <3>4. Len(new) = k /\ new[k] = both /\ DOMAIN new = 1..k
      BY <1>0, <3>3
    <3>5. \A i \in 1..k : i # k => i \in 1..k - 1
      BY <1>0
    <3> QED
      BY <3>1, <3>3, <3>4, <3>5
  <2>6. ListApart(new)
    BY <1>0, <2>1, <2>3, <2>5 DEF ListApart, Misses, InList
  <2>7. Gains(list, block, new)
    BY <1>0, <2>1, <2>3, <2>5 DEF Gains, InList
  <2> QED
    BY <2>5, <2>6, <2>7
<1>2. CASE ~(list # <<>> /\ Touches(Last(list), block))
  <2>1. new = Append(list, block)
    BY <1>2 DEF Join
  <2>2. /\ new \in Seq(HeapBlocks) /\ DOMAIN new = 1..k + 1 /\ new[k + 1] = block
        /\ \A i \in 1..k : new[i] = list[i]
    BY <1>0, <2>1
  <2>3. \A i \in 1..k + 1 : i = k + 1 \/ i \in 1..k
    BY <1>0
  <2>4. ListApart(new)
    BY <1>0, <2>2, <2>3 DEF ListApart, Misses, InList
  <2>5. Gains(list, block, new)
    BY <1>0, <2>2, <2>3 DEF Gains, InList
  <2> QED
    BY <2>2, <2>4, <2>5
<1> QED
  BY <1>1, <1>2

(* What the loop makes of a list after n turns.                            *)
Made(list, n, new) ==
  /\ new \in Seq(HeapBlocks) /\ ListApart(new)
  /\ \A byte \in Nat : InList(new, byte) <=> \E i \in 1..n : Covers(list[i], byte)

LEMMA LoopMakes ==
  ASSUME NEW list \in Seq(HeapBlocks), ListApart(list), NEW f, LoopOver(list, f, Len(list))
  PROVE  Made(list, Len(list), f[Len(list)])
<1>0. Len(list) \in Nat /\ DOMAIN list = 1..Len(list)
  OBVIOUS
<1> DEFINE bad == {n \in 0..Len(list) : ~Made(list, n, f[n])}
<1> SUFFICES ASSUME bad # {} PROVE FALSE
  BY <1>0
<1>1. bad \subseteq Nat
  BY <1>0
<1>2. PICK m \in bad : \A n \in bad : m <= n
  BY <1>1, LeastNatural
<1>3. f[m] = IF m = 0 THEN <<>> ELSE Join(f[m - 1], list[m])
  BY <1>2 DEF LoopOver
<1>4. CASE m = 0
  <2>1. f[m] = <<>> /\ DOMAIN f[m] = {} /\ f[m] \in Seq(HeapBlocks)
    BY <1>3, <1>4
  <2>2. Made(list, m, f[m])
    BY <1>4, <2>1 DEF Made, ListApart, InList
  <2> QED
    BY <1>2, <2>2
<1>5. CASE m # 0
  <2>1. m - 1 \in 0..Len(list) /\ m - 1 \notin bad /\ m \in DOMAIN list
    BY <1>0, <1>2, <1>5
  <2>2. Made(list, m - 1, f[m - 1])
    BY <2>1
  <2>3. list[m] \in HeapBlocks /\ f[m] = Join(f[m - 1], list[m])
    BY <1>3, <1>5, <2>1
  <2>4. m \in Nat /\ \A i \in 1..m - 1 : i \in DOMAIN list /\ i # m
    BY <1>0, <1>2
  <2>5. Misses(f[m - 1], list[m])
    BY <2>1, <2>2, <2>4 DEF Made, Misses, ListApart
  <2>6. /\ f[m] \in Seq(HeapBlocks) /\ ListApart(f[m])
        /\ Gains(f[m - 1], list[m], f[m])
    BY <2>2, <2>3, <2>5, Joining DEF Made
  <2>7. \A i \in 1..m : i = m \/ i \in 1..m - 1
    BY <2>4
  <2>8. m \in 1..m /\ \A i \in 1..m - 1 : i \in 1..m
    BY <1>5, <2>4
  <2>9. \A byte \in Nat : InList(f[m], byte) <=> \E i \in 1..m : Covers(list[i], byte)
    BY <2>2, <2>6, <2>7, <2>8 DEF Made, Gains
  <2>10. Made(list, m, f[m])
    BY <2>6, <2>9 DEF Made
  <2> QED
    BY <1>2, <2>10
<1> QED
  BY <1>4, <1>5

(* coalesce_free_blocks keeps the bytes of the list, and its blocks apart. *)
SameBytes(list, new) == \A byte \in Nat : InList(new, byte) <=> InList(list, byte)

LEMMA Coalescing ==
  ASSUME NEW list \in Seq(HeapBlocks), ListApart(list),
         NEW new, new = coalesce_free_blocks(list)
  PROVE  new \in Seq(HeapBlocks) /\ ListApart(new) /\ SameBytes(list, new)
<1>1. Len(list) \in Nat /\ DOMAIN list = 1..Len(list)
  OBVIOUS
<1>2. PICK f : LoopOver(list, f, Len(list)) /\ coalesce_free_blocks(list) = f[Len(list)]
  BY <1>1, CoalesceLoops
<1>3. Made(list, Len(list), new)
  BY <1>2, LoopMakes
<1> QED
  BY <1>1, <1>3 DEF Made, SameBytes, InList

-----------------------------------------------------------------------------
(* The block malloc takes off the list: the list loses its bytes.          *)

LEMMA Removing ==
  ASSUME NEW S, NEW list \in Seq(S), NEW i \in DOMAIN list, NEW new, new = RemoveAt(list, i)
  PROVE  /\ new \in Seq(S) /\ Len(new) = Len(list) - 1
         /\ \A j \in 1..i - 1 : new[j] = list[j]
         /\ \A j \in i..Len(list) - 1 : new[j] = list[j + 1]
<1> DEFINE n == Len(list)
           front == SubSeq(list, 1, i - 1)
           back == SubSeq(list, i + 1, n)
<1>1. n \in Nat /\ i \in 1..n
  OBVIOUS
<1>2. /\ front \in Seq(S) /\ Len(front) = i - 1
      /\ \A j \in 1..i - 1 : front[j] = list[j]
  BY <1>1
<1>3. /\ back \in Seq(S) /\ Len(back) = n - i
      /\ \A j \in 1..n - i : back[j] = list[i + j]
  BY <1>1
<1>4. new = front \o back
  BY DEF RemoveAt
<1> HIDE DEF front, back, n
<1>5. /\ new \in Seq(S) /\ Len(new) = i - 1 + (n - i)
      /\ \A j \in 1..i - 1 + (n - i) :
            new[j] = IF j <= i - 1 THEN front[j] ELSE back[j - (i - 1)]
  <2>1. /\ front \o back \in Seq(S) /\ Len(front \o back) = Len(front) + Len(back)
        /\ \A j \in 1..Len(front) + Len(back) :
              (front \o back)[j] = IF j <= Len(front) THEN front[j] ELSE back[j - Len(front)]
    BY <1>2, <1>3, ConcatProperties, Zenon
  <2> QED
    BY <1>2, <1>3, <1>4, <2>1
<1>6. Len(new) = n - 1
  BY <1>1, <1>5
<1>7. ASSUME NEW j \in 1..i - 1 PROVE new[j] = list[j]
  BY <1>1, <1>2, <1>5
<1>8. ASSUME NEW j \in i..n - 1 PROVE new[j] = list[j + 1]
  <2>1. j \in Int /\ j - (i - 1) \in 1..n - i /\ i + (j - (i - 1)) = j + 1
    BY <1>1
  <2>2. j \in 1..i - 1 + (n - i) /\ ~(j <= i - 1)
    BY <1>1
  <2> QED
    BY <1>3, <1>5, <2>1, <2>2
<1> QED
  BY <1>5, <1>6, <1>7, <1>8 DEF n

(* What becomes of the free list.                                          *)
Taken(list, block, new) ==
  /\ new \in Seq(HeapBlocks) /\ ListApart(new)
  /\ Gains(new, block, list) /\ Misses(new, block)

LEMMA Taking ==
  ASSUME freeList \in Seq(HeapBlocks), ListApart(freeList),
         NEW i \in DOMAIN freeList, NEW bytes \in Nat, bytes > BLOCK_SIZE, Fits(i, bytes),
         NEW taken, taken = Take(i, bytes),
         NEW block, block = Block(freeList[i].addr, taken.size)
  PROVE  /\ taken.size \in Nat /\ taken.size >= bytes /\ block \in HeapBlocks
         /\ Taken(freeList, block, taken.list)
<1> DEFINE n == Len(freeList)
           old == freeList[i]
           new == taken.list
<1>1. /\ n \in Nat /\ DOMAIN freeList = 1..n /\ i \in 1..n /\ old \in HeapBlocks
      /\ \A j \in 1..n : freeList[j] \in HeapBlocks
  OBVIOUS
<1>2. CASE Splits(old, bytes)
  <2> DEFINE rest == Rest(old, bytes)
  <2>1. taken.size = bytes /\ new = [freeList EXCEPT ![i] = rest]
    BY <1>2 DEF Take
  <2>2. /\ old.addr \in Nat /\ old.size \in Nat /\ old.addr + old.size <= HEAP_END
        /\ old.size > bytes + BLOCK_SIZE
    BY <1>1, <1>2 DEF Splits, HeapBlocks
  <2>3. rest = [addr |-> old.addr + bytes, size |-> old.size - bytes]
    BY DEF Rest, Block
  <2>4. block = [addr |-> old.addr, size |-> bytes]
    BY <2>1 DEF Block
  <2>5. old = freeList[i] /\ BLOCK_SIZE \in Nat
    BY ListAssumption
  <2> HIDE DEF rest, old
  <2>6. rest \in HeapBlocks /\ block \in HeapBlocks
    <3>1. BLOCK_SIZE \in Nat /\ LIST_TOTAL \in Nat
      BY ListAssumption
    <3>2. rest \in [addr : Nat, size : Nat] /\ block \in [addr : Nat, size : Nat]
      BY <2>2, <2>3, <2>4, <3>1
    <3>3. rest.size > BLOCK_SIZE /\ rest.addr + rest.size <= HEAP_END
      BY <2>2, <2>3, <2>4, <3>1 DEF HEAP_END
    <3>4. block.size > BLOCK_SIZE /\ block.addr + block.size <= HEAP_END
      BY <2>2, <2>3, <2>4, <3>1 DEF HEAP_END
    <3> QED
      BY <3>2, <3>3, <3>4 DEF HeapBlocks
  <2>7. \A byte \in Nat : /\ Covers(old, byte) <=> Covers(rest, byte) \/ Covers(block, byte)
                          /\ ~(Covers(rest, byte) /\ Covers(block, byte))
    <3> DEFINE mid == old.addr + bytes
               end == old.addr + old.size
    <3>1. /\ old.addr \in Nat /\ mid \in Nat /\ end \in Nat /\ old.addr <= mid /\ mid < end
          /\ mid + (old.size - bytes) = end
      BY <2>2, <2>5
    <3>2. ASSUME NEW byte \in Nat
          PROVE  /\ Covers(old, byte) <=> old.addr <= byte /\ byte < end
                 /\ Covers(rest, byte) <=> mid <= byte /\ byte < end
                 /\ Covers(block, byte) <=> old.addr <= byte /\ byte < mid
      BY <2>3, <2>4, <3>1 DEF Covers
    <3> HIDE DEF mid, end
    <3> QED
      BY <3>1, <3>2
  <2>8. /\ new \in Seq(HeapBlocks) /\ DOMAIN new = 1..n /\ new[i] = rest
        /\ \A j \in 1..n : j # i => new[j] = freeList[j]
    BY <1>1, <2>1, <2>6
  <2> HIDE DEF new, n
  <2>9. ListApart(new)
    BY <1>1, <2>5, <2>7, <2>8 DEF ListApart
  <2>10. Gains(new, block, freeList)
    BY <1>1, <2>5, <2>7, <2>8 DEF Gains, InList
  <2>11. Misses(new, block)
    BY <1>1, <2>5, <2>7, <2>8 DEF ListApart, Misses, InList
  <2> QED
    BY <2>1, <2>6, <2>8, <2>9, <2>10, <2>11 DEF Taken, new
<1>3. CASE ~Splits(old, bytes)
  <2>1. taken.size = old.size /\ new = RemoveAt(freeList, i)
    BY <1>3 DEF Take
  <2>2. block = old /\ taken.size \in Nat /\ taken.size >= bytes
    BY <1>1, <2>1 DEF Block, HeapBlocks, Fits
  <2>3. /\ new \in Seq(HeapBlocks) /\ Len(new) = n - 1
        /\ \A j \in 1..i - 1 : new[j] = freeList[j]
        /\ \A j \in i..n - 1 : new[j] = freeList[j + 1]
    BY <2>1, Removing
  <2> DEFINE from(j) == IF j < i THEN j ELSE j + 1
  <2>4. /\ DOMAIN new = 1..n - 1
        /\ \A j \in 1..n - 1 : from(j) \in 1..n /\ from(j) # i /\ new[j] = freeList[from(j)]
    <3>1. DOMAIN new = 1..n - 1
      <4> HIDE DEF new, n
      <4> QED
        BY <2>3
    <3>2. ASSUME NEW j \in 1..n - 1
          PROVE  from(j) \in 1..n /\ from(j) # i /\ new[j] = freeList[from(j)]
      <4>1. CASE j < i
        <5>1. j \in 1..i - 1 /\ from(j) = j /\ j \in 1..n /\ j # i
          BY <1>1, <4>1
        <5> QED
          BY <2>3, <5>1
      <4>2. CASE ~(j < i)
        <5>1. j \in i..n - 1 /\ from(j) = j + 1 /\ j + 1 \in 1..n /\ j + 1 # i
          BY <1>1, <4>2
        <5> QED
          BY <2>3, <5>1
      <4> QED
        BY <4>1, <4>2
    <3> QED
      BY <3>1, <3>2
  <2>5. \A j, k \in 1..n - 1 : from(j) = from(k) => j = k
    BY <1>1
  <2>6. \A k \in 1..n : k # i => \E j \in 1..n - 1 : from(j) = k
    <3> TAKE k \in 1..n
    <3> HAVE k # i
    <3>1. CASE k < i
      BY <1>1, <3>1
    <3>2. CASE ~(k < i)
      <4>1. k - 1 \in 1..n - 1 /\ from(k - 1) = k
        BY <1>1, <3>2
      <4> QED
        BY <4>1
    <3> QED
      BY <3>1, <3>2
  <2> HIDE DEF from, new, n
  <2>7. ListApart(new)
    BY <1>1, <2>4, <2>5 DEF ListApart
  <2>8. Gains(new, block, freeList)
    BY <1>1, <2>2, <2>4, <2>6 DEF Gains, InList
  <2>9. Misses(new, block)
    BY <1>1, <2>2, <2>4 DEF ListApart, Misses, InList
  <2> QED
    BY <1>1, <2>2, <2>3, <2>7, <2>8, <2>9 DEF Taken, new
<1> QED
  BY <1>2, <1>3

-----------------------------------------------------------------------------
(* The blocks of the list and those handed out, together.                  *)

Used(blocks, a) == Block(a, blocks[a])
InUse(blocks, byte) == \E a \in DOMAIN blocks : Covers(Used(blocks, a), byte)

UsedBlocks(blocks) ==
  /\ \A a \in DOMAIN blocks : Used(blocks, a) \in HeapBlocks
  /\ \A byte \in Nat : \A a, b \in DOMAIN blocks :
        Covers(Used(blocks, a), byte) /\ Covers(Used(blocks, b), byte) => a = b

(* Every byte of the heap is in one of them, and no byte is in two.        *)
Tiled(list, blocks) ==
  /\ list \in Seq(HeapBlocks) /\ ListApart(list) /\ UsedBlocks(blocks)
  /\ \A byte \in Nat : ~(InList(list, byte) /\ InUse(blocks, byte))
  /\ \A byte \in 0..HEAP_END - 1 : InList(list, byte) \/ InUse(blocks, byte)

LEMMA BlockCoversItself ==
  ASSUME NEW block \in HeapBlocks
  PROVE  /\ block.addr \in Nat /\ block.size \in Nat /\ Covers(block, block.addr)
         /\ block = Block(block.addr, block.size)
<1>1. BLOCK_SIZE \in Nat
  BY ListAssumption
<1> QED
  BY <1>1 DEF HeapBlocks, Covers, Block

LEMMA UsedAddresses ==
  ASSUME NEW blocks, UsedBlocks(blocks), NEW a \in DOMAIN blocks
  PROVE  a \in Nat /\ blocks[a] \in Nat
<1>1. Used(blocks, a) \in HeapBlocks
  BY DEF UsedBlocks
<1>2. Used(blocks, a).addr = a /\ Used(blocks, a).size = blocks[a]
  BY DEF Used, Block
<1> QED
  BY <1>1, <1>2, BlockCoversItself

(* malloc hands out a block the list loses.                                *)
LEMMA HandingOut ==
  ASSUME NEW list, NEW blocks, Tiled(list, blocks), NEW block \in HeapBlocks, NEW new,
         Taken(list, block, new), NEW after,
         after = [a \in DOMAIN blocks \cup {block.addr} |->
                     IF a = block.addr THEN block.size ELSE blocks[a]]
  PROVE  Tiled(new, after) /\ block.addr \notin DOMAIN blocks
<1> DEFINE addr == block.addr
<1>1. addr \in Nat /\ Covers(block, addr) /\ block = Block(addr, block.size)
  BY BlockCoversItself
<1>2. addr \notin DOMAIN blocks
  <2> SUFFICES ASSUME addr \in DOMAIN blocks PROVE FALSE
    OBVIOUS
  <2>1. Used(blocks, addr) \in HeapBlocks
    BY DEF Tiled, UsedBlocks
  <2>2. Used(blocks, addr).addr = addr
    BY DEF Used, Block
  <2>3. Covers(Used(blocks, addr), addr)
    BY <2>1, <2>2, BlockCoversItself
  <2>4. InUse(blocks, addr)
    BY <2>3 DEF InUse
  <2>5. InList(list, addr)
    BY <1>1 DEF Taken, Gains
  <2> QED
    BY <1>1, <2>4, <2>5 DEF Tiled
<1>3. /\ DOMAIN after = DOMAIN blocks \cup {addr} /\ after[addr] = block.size
      /\ \A a \in DOMAIN blocks : after[a] = blocks[a]
  BY <1>2
<1>4. /\ Used(after, addr) = block
      /\ \A a \in DOMAIN blocks : Used(after, a) = Used(blocks, a)
  BY <1>1, <1>3 DEF Used
<1> HIDE DEF addr
<1>5. \A byte \in Nat : ~(InUse(blocks, byte) /\ Covers(block, byte))
  BY DEF Taken, Gains, Tiled
<1>6. UsedBlocks(after)
  <2>1. \A a \in DOMAIN after : Used(after, a) \in HeapBlocks
    BY <1>3, <1>4 DEF Tiled, UsedBlocks
  <2>2. ASSUME NEW byte \in Nat, NEW a \in DOMAIN after, NEW b \in DOMAIN after,
               Covers(Used(after, a), byte), Covers(Used(after, b), byte)
        PROVE  a = b
    <3>1. a # addr => InUse(blocks, byte)
      BY <1>3, <1>4, <2>2 DEF InUse
    <3>2. b # addr => InUse(blocks, byte)
      BY <1>3, <1>4, <2>2 DEF InUse
    <3>3. CASE a # addr /\ b # addr
      BY <1>3, <1>4, <2>2, <3>3 DEF Tiled, UsedBlocks
    <3>4. a = addr => Covers(block, byte)
      BY <1>4, <2>2
    <3>5. b = addr => Covers(block, byte)
      BY <1>4, <2>2
    <3> QED
      BY <1>5, <3>1, <3>2, <3>3, <3>4, <3>5
  <2> QED
    BY <2>1, <2>2 DEF UsedBlocks
<1>7. \A byte \in Nat : InUse(after, byte) <=> InUse(blocks, byte) \/ Covers(block, byte)
  BY <1>3, <1>4 DEF InUse
<1>8. \A byte \in Nat : ~(InList(new, byte) /\ InUse(after, byte))
  BY <1>7 DEF Taken, Gains, Misses, Tiled
<1>9. ASSUME NEW byte \in 0..HEAP_END - 1 PROVE InList(new, byte) \/ InUse(after, byte)
  <2>1. byte \in Nat
    OBVIOUS
  <2> QED
    BY <1>7, <2>1 DEF Taken, Gains, Tiled
<1> QED
  BY <1>2, <1>6, <1>8, <1>9 DEF Tiled, Taken, addr

(* free takes a block back and puts it in front of the list.               *)
LEMMA TakingBack ==
  ASSUME NEW list, NEW blocks, Tiled(list, blocks), NEW addr \in DOMAIN blocks,
         NEW new, new = coalesce_free_blocks(<<Used(blocks, addr)>> \o list),
         NEW after, after = [a \in DOMAIN blocks \ {addr} |-> blocks[a]]
  PROVE  Tiled(new, after) /\ Gains(list, Used(blocks, addr), new)
<1> DEFINE block == Used(blocks, addr)
           longer == <<block>> \o list
<1>1. block \in HeapBlocks /\ list \in Seq(HeapBlocks)
  BY DEF Tiled, UsedBlocks
<1>2. \A byte \in Nat : Covers(block, byte) => InUse(blocks, byte)
  BY DEF InUse
<1> HIDE DEF block
<1>3. /\ longer \in Seq(HeapBlocks) /\ Len(list) \in Nat /\ DOMAIN list = 1..Len(list)
      /\ DOMAIN longer = 1..Len(list) + 1 /\ longer[1] = block
      /\ \A i \in 1..Len(list) : longer[i + 1] = list[i]
  BY <1>1
<1> HIDE DEF longer
<1>4. \A i \in 1..Len(list) + 1 : i = 1 \/ (i - 1 \in 1..Len(list) /\ longer[i] = list[i - 1])
  BY <1>3
<1>5. Gains(list, block, longer)
  <2> SUFFICES ASSUME NEW byte \in Nat
               PROVE  InList(longer, byte) <=> InList(list, byte) \/ Covers(block, byte)
    BY DEF Gains
  <2>1. InList(longer, byte) => InList(list, byte) \/ Covers(block, byte)
    BY <1>3, <1>4 DEF InList
  <2>2. ASSUME NEW i \in 1..Len(list), Covers(list[i], byte) PROVE InList(longer, byte)
    <3>1. i + 1 \in DOMAIN longer
      BY <1>3
    <3> QED
      BY <1>3, <2>2, <3>1 DEF InList
  <2>3. Covers(block, byte) => InList(longer, byte)
    <3>1. 1 \in DOMAIN longer
      BY <1>3
    <3> QED
      BY <1>3, <3>1 DEF InList
  <2> QED
    BY <1>3, <2>1, <2>2, <2>3 DEF InList
<1>6. ListApart(longer)
  <2>1. ASSUME NEW byte \in Nat, NEW i \in 1..Len(list) + 1, NEW j \in 1..Len(list) + 1,
               Covers(longer[i], byte), Covers(longer[j], byte)
        PROVE  i = j
    <3>1. ~(InList(list, byte) /\ Covers(block, byte))
      BY <1>2 DEF Tiled
    <3>2. i # 1 => InList(list, byte)
      BY <1>3, <1>4, <2>1 DEF InList
    <3>3. j # 1 => InList(list, byte)
      BY <1>3, <1>4, <2>1 DEF InList
    <3>4. CASE i # 1 /\ j # 1
      <4>1. i - 1 = j - 1
        BY <1>3, <1>4, <2>1, <3>4 DEF Tiled, ListApart
      <4> QED
        BY <4>1
    <3> QED
      BY <1>3, <2>1, <3>1, <3>2, <3>3, <3>4
  <2> QED
    BY <1>3, <2>1 DEF ListApart
<1>7. /\ new \in Seq(HeapBlocks) /\ ListApart(new) /\ SameBytes(longer, new)
  <2>1. new = coalesce_free_blocks(longer)
    BY DEF longer, block
  <2> QED
    BY <1>3, <1>6, <2>1, Coalescing
<1>8. Gains(list, block, new)
  BY <1>5, <1>7 DEF Gains, SameBytes
<1>9. /\ DOMAIN after = DOMAIN blocks \ {addr}
      /\ \A a \in DOMAIN after : after[a] = blocks[a] /\ Used(after, a) = Used(blocks, a)
  BY DEF Used
<1>10. UsedBlocks(after)
  BY <1>9 DEF Tiled, UsedBlocks
<1>11. \A byte \in Nat : InUse(after, byte) <=> InUse(blocks, byte) /\ ~Covers(block, byte)
  BY <1>9 DEF InUse, Tiled, UsedBlocks, block
<1>12. \A byte \in Nat : ~(InList(new, byte) /\ InUse(after, byte))
  BY <1>8, <1>11 DEF Gains, Tiled
<1>13. ASSUME NEW byte \in 0..HEAP_END - 1 PROVE InList(new, byte) \/ InUse(after, byte)
  <2>1. byte \in Nat
    OBVIOUS
  <2> QED
    BY <1>8, <1>11, <2>1 DEF Gains, Tiled
<1> QED
  BY <1>7, <1>8, <1>10, <1>12, <1>13 DEF Tiled, block

-----------------------------------------------------------------------------
(* Counting the bytes of the list.                                         *)

FreeSet(list) == {byte \in 0..LIST_TOTAL - 1 : InList(list, byte)}

LEMMA Counting ==
  ASSUME NEW list, NEW new, NEW block \in HeapBlocks, Gains(new, block, list), Misses(new, block)
  PROVE  /\ Cardinality(FreeSet(new)) \in Nat
         /\ Cardinality(FreeSet(list)) = Cardinality(FreeSet(new)) + block.size
<1> DEFINE I == block.addr..block.addr + block.size - 1
<1>1. BLOCK_SIZE \in Nat /\ LIST_TOTAL \in Nat
  BY ListAssumption
<1>2. /\ block.addr \in Nat /\ block.size \in Nat /\ block.size > 0
      /\ block.addr + block.size <= LIST_TOTAL
  BY <1>1 DEF HeapBlocks, HEAP_END
<1>3. IsFiniteSet(I) /\ Cardinality(I) = block.size
  <2> DEFINE lo == block.addr
             hi == block.addr + block.size - 1
  <2>1. lo \in Int /\ hi \in Int /\ lo <= hi /\ hi - lo + 1 = block.size /\ I = lo..hi
    BY <1>2
  <2> HIDE DEF lo, hi, I
  <2>2. IsFiniteSet(lo..hi) /\ Cardinality(lo..hi) = IF lo > hi THEN 0 ELSE hi - lo + 1
    BY <2>1, FS_Interval
  <2> QED
    BY <2>1, <2>2
<1>4. IsFiniteSet(FreeSet(new)) /\ Cardinality(FreeSet(new)) \in Nat
  <2>1. IsFiniteSet(0..LIST_TOTAL - 1)
    BY <1>1, FS_Interval
  <2>2. FreeSet(new) \subseteq 0..LIST_TOTAL - 1
    BY DEF FreeSet
  <2> QED
    BY <2>1, <2>2, FS_Subset, FS_CardinalityType
<1>5. \A byte : byte \in I <=> byte \in 0..LIST_TOTAL - 1 /\ Covers(block, byte)
  BY <1>1, <1>2 DEF Covers
<1>6. \A byte \in 0..LIST_TOTAL - 1 : byte \in Nat
  OBVIOUS
<1> HIDE DEF I
<1>7. FreeSet(list) = FreeSet(new) \cup I
  BY <1>5, <1>6 DEF FreeSet, Gains
<1>8. FreeSet(new) \cap I = {}
  BY <1>5, <1>6 DEF FreeSet, Misses
<1>9. Cardinality(FreeSet(new) \cup I) = Cardinality(FreeSet(new)) + Cardinality(I)
  BY <1>3, <1>4, <1>8, CountedApart
<1> QED
  BY <1>3, <1>4, <1>7, <1>9

-----------------------------------------------------------------------------
(* The inductive invariant.                                                *)

(* A caller's bytes lie behind the header of the block that holds them.    *)
Asked ==
  /\ DOMAIN listLive = {a + BLOCK_SIZE : a \in DOMAIN listBlocks}
  /\ \A a \in DOMAIN listBlocks :
        /\ listLive[a + BLOCK_SIZE] \in Nat \ {0}
        /\ listLive[a + BLOCK_SIZE] + BLOCK_SIZE <= listBlocks[a]

Info ==
  /\ listInfo \in [freeSize : 0..SIZE_T - 1, allocatedSize : 0..SIZE_T - 1]
  /\ frees \in 0..SIZE_T - 1
  /\ FreeSizeLosesHeaders

ListInv == Tiled(freeList, listBlocks) /\ Asked /\ Info

LEMMA ListBegins == ListInit => ListInv
<1> SUFFICES ASSUME ListInit PROVE ListInv
  OBVIOUS
<1> DEFINE block == Block(0, LIST_TOTAL - BLOCK_SIZE)
<1>1. /\ BLOCK_SIZE \in Nat /\ BLOCK_SIZE > 0 /\ LIST_TOTAL \in Nat
      /\ LIST_TOTAL > 2 * BLOCK_SIZE /\ SIZE_T \in Nat /\ SIZE_T > LIST_TOTAL
  BY ListAssumption
<1>2. block = [addr |-> 0, size |-> LIST_TOTAL - BLOCK_SIZE] /\ block \in HeapBlocks
  BY <1>1 DEF Block, HeapBlocks, HEAP_END
<1>3. freeList = <<block>> /\ DOMAIN listBlocks = {} /\ DOMAIN listLive = {}
  BY DEF ListInit
<1> HIDE DEF block
<1>4. freeList \in Seq(HeapBlocks) /\ DOMAIN freeList = 1..1 /\ freeList[1] = block
  BY <1>2, <1>3
<1>5. \A byte \in Int : InList(freeList, byte) <=> byte \in 0..HEAP_END - 1
  BY <1>1, <1>2, <1>4 DEF InList, Covers, HEAP_END
<1>6. Tiled(freeList, listBlocks)
  <2>1. ListApart(freeList)
    BY <1>4 DEF ListApart
  <2>2. UsedBlocks(listBlocks) /\ \A byte : ~InUse(listBlocks, byte)
    BY <1>3 DEF UsedBlocks, InUse
  <2>3. \A byte \in 0..HEAP_END - 1 : InList(freeList, byte)
    BY <1>5
  <2> QED
    BY <1>4, <2>1, <2>2, <2>3 DEF Tiled
<1>7. Asked
  BY <1>3 DEF Asked
<1>8. FreeBytes = LIST_TOTAL - BLOCK_SIZE
  <2>1. {byte \in 0..LIST_TOTAL - 1 : \E i \in DOMAIN freeList : Covers(freeList[i], byte)}
           = 0..HEAP_END - 1
    BY <1>1, <1>5 DEF InList, HEAP_END
  <2>2. Cardinality(0..HEAP_END - 1) = LIST_TOTAL - BLOCK_SIZE
    BY <1>1, FS_Interval DEF HEAP_END
  <2> QED
    BY <2>1, <2>2 DEF FreeBytes
<1>9. Info
  <2>1. /\ listInfo = [freeSize |-> LIST_TOTAL - BLOCK_SIZE, allocatedSize |-> 0]
        /\ frees = 0
    BY DEF ListInit
  <2>2. LIST_TOTAL - BLOCK_SIZE \in 0..SIZE_T - 1 /\ 0 \in 0..SIZE_T - 1
    BY <1>1
  <2>3. (LIST_TOTAL - BLOCK_SIZE) % SIZE_T = LIST_TOTAL - BLOCK_SIZE
    BY <1>1, <2>2
  <2>4. FreeBytes - BLOCK_SIZE * frees = LIST_TOTAL - BLOCK_SIZE
    BY <1>1, <1>8, <2>1
  <2> QED
    BY <2>1, <2>2, <2>3, <2>4 DEF Info, FreeSizeLosesHeaders
<1> QED
  BY <1>6, <1>7, <1>9 DEF ListInv

(* What malloc did when it found room, in terms of the block it took.      *)
Mallocs(n, block) ==
  /\ block \in HeapBlocks /\ n \in Nat \ {0} /\ n + BLOCK_SIZE <= block.size
  /\ Taken(freeList, block, freeList')
  /\ listBlocks' = [a \in DOMAIN listBlocks \cup {block.addr} |->
                       IF a = block.addr THEN block.size ELSE listBlocks[a]]
  /\ listLive' = [p \in DOMAIN listLive \cup {block.addr + BLOCK_SIZE} |->
                     IF p = block.addr + BLOCK_SIZE THEN n ELSE listLive[p]]
  /\ listInfo' = [freeSize |-> (listInfo.freeSize - block.size) % SIZE_T,
                  allocatedSize |-> (listInfo.allocatedSize + n) % SIZE_T]
  /\ frees' = frees

LEMMA MallocTakes ==
  ASSUME Tiled(freeList, listBlocks), NEW n \in ListRequests, ListMalloc(n)
  PROVE  \E block : Mallocs(n, block)
<1>1. n \in Nat \ {0} /\ BLOCK_SIZE \in Nat
  BY ListAssumption DEF ListMalloc
<1> DEFINE bytes == n + BLOCK_SIZE
<1>2. PICK i \in DOMAIN freeList :
        /\ Fits(i, bytes)
        /\ freeList' = Take(i, bytes).list
        /\ listBlocks' = [a \in DOMAIN listBlocks \cup {freeList[i].addr} |->
                            IF a = freeList[i].addr THEN Take(i, bytes).size ELSE listBlocks[a]]
        /\ listLive' = [p \in DOMAIN listLive \cup {freeList[i].addr + BLOCK_SIZE} |->
                          IF p = freeList[i].addr + BLOCK_SIZE THEN n ELSE listLive[p]]
        /\ listInfo' = [freeSize |-> (listInfo.freeSize - Take(i, bytes).size) % SIZE_T,
                        allocatedSize |-> (listInfo.allocatedSize + n) % SIZE_T]
  BY Zenon DEF ListMalloc
<1>3. frees' = frees
  BY DEF ListMalloc
<1> DEFINE taken == Take(i, bytes)
           block == Block(freeList[i].addr, taken.size)
<1>4. bytes \in Nat /\ bytes > BLOCK_SIZE
  BY <1>1
<1>5. block.addr = freeList[i].addr /\ block.size = taken.size
  BY DEF Block
<1> HIDE DEF bytes
<1>6. /\ taken.size \in Nat /\ taken.size >= bytes /\ block \in HeapBlocks
      /\ Taken(freeList, block, taken.list)
  BY <1>2, <1>4, Taking DEF Tiled
<1>7. freeList' = taken.list
  BY <1>2
<1> HIDE DEF taken, block
<1>8. Mallocs(n, block)
  <2>1. n + BLOCK_SIZE <= block.size
    BY <1>5, <1>6 DEF bytes
  <2>2. Taken(freeList, block, freeList')
    BY <1>6, <1>7
  <2>3. listBlocks' = [a \in DOMAIN listBlocks \cup {block.addr} |->
                       IF a = block.addr THEN block.size ELSE listBlocks[a]]
    BY <1>2, <1>5, Zenon DEF taken
  <2>4. listLive' = [p \in DOMAIN listLive \cup {block.addr + BLOCK_SIZE} |->
                     IF p = block.addr + BLOCK_SIZE THEN n ELSE listLive[p]]
    BY <1>2, <1>5, Zenon
  <2>5. listInfo' = [freeSize |-> (listInfo.freeSize - block.size) % SIZE_T,
                  allocatedSize |-> (listInfo.allocatedSize + n) % SIZE_T]
    BY <1>2, <1>5, Zenon DEF taken
  <2> QED
    BY <1>1, <1>3, <1>6, <2>1, <2>2, <2>3, <2>4, <2>5 DEF Mallocs
<1> QED
  BY <1>8

LEMMA MallocKeeps ==
  ASSUME ListInv, NEW n, NEW block, Mallocs(n, block)
  PROVE  ListInv'
<1>1. /\ BLOCK_SIZE \in Nat /\ SIZE_T \in Nat /\ SIZE_T > 0
  BY ListAssumption
<1>2. /\ block \in HeapBlocks /\ block.addr \in Nat /\ block.size \in Nat
  BY BlockCoversItself DEF Mallocs
<1>3. Tiled(freeList, listBlocks)' /\ block.addr \notin DOMAIN listBlocks
  BY HandingOut DEF Mallocs, ListInv
<1>4. \A a \in DOMAIN listBlocks : a \in Nat /\ listBlocks[a] \in Nat
  BY UsedAddresses DEF ListInv, Tiled
<1>5. Asked'
  <2> DEFINE addr == block.addr
  <2>1. /\ DOMAIN listBlocks' = DOMAIN listBlocks \cup {addr}
        /\ listBlocks'[addr] = block.size
        /\ \A a \in DOMAIN listBlocks : listBlocks'[a] = listBlocks[a]
    BY <1>3 DEF Mallocs
  <2>2. DOMAIN listLive = {a + BLOCK_SIZE : a \in DOMAIN listBlocks}
    BY DEF ListInv, Asked
  <2>3. /\ DOMAIN listLive' = DOMAIN listLive \cup {addr + BLOCK_SIZE}
        /\ listLive'[addr + BLOCK_SIZE] = n
        /\ \A p \in DOMAIN listLive : p # addr + BLOCK_SIZE => listLive'[p] = listLive[p]
    BY DEF Mallocs
  <2>4. n \in Nat \ {0} /\ n + BLOCK_SIZE <= block.size
    BY DEF Mallocs
  <2> HIDE DEF addr
  <2>5. DOMAIN listLive' = {a + BLOCK_SIZE : a \in DOMAIN listBlocks'}
    BY <2>1, <2>2, <2>3
  <2>6. ASSUME NEW a \in DOMAIN listBlocks
        PROVE  /\ listLive'[a + BLOCK_SIZE] = listLive[a + BLOCK_SIZE]
               /\ listLive'[a + BLOCK_SIZE] \in Nat \ {0}
               /\ listLive'[a + BLOCK_SIZE] + BLOCK_SIZE <= listBlocks'[a]
    <3>1. a + BLOCK_SIZE \in DOMAIN listLive /\ a # addr
      BY <1>3, <2>2 DEF addr
    <3>2. a + BLOCK_SIZE # addr + BLOCK_SIZE
      BY <1>1, <1>2, <1>4, <3>1 DEF addr
    <3>3. listLive'[a + BLOCK_SIZE] = listLive[a + BLOCK_SIZE]
      BY <2>3, <3>1, <3>2
    <3>4. /\ listLive[a + BLOCK_SIZE] \in Nat \ {0}
          /\ listLive[a + BLOCK_SIZE] + BLOCK_SIZE <= listBlocks[a]
      BY DEF ListInv, Asked
    <3> QED
      BY <2>1, <3>3, <3>4
  <2> QED
    BY <2>1, <2>3, <2>4, <2>5, <2>6 DEF Asked, addr
<1>6. FreeBytes \in Int /\ FreeBytes' = FreeBytes - block.size
  <2>1. FreeBytes = Cardinality(FreeSet(freeList))
    BY Zenon DEF FreeBytes, FreeSet, InList
  <2>2. FreeBytes' = Cardinality(FreeSet(freeList'))
    BY Zenon DEF FreeBytes, FreeSet, InList
  <2>3. Gains(freeList', block, freeList) /\ Misses(freeList', block)
    BY DEF Mallocs, Taken
  <2>4. /\ Cardinality(FreeSet(freeList')) \in Nat
        /\ Cardinality(FreeSet(freeList)) = Cardinality(FreeSet(freeList')) + block.size
    BY <1>2, <2>3, Counting
  <2> QED
    BY <1>2, <2>1, <2>2, <2>4
<1>7. Info'
  <2> DEFINE x == FreeBytes - BLOCK_SIZE * frees
             d == -block.size
  <2>1. frees \in Nat /\ frees' = frees /\ frees \in 0..SIZE_T - 1
    BY DEF ListInv, Info, Mallocs
  <2>2. x \in Int /\ d \in Int /\ x + d = FreeBytes' - BLOCK_SIZE * frees'
    BY <1>1, <1>2, <1>6, <2>1
  <2>3. listInfo.freeSize = x % SIZE_T /\ listInfo.allocatedSize \in Int
    BY DEF ListInv, Info, FreeSizeLosesHeaders
  <2>4. n \in Nat /\ listInfo' = [freeSize |-> (listInfo.freeSize - block.size) % SIZE_T,
                  allocatedSize |-> (listInfo.allocatedSize + n) % SIZE_T]
    BY DEF Mallocs
  <2> HIDE DEF x
  <2>5. x % SIZE_T \in Int
    BY <1>1, <2>2, Wrapping
  <2>6. (x % SIZE_T) - block.size = (x % SIZE_T) + d
    BY <1>2, <2>5
  <2> HIDE DEF d
  <2>7. ((x % SIZE_T) + d) % SIZE_T = (x + d) % SIZE_T
    BY <1>1, <2>2, WrappedSum
  <2>8. listInfo'.freeSize = (x + d) % SIZE_T /\ (x + d) % SIZE_T \in 0..SIZE_T - 1
    BY <1>1, <2>2, <2>3, <2>4, <2>6, <2>7, Wrapping
  <2>9. listInfo' \in [freeSize : 0..SIZE_T - 1, allocatedSize : 0..SIZE_T - 1]
    <3>1. listInfo.allocatedSize + n \in Int
      BY <2>3, <2>4
    <3>2. (listInfo.allocatedSize + n) % SIZE_T \in 0..SIZE_T - 1
      BY <1>1, <3>1, Wrapping
    <3> QED
      BY <2>4, <2>8, <3>2
  <2> QED
    BY <2>1, <2>2, <2>8, <2>9 DEF Info, FreeSizeLosesHeaders
<1> QED
  BY <1>3, <1>5, <1>7 DEF ListInv

(* What free did, in terms of the address of the block it took back.       *)
Frees(addr) ==
  /\ addr \in DOMAIN listBlocks
  /\ freeList' = coalesce_free_blocks(<<Used(listBlocks, addr)>> \o freeList)
  /\ listBlocks' = [a \in DOMAIN listBlocks \ {addr} |-> listBlocks[a]]
  /\ listLive' = [q \in DOMAIN listLive \ {addr + BLOCK_SIZE} |-> listLive[q]]
  /\ listInfo' =
       [freeSize |-> (listInfo.freeSize + (listBlocks[addr] - BLOCK_SIZE)) % SIZE_T,
        allocatedSize |-> (listInfo.allocatedSize - (listBlocks[addr] - BLOCK_SIZE)) % SIZE_T]
  /\ frees' = (frees + 1) % SIZE_T

LEMMA FreeTakesBack ==
  ASSUME ListInv, NEW p \in DOMAIN listLive, ListFree(p)
  PROVE  Frees(p - BLOCK_SIZE) /\ p = p - BLOCK_SIZE + BLOCK_SIZE
<1> DEFINE addr == p - BLOCK_SIZE
<1>1. PICK a \in DOMAIN listBlocks : p = a + BLOCK_SIZE
  BY DEF ListInv, Asked
<1>2. a \in Nat /\ BLOCK_SIZE \in Nat
  BY UsedAddresses, ListAssumption DEF ListInv, Tiled
<1>3. addr = a /\ p = addr + BLOCK_SIZE
  BY <1>1, <1>2
<1>4. /\ freeList' = coalesce_free_blocks(<<Used(listBlocks, addr)>> \o freeList)
      /\ listBlocks' = [b \in DOMAIN listBlocks \ {addr} |-> listBlocks[b]]
      /\ listLive' = [q \in DOMAIN listLive \ {p} |-> listLive[q]]
      /\ listInfo' =
           [freeSize |-> (listInfo.freeSize + (listBlocks[addr] - BLOCK_SIZE)) % SIZE_T,
            allocatedSize |-> (listInfo.allocatedSize - (listBlocks[addr] - BLOCK_SIZE)) % SIZE_T]
      /\ frees' = (frees + 1) % SIZE_T
  BY Zenon DEF ListFree, Used
<1> HIDE DEF addr
<1>5. Frees(addr)
  BY <1>1, <1>3, <1>4, Zenon DEF Frees
<1> QED
  BY <1>3, <1>5 DEF addr

LEMMA FreeKeeps ==
  ASSUME ListInv, NEW addr, Frees(addr)
  PROVE  ListInv'
<1> DEFINE block == Used(listBlocks, addr)
<1>1. BLOCK_SIZE \in Nat /\ SIZE_T \in Nat /\ SIZE_T > 0
  BY ListAssumption
<1>2. addr \in DOMAIN listBlocks
  BY DEF Frees
<1>3. /\ block \in HeapBlocks /\ block.addr = addr /\ block.size = listBlocks[addr]
      /\ addr \in Nat /\ listBlocks[addr] \in Nat
  BY <1>2, UsedAddresses DEF ListInv, Tiled, UsedBlocks, Used, Block
<1>4. Tiled(freeList, listBlocks)' /\ Gains(freeList, block, freeList')
  BY <1>2, TakingBack DEF Frees, ListInv
<1>5. \A a \in DOMAIN listBlocks : a \in Nat /\ listBlocks[a] \in Nat
  BY UsedAddresses DEF ListInv, Tiled
<1>6. Asked'
  <2>1. /\ DOMAIN listBlocks' = DOMAIN listBlocks \ {addr}
        /\ \A a \in DOMAIN listBlocks' : a \in DOMAIN listBlocks /\ listBlocks'[a] = listBlocks[a]
    BY DEF Frees
  <2>2. DOMAIN listLive = {a + BLOCK_SIZE : a \in DOMAIN listBlocks}
    BY DEF ListInv, Asked
  <2>3. /\ DOMAIN listLive' = DOMAIN listLive \ {addr + BLOCK_SIZE}
        /\ \A p \in DOMAIN listLive' : listLive'[p] = listLive[p]
    BY DEF Frees
  <2>4. \A a \in DOMAIN listBlocks : a # addr <=> a + BLOCK_SIZE # addr + BLOCK_SIZE
    BY <1>1, <1>3, <1>5
  <2>5. DOMAIN listLive' = {a + BLOCK_SIZE : a \in DOMAIN listBlocks'}
    BY <2>1, <2>2, <2>3, <2>4
  <2>6. \A a \in DOMAIN listBlocks' : a + BLOCK_SIZE \in DOMAIN listLive'
    BY <2>5
  <2>7. \A a \in DOMAIN listBlocks :
           /\ listLive[a + BLOCK_SIZE] \in Nat \ {0}
           /\ listLive[a + BLOCK_SIZE] + BLOCK_SIZE <= listBlocks[a]
    BY DEF ListInv, Asked
  <2>8. \A a \in DOMAIN listBlocks' :
           /\ listLive'[a + BLOCK_SIZE] \in Nat \ {0}
           /\ listLive'[a + BLOCK_SIZE] + BLOCK_SIZE <= listBlocks'[a]
    BY <2>1, <2>3, <2>6, <2>7
  <2> QED
    BY <2>5, <2>8 DEF Asked
<1>7. FreeBytes \in Int /\ FreeBytes' = FreeBytes + block.size
  <2>1. FreeBytes = Cardinality(FreeSet(freeList))
    BY Zenon DEF FreeBytes, FreeSet, InList
  <2>2. FreeBytes' = Cardinality(FreeSet(freeList'))
    BY Zenon DEF FreeBytes, FreeSet, InList
  <2>3. Misses(freeList, block)
    BY <1>2 DEF ListInv, Tiled, InUse, Misses
  <2> HIDE DEF block
  <2>4. /\ Cardinality(FreeSet(freeList)) \in Nat
        /\ Cardinality(FreeSet(freeList')) = Cardinality(FreeSet(freeList)) + block.size
    BY <1>3, <1>4, <2>3, Counting
  <2> QED
    BY <1>3, <2>1, <2>2, <2>4
<1>8. Info'
  <2> DEFINE x == FreeBytes - BLOCK_SIZE * frees
             d == listBlocks[addr] - BLOCK_SIZE
  <2>1. frees \in Nat /\ frees' = (frees + 1) % SIZE_T
    BY DEF ListInv, Info, Frees
  <2>2. frees + 1 \in Int /\ frees' \in 0..SIZE_T - 1
    BY <1>1, <2>1, Wrapping
  <2>3. PICK k \in Int : frees + 1 = k * SIZE_T + frees'
    BY <1>1, <2>1, <2>2, Wrapping
  <2>4. x \in Int /\ d \in Int
    BY <1>1, <1>3, <1>7, <2>1
  <2>5. /\ FreeBytes' - BLOCK_SIZE * frees' \in Int
        /\ FreeBytes' - BLOCK_SIZE * frees' = x + d + (BLOCK_SIZE * k) * SIZE_T
    <3>1. frees' = frees + 1 - k * SIZE_T
      BY <1>1, <2>1, <2>2, <2>3
    <3>2. BLOCK_SIZE * (frees + 1 - k * SIZE_T)
             = BLOCK_SIZE * frees + BLOCK_SIZE - (BLOCK_SIZE * k) * SIZE_T
      BY <1>1, <2>1
    <3>3. BLOCK_SIZE * frees \in Int /\ (BLOCK_SIZE * k) * SIZE_T \in Int
      BY <1>1, <2>1
    <3> QED
      BY <1>1, <1>3, <1>7, <3>1, <3>2, <3>3
  <2>6. listInfo.freeSize = x % SIZE_T /\ listInfo.allocatedSize \in Int
    BY DEF ListInv, Info, FreeSizeLosesHeaders
  <2>7. listInfo' = [freeSize |-> (listInfo.freeSize + d) % SIZE_T,
                     allocatedSize |-> (listInfo.allocatedSize - d) % SIZE_T]
    BY DEF Frees
  <2> DEFINE y == FreeBytes' - BLOCK_SIZE * frees'
             m == BLOCK_SIZE * k
  <2>8. y \in Int /\ m \in Int /\ y = x + d + m * SIZE_T
    BY <1>1, <2>5
  <2> HIDE DEF x, d, y, m
  <2>9. ((x % SIZE_T) + d) % SIZE_T = (x + d) % SIZE_T
    BY <1>1, <2>4, WrappedSum
  <2>10. x + d \in Int
    BY <2>4
  <2>11. y % SIZE_T = (x + d) % SIZE_T /\ y % SIZE_T \in 0..SIZE_T - 1
    BY <1>1, <2>8, <2>10, WholeTurns, Wrapping
  <2>12. listInfo'.freeSize = y % SIZE_T
    BY <2>6, <2>7, <2>9, <2>11
  <2>13. listInfo' \in [freeSize : 0..SIZE_T - 1, allocatedSize : 0..SIZE_T - 1]
    <3>1. listInfo.allocatedSize - d \in Int
      BY <2>4, <2>6
    <3>2. (listInfo.allocatedSize - d) % SIZE_T \in 0..SIZE_T - 1
      BY <1>1, <3>1, Wrapping
    <3> QED
      BY <2>7, <2>11, <2>12, <3>2
  <2> QED
    BY <2>2, <2>12, <2>13 DEF Info, FreeSizeLosesHeaders, y
<1> QED
  BY <1>4, <1>6, <1>8 DEF ListInv

-----------------------------------------------------------------------------
(* The manager keeps the invariant, whatever the callers ask for and free. *)
THEOREM ListInvariance == ListSpec => []ListInv
<1>1. ListInit => ListInv
  BY ListBegins
<1>2. ListInv /\ [ListNext]_listVars => ListInv'
  <2> SUFFICES ASSUME ListInv, [ListNext]_listVars PROVE ListInv'
    OBVIOUS
  <2>1. ASSUME NEW n \in ListRequests, ListMalloc(n) PROVE ListInv'
    <3>1. \E block : Mallocs(n, block)
      BY <2>1, MallocTakes DEF ListInv
    <3> QED
      BY <3>1, MallocKeeps
  <2>2. ASSUME NEW p \in DOMAIN listLive, ListFree(p) PROVE ListInv'
    <3>1. Frees(p - BLOCK_SIZE)
      BY <2>2, FreeTakesBack
    <3> QED
      BY <3>1, FreeKeeps
  <2>3. CASE UNCHANGED listVars
    BY <2>3 DEF listVars, ListInv, Tiled, Asked, Info, FreeSizeLosesHeaders, FreeBytes
  <2> QED
    BY <2>1, <2>2, <2>3 DEF ListNext
<1> QED
  BY <1>1, <1>2, PTL DEF ListSpec

LEMMA OneOwner ==
  ASSUME Tiled(freeList, listBlocks), NEW byte \in 0..HEAP_END - 1
  PROVE  Cardinality(Owners(byte)) = 1
<1> DEFINE free == {j \in DOMAIN freeList : Covers(freeList[j], byte)}
           used == {a \in DOMAIN listBlocks : Covers(Block(a, listBlocks[a]), byte)}
<1>1. Owners(byte) = {<<"free", i>> : i \in free} \cup {<<"used", a>> : a \in used}
  BY DEF Owners
<1>2. byte \in Nat
  OBVIOUS
<1>3. (free # {} \/ used # {}) /\ (free = {} \/ used = {})
  BY <1>2 DEF Tiled, InList, InUse, Used
<1>4. \A i, j \in free : i = j
  BY <1>2 DEF Tiled, ListApart
<1>5. \A a, b \in used : a = b
  BY <1>2 DEF Tiled, UsedBlocks, Used
<1> HIDE DEF free, used
<1>6. \E x : Owners(byte) = {x}
  <2>1. CASE free # {}
    <3>1. PICK i : i \in free
      BY <2>1
    <3>2. free = {i} /\ used = {}
      BY <1>3, <1>4, <3>1
    <3>3. Owners(byte) = {<<"free", i>>}
      BY <1>1, <3>2
    <3> QED
      BY <3>3
  <2>2. CASE used # {}
    <3>1. PICK a : a \in used
      BY <2>2
    <3>2. used = {a} /\ free = {}
      BY <1>3, <1>5, <3>1
    <3>3. Owners(byte) = {<<"used", a>>}
      BY <1>1, <3>2
    <3> QED
      BY <3>3
  <2> QED
    BY <1>3, <2>1, <2>2
<1> QED
  BY <1>6, FS_Singleton

(* The free blocks and those handed out cover the heap without a gap and   *)
(* without an overlap, and the free bytes reported are those of the list   *)
(* short of one header for every free there has been.                      *)
THEOREM ListIsSound == ListSpec => []ListSound
<1>1. ListInv => ListSound
  <2> SUFFICES ASSUME ListInv PROVE ListSound
    OBVIOUS
  <2>1. BLOCK_SIZE \in Nat /\ LIST_TOTAL \in Nat
    BY ListAssumption
  <2>2. \A i \in DOMAIN freeList : freeList[i] \in HeapBlocks
    BY DEF ListInv, Tiled
  <2>3. ListTypeOK
    <3>1. ASSUME NEW block \in HeapBlocks
          PROVE  block \in [addr : 0..LIST_TOTAL, size : 1..LIST_TOTAL]
      BY <2>1 DEF HeapBlocks, HEAP_END
    <3> QED
      BY <2>2, <3>1 DEF ListTypeOK, ListInv, Asked, Info
  <2>4. ListTiles
    <3>1. \A byte \in 0..LIST_TOTAL - BLOCK_SIZE - 1 : Cardinality(Owners(byte)) = 1
      BY OneOwner DEF ListInv, HEAP_END
    <3>2. \A i \in DOMAIN freeList : freeList[i].size > BLOCK_SIZE
      BY <2>2 DEF HeapBlocks
    <3> QED
      BY <3>1, <3>2 DEF ListTiles
  <2> QED
    BY <2>3, <2>4 DEF ListSound, ListInv, Info
<1> QED
  BY <1>1, ListInvariance, PTL

-----------------------------------------------------------------------------
(* The refinement.                                                         *)

(* Bytes behind the headers of blocks that share none do not overlap.      *)
LEMMA BehindHeaders ==
  ASSUME NEW h \in Nat, NEW a \in Nat, NEW s \in Nat, NEW n \in Nat \ {0}, n + h <= s,
         NEW b \in Nat, NEW t \in Nat, NEW m \in Nat \ {0}, m + h <= t,
         \A byte \in Nat : ~(Covers(Block(a, s), byte) /\ Covers(Block(b, t), byte))
  PROVE  ~ListHeap!Overlap(a + h, n, b + h, m)
<1>1. \A byte \in Nat : ~((a <= byte /\ byte < a + s) /\ (b <= byte /\ byte < b + t))
  BY DEF Covers, Block
<1>2. ~((a <= a + h /\ a + h < a + s) /\ (b <= a + h /\ a + h < b + t))
  BY <1>1
<1>3. ~((a <= b + h /\ b + h < a + s) /\ (b <= b + h /\ b + h < b + t))
  BY <1>1
<1>4. ~(a + h < b + h + m /\ b + h < a + h + n)
  BY <1>2, <1>3
<1> QED
  BY <1>4 DEF ListHeap!Overlap

(* No two callers have the same byte, and a byte is another's only after   *)
(* it was freed: every step of the manager is a step of Heap, or none.     *)
THEOREM ListRefinesHeap == ListSpec => ListImplementsHeap
<1>1. ListInit => listLive = <<>>
  BY DEF ListInit
<1>2. ListInv /\ [ListNext]_listVars => [ListHeap!HeapNext]_listLive
  <2> SUFFICES ASSUME ListInv, [ListNext]_listVars PROVE [ListHeap!HeapNext]_listLive
    OBVIOUS
  <2>1. BLOCK_SIZE \in Nat /\ LIST_TOTAL \in Nat
    BY ListAssumption
  <2>2. \A a \in DOMAIN listBlocks : a \in Nat /\ listBlocks[a] \in Nat
    BY UsedAddresses DEF ListInv, Tiled
  <2>3. DOMAIN listLive = {a + BLOCK_SIZE : a \in DOMAIN listBlocks}
    BY DEF ListInv, Asked
  <2>4. ASSUME NEW n \in ListRequests, ListMalloc(n) PROVE ListHeap!HeapNext
    <3>1. PICK block : Mallocs(n, block)
      BY <2>4, MallocTakes DEF ListInv
    <3> DEFINE p == block.addr + BLOCK_SIZE
    <3>2. /\ block.addr \in Nat /\ block.size \in Nat /\ block = Block(block.addr, block.size)
          /\ block.addr + block.size <= LIST_TOTAL /\ n \in Nat \ {0}
          /\ n + BLOCK_SIZE <= block.size
      BY <2>1, <3>1, BlockCoversItself DEF Mallocs, HeapBlocks, HEAP_END
    <3>3. block.addr \notin DOMAIN listBlocks
      BY <3>1, HandingOut DEF Mallocs, ListInv
    <3>4. p \notin DOMAIN listLive
      BY <2>1, <2>2, <2>3, <3>2, <3>3
    <3>5. listLive' = [b \in DOMAIN listLive \cup {p} |-> IF b = p THEN n ELSE listLive[b]]
      BY <3>1 DEF Mallocs
    <3>6. p \in 0..LIST_TOTAL /\ p + n <= LIST_TOTAL
      BY <2>1, <3>2
    <3>7. ASSUME NEW a \in DOMAIN listBlocks
          PROVE  ~ListHeap!Overlap(p, n, a + BLOCK_SIZE, listLive[a + BLOCK_SIZE])
      <4>1. /\ listLive[a + BLOCK_SIZE] \in Nat \ {0}
            /\ listLive[a + BLOCK_SIZE] + BLOCK_SIZE <= listBlocks[a]
        BY DEF ListInv, Asked
      <4>2. ASSUME NEW byte \in Nat
            PROVE  ~(Covers(block, byte) /\ Covers(Block(a, listBlocks[a]), byte))
        <5>1. Covers(Block(a, listBlocks[a]), byte) => InUse(listBlocks, byte)
          BY DEF InUse, Used
        <5>2. Covers(block, byte) => InList(freeList, byte)
          BY <3>1 DEF Mallocs, Taken, Gains
        <5> QED
          BY <5>1, <5>2 DEF ListInv, Tiled
      <4> QED
        BY <2>1, <2>2, <3>2, <4>1, <4>2, BehindHeaders
    <3>8. \A b \in DOMAIN listLive : ~ListHeap!Overlap(p, n, b, listLive[b])
      BY <2>3, <3>7
    <3>9. p \in DOMAIN listLive' \ DOMAIN listLive
      BY <3>4, <3>5
    <3> HIDE DEF p
    <3>10. ListHeap!Allocated(p, n)
      BY <3>5, <3>6, <3>8, Zenon DEF ListHeap!Allocated
    <3> QED
      BY <3>9, <3>10, Zenon DEF ListHeap!HeapNext
  <2>5. ASSUME NEW p \in DOMAIN listLive, ListFree(p) PROVE ListHeap!HeapNext
    <3>1. listLive' = [q \in DOMAIN listLive \ {p} |-> listLive[q]]
      BY <2>5, Zenon DEF ListFree
    <3>2. p \in DOMAIN listLive \ DOMAIN listLive'
      BY <3>1
    <3>3. ListHeap!Freed(p)
      BY <3>1, Zenon DEF ListHeap!Freed
    <3> QED
      BY <3>2, <3>3, Zenon DEF ListHeap!HeapNext
  <2>6. CASE UNCHANGED listVars
    BY <2>6 DEF listVars
  <2> QED
    BY <2>4, <2>5, <2>6 DEF ListNext
<1> QED
  BY <1>1, <1>2, ListInvariance, PTL DEF ListSpec, ListImplementsHeap, ListHeap!HeapSpec

-----------------------------------------------------------------------------
(* The buddy manager: the sizes of the orders.                             *)
SizesUpTo(f, n) == f = [o \in 0..n |-> IF o = 0 THEN MIN_BLOCK_SIZE ELSE 2 * f[o - 1]]

LEMMA SizesExist ==
  ASSUME NEW n \in Nat
  PROVE  \E f : SizesUpTo(f, n)
<1> DEFINE bad == {i \in Nat : ~\E f : SizesUpTo(f, i)}
<1> SUFFICES ASSUME bad # {} PROVE FALSE
  OBVIOUS
<1>1. PICK m \in bad : \A i \in bad : m <= i
  BY LeastNatural
<1>2. CASE m = 0
  <2> DEFINE f == [o \in 0..0 |-> MIN_BLOCK_SIZE]
  <2>1. f = [o \in 0..0 |-> IF o = 0 THEN MIN_BLOCK_SIZE ELSE 2 * f[o - 1]]
    OBVIOUS
  <2> HIDE DEF f
  <2> QED
    BY <1>1, <1>2, <2>1 DEF SizesUpTo
<1>3. CASE m # 0
  <2>1. m - 1 \in Nat /\ m - 1 \notin bad
    BY <1>1, <1>3
  <2>2. PICK g : SizesUpTo(g, m - 1)
    BY <2>1
  <2> DEFINE f == [o \in 0..m |-> IF o = m THEN 2 * g[m - 1] ELSE g[o]]
  <2>3. ASSUME NEW o \in 0..m
        PROVE  f[o] = IF o = 0 THEN MIN_BLOCK_SIZE ELSE 2 * f[o - 1]
    <3>1. CASE o = m
      BY <1>1, <1>3, <2>1, <3>1
    <3>2. CASE o # m
      <4>1. o \in 0..m - 1 /\ (o # 0 => o - 1 \in 0..m - 1 /\ o - 1 # m)
        BY <1>1, <3>2
      <4>2. g[o] = IF o = 0 THEN MIN_BLOCK_SIZE ELSE 2 * g[o - 1]
        BY <2>2, <4>1 DEF SizesUpTo
      <4> QED
        BY <1>1, <3>2, <4>1, <4>2
    <3> QED
      BY <3>1, <3>2
  <2>4. f = [o \in 0..m |-> f[o]]
    OBVIOUS
  <2> HIDE DEF f
  <2>5. SizesUpTo(f, m)
    BY <2>3, <2>4, Zenon DEF SizesUpTo
  <2> QED
    BY <1>1, <2>5
<1> QED
  BY <1>2, <1>3

(* They do not depend on how far they are computed.                        *)
LEMMA SizesAgree ==
  ASSUME NEW n \in Nat, NEW m \in Nat, NEW f, NEW g, SizesUpTo(f, n), SizesUpTo(g, m),
         NEW o \in Nat, o <= n, o <= m
  PROVE  f[o] = g[o]
<1> DEFINE bad == {i \in Nat : i <= n /\ i <= m /\ f[i] # g[i]}
<1>1. ASSUME bad # {} PROVE FALSE
  <2>1. PICK i \in bad : \A j \in bad : i <= j
    BY <1>1, LeastNatural
  <2>2. i \in 0..n /\ i \in 0..m
    BY <2>1
  <2>3. /\ f[i] = IF i = 0 THEN MIN_BLOCK_SIZE ELSE 2 * f[i - 1]
        /\ g[i] = IF i = 0 THEN MIN_BLOCK_SIZE ELSE 2 * g[i - 1]
    BY <2>2 DEF SizesUpTo
  <2>4. CASE i = 0
    BY <2>1, <2>3, <2>4
  <2>5. CASE i # 0
    <3>1. i - 1 \in Nat /\ i - 1 <= n /\ i - 1 <= m /\ i - 1 \notin bad
      BY <2>1, <2>2, <2>5
    <3>2. f[i - 1] = g[i - 1]
      BY <3>1
    <3> QED
      BY <2>1, <2>3, <2>5, <3>2
  <2> QED
    BY <2>4, <2>5
<1> QED
  BY <1>1

LEMMA SizeByOrder ==
  \A o \in Nat : Size[o] = IF o = 0 THEN MIN_BLOCK_SIZE ELSE 2 * Size[o - 1]
<1> DEFINE upTo(n) == CHOOSE f : SizesUpTo(f, n)
           sizes == [o \in Nat |-> upTo(o)[o]]
           sized == CHOOSE f : f = [o \in Nat |-> IF o = 0 THEN MIN_BLOCK_SIZE ELSE 2 * f[o - 1]]
<1>1. \A n \in Nat : SizesUpTo(upTo(n), n)
  BY SizesExist, Zenon
<1> HIDE DEF upTo
<1>2. ASSUME NEW o \in Nat
      PROVE  sizes[o] = IF o = 0 THEN MIN_BLOCK_SIZE ELSE 2 * sizes[o - 1]
  <2>1. SizesUpTo(upTo(o), o) /\ o \in 0..o
    BY <1>1
  <2>2. upTo(o)[o] = IF o = 0 THEN MIN_BLOCK_SIZE ELSE 2 * upTo(o)[o - 1]
    BY <2>1 DEF SizesUpTo
  <2>3. CASE o = 0
    BY <2>2, <2>3
  <2>4. CASE o # 0
    <3>1. o - 1 \in Nat /\ o - 1 <= o /\ o - 1 <= o - 1
      BY <2>4
    <3>2. upTo(o)[o - 1] = upTo(o - 1)[o - 1]
      BY <1>1, <2>1, <3>1, SizesAgree
    <3> QED
      BY <2>2, <2>4, <3>1, <3>2
  <2> QED
    BY <2>3, <2>4
<1>3. sizes = [o \in Nat |-> sizes[o]]
  OBVIOUS
<1> HIDE DEF sizes
<1>4. sizes = [o \in Nat |-> IF o = 0 THEN MIN_BLOCK_SIZE ELSE 2 * sizes[o - 1]]
  BY <1>2, <1>3, Zenon
<1>5. sized = [o \in Nat |-> IF o = 0 THEN MIN_BLOCK_SIZE ELSE 2 * sized[o - 1]]
  BY <1>4, Zenon
<1>6. Size = sized
  BY Zenon DEF Size
<1> HIDE DEF sized
<1> QED
  BY <1>5, <1>6

LEMMA Sizes ==
  /\ Size[0] = MIN_BLOCK_SIZE /\ HEADER \in Nat /\ MIN_BLOCK_SIZE \in Nat
  /\ \A o \in Nat : Size[o] \in Nat /\ Size[o] > HEADER /\ Size[o] > 0 /\ Size[o + 1] = 2 * Size[o]
<1>1. Size[0] = MIN_BLOCK_SIZE /\ HEADER \in Nat /\ MIN_BLOCK_SIZE \in Nat /\ MIN_BLOCK_SIZE > HEADER
  BY SizeByOrder, BuddyAssumption
<1>2. \A o \in Nat : Size[o + 1] = 2 * Size[o]
  BY SizeByOrder
<1> DEFINE bad == {o \in Nat : ~(Size[o] \in Nat /\ Size[o] > HEADER)}
<1>3. ASSUME bad # {} PROVE FALSE
  <2>1. PICK o \in bad : \A j \in bad : o <= j
    BY <1>3, LeastNatural
  <2>2. o # 0
    BY <1>1, <2>1
  <2>3. o - 1 \in Nat /\ o - 1 \notin bad
    BY <2>1, <2>2
  <2>4. Size[o - 1] \in Nat /\ Size[o - 1] > HEADER
    BY <2>3
  <2>5. Size[o] = 2 * Size[o - 1]
    BY <2>1, <2>2, SizeByOrder
  <2> QED
    BY <1>1, <2>1, <2>4, <2>5
<1>4. \A o \in Nat : Size[o] \in Nat /\ Size[o] > HEADER
  BY <1>3
<1>5. \A o \in Nat : Size[o] > 0
  BY <1>1, <1>4
<1> QED
  BY <1>1, <1>2, <1>4, <1>5

(* An order up is twice the size at least.                                 *)
LEMMA SizesGrow ==
  ASSUME NEW i \in Nat, NEW j \in Nat, i < j
  PROVE  2 * Size[i] <= Size[j]
<1> DEFINE bad == {k \in Nat : i < k /\ ~(2 * Size[i] <= Size[k])}
<1>1. ASSUME bad # {} PROVE FALSE
  <2>1. PICK k \in bad : \A l \in bad : k <= l
    BY <1>1, LeastNatural
  <2>2. k - 1 \in Nat /\ k - 1 \notin bad /\ k = (k - 1) + 1
    BY <2>1
  <2>3. Size[k] = 2 * Size[k - 1] /\ Size[k - 1] \in Nat /\ Size[i] \in Nat
    BY <2>2, Sizes
  <2>4. CASE k - 1 = i
    BY <2>1, <2>3, <2>4
  <2>5. CASE k - 1 # i
    <3>1. i < k - 1
      BY <2>1, <2>2, <2>5
    <3>2. 2 * Size[i] <= Size[k - 1]
      BY <2>2, <3>1
    <3> QED
      BY <2>1, <2>3, <3>2
  <2> QED
    BY <2>4, <2>5
<1> QED
  BY <1>1

LEMMA SizesDiffer ==
  ASSUME NEW i \in Nat, NEW j \in Nat, Size[i] = Size[j]
  PROVE  i = j
<1>1. Size[i] \in Nat /\ Size[i] > 0 /\ Size[j] \in Nat
  BY Sizes
<1>2. CASE i < j
  <2>1. 2 * Size[i] <= Size[j]
    BY <1>2, SizesGrow
  <2> QED
    BY <1>1, <2>1
<1>3. CASE j < i
  <2>1. 2 * Size[j] <= Size[i]
    BY <1>3, SizesGrow
  <2> QED
    BY <1>1, <2>1
<1> QED
  BY <1>2, <1>3

(* The largest block.                                                      *)
LEMMA Largest ==
  /\ TopOrder \in Nat /\ Orders \subseteq Nat
  /\ Size[TopOrder] \in Nat /\ Size[TopOrder] <= BUDDY_TOTAL /\ BUDDY_TOTAL \in Nat
<1> DEFINE fits == {o \in 0..MAX_ORDER : Size[o] <= BUDDY_TOTAL}
<1>1. 0 \in fits /\ fits \subseteq 0..MAX_ORDER /\ MAX_ORDER \in Nat /\ BUDDY_TOTAL \in Nat
  BY Sizes, BuddyAssumption
<1>2. TopOrder = Max(fits)
  BY DEF TopOrder
<1>3. Max(fits) \in fits
  <2>1. fits # {}
    BY <1>1
  <2> HIDE DEF fits
  <2> QED
    BY <1>1, <2>1, MaxOfNaturals
<1>4. TopOrder \in Nat /\ Size[TopOrder] <= BUDDY_TOTAL
  BY <1>1, <1>2, <1>3
<1> QED
  BY <1>1, <1>4, Sizes DEF Orders

-----------------------------------------------------------------------------
(* Addresses aligned to the blocks of an order.                            *)
Aligned(a, o) == \E k \in Nat : a = k * Size[o]

LEMMA AlignedAddress ==
  ASSUME NEW o \in Nat, NEW a, Aligned(a, o)
  PROVE  a \in Nat /\ a + Size[o] \in Nat /\ Aligned(a + Size[o], o)
<1>1. PICK k \in Nat : a = k * Size[o]
  BY DEF Aligned
<1>2. Size[o] \in Nat
  BY Sizes
<1> DEFINE s == Size[o]
<1>3. a \in Nat /\ a + s = (k + 1) * s
  <2>1. s \in Nat /\ a = k * s
    BY <1>1, <1>2
  <2> HIDE DEF s
  <2> QED
    BY <2>1
<1> QED
  BY <1>2, <1>3 DEF Aligned

LEMMA AlignedBelow ==
  ASSUME NEW o \in Nat, NEW a, Aligned(a, o + 1)
  PROVE  Aligned(a, o)
<1>1. PICK k \in Nat : a = k * Size[o + 1]
  BY DEF Aligned
<1> DEFINE s == Size[o]
<1>2. s \in Nat /\ a = k * (2 * s)
  BY <1>1, Sizes
<1>3. a = (2 * k) * s
  <2> HIDE DEF s
  <2> QED
    BY <1>2
<1>4. 2 * k \in Nat
  OBVIOUS
<1> QED
  BY <1>3, <1>4 DEF Aligned

LEMMA AlignedSmaller ==
  ASSUME NEW i \in Nat, NEW j \in Nat, i <= j, NEW a, Aligned(a, j)
  PROVE  Aligned(a, i)
<1> DEFINE bad == {k \in Nat : i <= k /\ Aligned(a, k) /\ ~Aligned(a, i)}
<1>1. ASSUME bad # {} PROVE FALSE
  <2>1. PICK k \in bad : \A l \in bad : k <= l
    BY <1>1, LeastNatural
  <2>2. k # i
    BY <2>1
  <2>3. k - 1 \in Nat /\ i <= k - 1 /\ k = (k - 1) + 1 /\ k - 1 \notin bad
    BY <2>1, <2>2
  <2>4. Aligned(a, k - 1)
    BY <2>1, <2>3, AlignedBelow
  <2> QED
    BY <2>1, <2>3, <2>4
<1> QED
  BY <1>1

(* Of two of an order the one ends where the other begins, or before.      *)
LEMMA AlignedApart ==
  ASSUME NEW o \in Nat, NEW a, NEW b, Aligned(a, o), Aligned(b, o), a < b
  PROVE  a + Size[o] <= b
<1>1. PICK k \in Nat : a = k * Size[o]
  BY DEF Aligned
<1>2. PICK l \in Nat : b = l * Size[o]
  BY DEF Aligned
<1> DEFINE s == Size[o]
<1>3. s \in Nat /\ a = k * s /\ b = l * s
  BY <1>1, <1>2, Sizes
<1> HIDE DEF s
<1>4. k < l
  <2>1. CASE l <= k
    <3>1. l * s <= k * s
      BY <1>3, <2>1
    <3> QED
      BY <1>3, <3>1
  <2> QED
    BY <2>1
<1>5. (k + 1) * s <= l * s
  <2>1. k + 1 <= l /\ k + 1 \in Nat
    BY <1>4
  <2> QED
    BY <1>3, <2>1
<1>6. a + s <= b
  <2>1. (k + 1) * s = k * s + s
    BY <1>3
  <2> QED
    BY <1>3, <1>5, <2>1
<1> QED
  BY <1>6 DEF s

(* Blocks that share a byte lie one in the other.                          *)
Within(x, a, o) == a <= x /\ x < a + Size[o]

LEMMA Nested ==
  ASSUME NEW i \in Nat, NEW j \in Nat, i <= j, NEW a, NEW b, Aligned(a, i), Aligned(b, j),
         NEW x \in Nat, Within(x, a, i), Within(x, b, j)
  PROVE  b <= a /\ a + Size[i] <= b + Size[j]
<1>1. Aligned(b, i) /\ Aligned(b + Size[j], i)
  BY AlignedSmaller, AlignedAddress
<1>2. /\ a \in Nat /\ b \in Nat /\ Size[i] \in Nat /\ Size[j] \in Nat
      /\ a <= x /\ x < a + Size[i] /\ b <= x /\ x < b + Size[j]
  BY AlignedAddress, Sizes DEF Within
<1>3. ~(a < b)
  <2>1. ASSUME a < b PROVE a + Size[i] <= b
    BY <1>1, <2>1, AlignedApart
  <2> QED
    BY <1>2, <2>1
<1>4. a + Size[i] <= b + Size[j]
  <2>1. a < b + Size[j]
    BY <1>2
  <2> QED
    BY <1>1, <2>1, AlignedApart
<1> QED
  BY <1>2, <1>3, <1>4

LEMMA SameBlock ==
  ASSUME NEW i \in Nat, NEW a, NEW b, Aligned(a, i), Aligned(b, i),
         NEW x \in Nat, Within(x, a, i), Within(x, b, i)
  PROVE  a = b
<1>1. i <= i /\ a \in Nat /\ b \in Nat
  BY AlignedAddress
<1>2. b <= a
  BY <1>1, Nested
<1>3. a <= b
  BY <1>1, Nested
<1> QED
  BY <1>1, <1>2, <1>3

(* Buddies: the two halves of a block of the order above.                  *)
Halves(w, a, b, o) == (a = w /\ b = w + Size[o]) \/ (b = w /\ a = w + Size[o])

LEMMA BuddyOf ==
  ASSUME NEW o \in Nat, NEW a, Aligned(a, o), NEW b, b = get_buddy(a, Size[o])
  PROVE  /\ Aligned(b, o)
         /\ \E w : Aligned(w, o + 1) /\ Halves(w, a, b, o)
         /\ Aligned(a, o + 1) => b = a + Size[o]
<1>1. PICK k \in Nat : a = k * Size[o]
  BY DEF Aligned
<1> DEFINE s == Size[o]
           t == s * 2
           r == a % t
<1>2. s \in Nat /\ s > 0 /\ Size[o + 1] = 2 * s /\ a = k * s /\ a \in Nat
  BY <1>1, Sizes, AlignedAddress
<1>3. t \in Nat /\ t > 0 /\ Size[o + 1] = t
  BY <1>2
<1>4. b = IF r = 0 THEN a + s ELSE a - s
  BY DEF get_buddy
<1>0. a \in Int
  BY <1>2
<1>5. r \in 0..t - 1 /\ \E q \in Int : a = q * t + r
  <2>1. t \in Nat /\ t > 0
    BY <1>3
  <2> HIDE DEF t
  <2> QED
    BY <1>0, <2>1, Wrapping
<1>6. Aligned(a, o + 1) => r = 0
  <2> SUFFICES ASSUME Aligned(a, o + 1) PROVE r = 0
    OBVIOUS
  <2>1. PICK l \in Nat : a = l * t
    BY <1>3 DEF Aligned
  <2>2. 0 % t = 0
    <3> HIDE DEF t
    <3> QED
      BY <1>3
  <2>3. a = 0 + l * t /\ l \in Int /\ 0 \in Int
    <3> HIDE DEF t
    <3> QED
      BY <1>3, <2>1
  <2>4. a % t = 0 % t
    <3>1. t \in Nat /\ t > 0
      BY <1>3
    <3> HIDE DEF t
    <3> QED
      BY <1>0, <2>3, <3>1, WholeTurns
  <2> QED
    BY <2>2, <2>4
<1>7. PICK q \in Int : a = q * t + r
  BY <1>5
<1> HIDE DEF r
<1>8. CASE r = 0
  <2>1. a = q * t /\ q \in Nat
    <3> HIDE DEF t
    <3>1. a = q * t
      BY <1>3, <1>7, <1>8
    <3>2. CASE q <= -1
      <4>1. q * t <= -t
        BY <1>3, <3>2
      <4> QED
        BY <1>2, <1>3, <3>1, <4>1
    <3> QED
      BY <3>1, <3>2
  <2>2. Aligned(a, o + 1)
    BY <1>3, <2>1 DEF Aligned
  <2>3. b = a + s
    BY <1>4, <1>8
  <2>4. Aligned(b, o)
    BY <2>3, AlignedAddress
  <2> QED
    BY <2>2, <2>3, <2>4 DEF Halves
<1>9. CASE r # 0
  <2> DEFINE d == k - 2 * q
  <2>1. d \in Int /\ d * s = r /\ d * s > 0 /\ d * s < 2 * s
    <3>1. d * s = k * s - q * (s * 2)
      BY <1>2
    <3> QED
      BY <1>2, <1>5, <1>7, <1>9, <3>1
  <2>2. d = 1
    <3> HIDE DEF d, s
    <3>1. CASE d <= 0
      <4>1. (-d) * s >= 0
        BY <1>2, <2>1, <3>1
      <4>2. (-d) * s = -(d * s)
        BY <1>2, <2>1
      <4> QED
        BY <1>2, <2>1, <4>1, <4>2
    <3>2. CASE d >= 2
      <4>1. d * s >= 2 * s
        BY <1>2, <2>1, <3>2
      <4> QED
        BY <1>2, <2>1, <4>1
    <3> QED
      BY <2>1, <3>1, <3>2
  <2>3. k = 2 * q + 1 /\ q \in Nat
    BY <2>2
  <2>4. b = a - s
    BY <1>4, <1>9
  <2>5. b = q * t /\ a = b + s
    BY <1>2, <2>3, <2>4
  <2>6. Aligned(b, o + 1)
    BY <1>3, <2>3, <2>5 DEF Aligned
  <2>7. Aligned(b, o)
    BY <2>6, AlignedBelow
  <2> QED
    BY <1>6, <1>9, <2>5, <2>6, <2>7 DEF Halves
<1> QED
  BY <1>8, <1>9

(* A buddy's buddy is the block itself.                                    *)
LEMMA BuddyOfBuddy ==
  ASSUME NEW o \in Nat, NEW w, NEW a, NEW b, Aligned(w, o + 1), Halves(w, a, b, o)
  PROVE  get_buddy(a, Size[o]) = b
<1>1. o + 1 \in Nat /\ Size[o] \in Nat /\ Size[o] > 0 /\ Size[o + 1] = 2 * Size[o]
  BY Sizes
<1>2. Aligned(w, o) /\ w \in Nat /\ Aligned(w + Size[o], o)
  BY <1>1, AlignedBelow, AlignedAddress
<1>3. CASE a = w /\ b = w + Size[o]
  BY <1>2, <1>3, BuddyOf
<1>4. CASE b = w /\ a = w + Size[o]
  <2>1. PICK v : Aligned(v, o + 1) /\ Halves(v, a, get_buddy(a, Size[o]), o)
    BY <1>2, <1>4, BuddyOf
  <2>2. v \in Nat
    BY <1>1, <2>1, AlignedAddress
  <2>3. Within(a, w, o + 1) /\ Within(a, v, o + 1) /\ a \in Nat
    BY <1>1, <1>2, <1>4, <2>1, <2>2 DEF Within, Halves
  <2>4. v = w
    BY <1>1, <2>1, <2>3, SameBlock
  <2> QED
    BY <1>1, <1>2, <1>4, <2>1, <2>4 DEF Halves
<1> QED
  BY <1>3, <1>4 DEF Halves

(* What a block has been merged into, up to an order.                      *)
LEMMA MergedHolds ==
  ASSUME NEW block \in Nat, NEW o \in Nat, NEW a, a = MergedAt(block, o)
  PROVE  Aligned(a, o) /\ Within(block, a, o)
<1> DEFINE s == Size[o]
           r == block % s
<1>1. s \in Nat /\ s > 0 /\ block \in Int
  BY Sizes
<1>2. a = block - r
  BY DEF MergedAt
<1>3. r \in 0..s - 1 /\ \E q \in Int : block = q * s + r
  <2> HIDE DEF s
  <2> QED
    BY <1>1, Wrapping
<1> HIDE DEF r
<1>4. PICK q \in Int : block = q * s + r
  BY <1>3
<1>5. a = q * s /\ q \in Nat /\ a <= block /\ block < a + s
  <2> HIDE DEF s
  <2>1. q * s \in Int /\ a = q * s
    BY <1>1, <1>2, <1>3, <1>4
  <2>2. CASE q <= -1
    <3>1. q * s <= -s
      BY <1>1, <2>2
    <3> QED
      BY <1>1, <1>3, <1>4, <2>1, <3>1
  <2> QED
    BY <1>1, <1>2, <1>3, <2>1, <2>2
<1> QED
  BY <1>5 DEF Aligned, Within

(* A turn of the loop of free: the block and its buddy become one.         *)
LEMMA Merges ==
  ASSUME NEW block \in Nat, NEW o \in Nat
  PROVE  /\ Aligned(MergedAt(block, o + 1), o + 1)
         /\ Halves(MergedAt(block, o + 1), MergedAt(block, o),
                   get_buddy(MergedAt(block, o), Size[o]), o)
<1> DEFINE a == MergedAt(block, o)
           b == get_buddy(a, Size[o])
           w == MergedAt(block, o + 1)
<1>1. o + 1 \in Nat /\ Size[o] \in Nat /\ Size[o] > 0 /\ Size[o + 1] = 2 * Size[o]
  BY Sizes
<1>2. Aligned(a, o) /\ Within(block, a, o)
  BY MergedHolds
<1>3. Aligned(w, o + 1) /\ Within(block, w, o + 1)
  BY <1>1, MergedHolds
<1> HIDE DEF a, w
<1>4. PICK v : Aligned(v, o + 1) /\ Halves(v, a, b, o)
  BY <1>2, BuddyOf
<1>5. v \in Nat
  BY <1>1, <1>4, AlignedAddress
<1>6. Within(block, v, o + 1)
  <2> HIDE DEF b
  <2>1. a = v \/ a = v + Size[o]
    BY <1>4 DEF Halves
  <2> QED
    BY <1>1, <1>2, <1>5, <2>1 DEF Within
<1>7. v = w
  BY <1>1, <1>3, <1>4, <1>6, SameBlock
<1> QED
  BY <1>3, <1>4, <1>7 DEF a, w

-----------------------------------------------------------------------------
(* The lists: a block goes to the front, one is taken out anywhere.        *)
Holds(q, A) == Once(q) /\ \A x : InQueue(q, x) <=> x \in A

LEMMA ListedSet ==
  ASSUME NEW S, NEW q \in Seq(S), NEW A, Holds(q, A)
  PROVE  ToSet(q) = A /\ A \subseteq S /\ (q = <<>> <=> A = {})
<1>1. Len(q) \in Nat /\ DOMAIN q = 1..Len(q) /\ \A i \in 1..Len(q) : q[i] \in S
  OBVIOUS
<1>2. ASSUME NEW x PROVE x \in ToSet(q) <=> x \in A
  BY <1>1, <1>2 DEF ToSet, Holds, InQueue
<1>3. ToSet(q) = A
  BY <1>2
<1>4. A \subseteq S
  BY <1>1 DEF Holds, InQueue
<1>5. q = <<>> <=> A = {}
  <2>1. CASE q = <<>>
    BY <1>1, <2>1 DEF Holds, InQueue
  <2>2. CASE q # <<>>
    <3>1. 1 \in 1..Len(q)
      BY <1>1, <2>2
    <3>2. q[1] \in A
      BY <3>1 DEF Holds, InQueue
    <3> QED
      BY <2>2, <3>2
  <2> QED
    BY <2>1, <2>2
<1> QED
  BY <1>3, <1>4, <1>5

LEMMA Fronting ==
  ASSUME NEW S, NEW q \in Seq(S), NEW A, Holds(q, A), NEW x \in S, x \notin A,
         NEW r, r = <<x>> \o q
  PROVE  r \in Seq(S) /\ Holds(r, A \cup {x})
<1>1. /\ Len(q) \in Nat /\ <<x>> \in Seq(S) /\ Len(<<x>>) = 1 /\ <<x>>[1] = x
  OBVIOUS
<1>2. /\ r \in Seq(S) /\ Len(r) = 1 + Len(q)
      /\ \A j \in 1..1 + Len(q) : r[j] = IF j <= 1 THEN <<x>>[j] ELSE q[j - 1]
  BY <1>1, ConcatProperties
<1>3. r[1] = x /\ 1 \in 1..Len(r)
  BY <1>1, <1>2
<1>4. \A j \in 2..Len(r) : j - 1 \in 1..Len(q) /\ r[j] = q[j - 1]
  BY <1>1, <1>2
<1>5. \A j \in 1..Len(q) : j + 1 \in 2..Len(r) /\ r[j + 1] = q[j]
  <2> TAKE j \in 1..Len(q)
  <2>1. j + 1 \in 2..Len(r) /\ (j + 1) - 1 = j
    BY <1>1, <1>2
  <2> QED
    BY <1>4, <2>1
<1>6. \A j \in 1..Len(r) : j = 1 \/ j \in 2..Len(r)
  BY <1>1, <1>2
<1>7. ASSUME NEW y PROVE InQueue(r, y) <=> InQueue(q, y) \/ y = x
  <2>1. ASSUME InQueue(q, y) PROVE InQueue(r, y)
    <3>1. PICK j \in 1..Len(q) : q[j] = y
      BY <2>1 DEF InQueue
    <3>2. j + 1 \in 1..Len(r) /\ r[j + 1] = y
      BY <1>1, <1>2, <1>5, <3>1
    <3> QED
      BY <3>2 DEF InQueue
  <2>2. ASSUME InQueue(r, y) PROVE InQueue(q, y) \/ y = x
    BY <1>3, <1>4, <1>6, <2>2 DEF InQueue
  <2> QED
    BY <1>3, <2>1, <2>2 DEF InQueue
<1>8. Once(r)
  <2>1. ~InQueue(q, x)
    BY DEF Holds
  <2>2. \A j \in 2..Len(r) : r[j] # x
    BY <1>4, <2>1 DEF InQueue
  <2>3. ASSUME NEW j \in 2..Len(r), NEW k \in 2..Len(r), r[j] = r[k] PROVE j = k
    <3>0. j - 1 \in 1..Len(q) /\ k - 1 \in 1..Len(q) /\ q[j - 1] = q[k - 1]
      BY <1>4, <2>3
    <3>1. j - 1 = k - 1
      BY <3>0 DEF Once, Holds
    <3> QED
      BY <1>2, <3>1
  <2> QED
    BY <1>3, <1>6, <2>2, <2>3 DEF Once
<1> QED
  BY <1>2, <1>7, <1>8 DEF Holds

LEMMA Unlinking ==
  ASSUME NEW S, NEW q \in Seq(S), NEW A, Holds(q, A), NEW x \in A,
         NEW r, r = Unlinked(q, x)
  PROVE  r \in Seq(S) /\ Holds(r, A \ {x})
<1> DEFINE n == Len(q)
           i == CHOOSE k \in DOMAIN q : q[k] = x
<1>1. n \in Nat /\ DOMAIN q = 1..n
  OBVIOUS
<1>2. i \in 1..n /\ q[i] = x
  <2>1. \E k \in DOMAIN q : q[k] = x
    BY DEF Holds, InQueue
  <2> QED
    BY <1>1, <2>1
<1>3. r = RemoveAt(q, i)
  BY DEF Unlinked
<1> HIDE DEF i
<1>4. /\ r \in Seq(S) /\ Len(r) = n - 1
      /\ \A j \in 1..i - 1 : r[j] = q[j]
      /\ \A j \in i..n - 1 : r[j] = q[j + 1]
  <2>1. i \in DOMAIN q
    BY <1>1, <1>2
  <2> QED
    BY <1>3, <2>1, Removing
<1> DEFINE from(j) == IF j < i THEN j ELSE j + 1
<1>5. ASSUME NEW j \in 1..n - 1
      PROVE  from(j) \in 1..n /\ from(j) # i /\ r[j] = q[from(j)]
  <2>1. CASE j < i
    <3>1. j \in 1..i - 1 /\ j \in 1..n
      BY <1>1, <1>2, <2>1
    <3> QED
      BY <1>4, <2>1, <3>1
  <2>2. CASE ~(j < i)
    <3>1. j \in i..n - 1 /\ j + 1 \in 1..n /\ j + 1 # i
      BY <1>1, <1>2, <2>2
    <3> QED
      BY <1>4, <2>2, <3>1
  <2> QED
    BY <2>1, <2>2
<1>6. ASSUME NEW j \in 1..n, j # i PROVE \E k \in 1..n - 1 : r[k] = q[j]
  <2>1. CASE j < i
    <3>1. j \in 1..i - 1 /\ j \in 1..n - 1
      BY <1>1, <1>2, <2>1
    <3> QED
      BY <1>4, <3>1
  <2>2. CASE ~(j < i)
    <3>1. j - 1 \in i..n - 1 /\ j - 1 \in 1..n - 1 /\ (j - 1) + 1 = j
      BY <1>1, <1>2, <1>6, <2>2
    <3>2. r[j - 1] = q[j]
      BY <1>4, <3>1
    <3> QED
      BY <3>1, <3>2
  <2> QED
    BY <2>1, <2>2
<1>7. \A j, k \in 1..n : q[j] = q[k] => j = k
  BY DEF Holds, Once
<1>8. ASSUME NEW j \in 1..n - 1, NEW k \in 1..n - 1, r[j] = r[k] PROVE j = k
  <2>1. from(j) = from(k)
    <3> HIDE DEF from
    <3> QED
      BY <1>5, <1>7, <1>8
  <2> QED
    BY <1>1, <1>2, <2>1
<1> HIDE DEF from
<1>9. ASSUME NEW y PROVE InQueue(r, y) <=> InQueue(q, y) /\ y # x
  <2>1. ASSUME InQueue(r, y) PROVE InQueue(q, y) /\ y # x
    <3>1. PICK j \in 1..n - 1 : r[j] = y
      BY <1>4, <2>1 DEF InQueue
    <3>2. from(j) \in 1..n /\ from(j) # i /\ q[from(j)] = y
      BY <1>5, <3>1
    <3> QED
      BY <1>2, <1>7, <3>2 DEF InQueue
  <2>2. ASSUME InQueue(q, y), y # x PROVE InQueue(r, y)
    <3>1. PICK j \in 1..n : q[j] = y
      BY <2>2 DEF InQueue
    <3>2. \E m \in 1..n - 1 : r[m] = q[j]
      BY <1>2, <1>6, <2>2, <3>1
    <3> QED
      BY <1>4, <3>1, <3>2 DEF InQueue
  <2> QED
    BY <2>1, <2>2
<1>10. Once(r)
  BY <1>4, <1>8 DEF Once
<1> QED
  BY <1>4, <1>9, <1>10 DEF Holds

LEMMA HeadTaken ==
  ASSUME NEW S, NEW q \in Seq(S), NEW A, Holds(q, A), q # <<>>
  PROVE  Head(q) \in A /\ Tail(q) \in Seq(S) /\ Holds(Tail(q), A \ {Head(q)})
<1> DEFINE r == Tail(q)
<1>1. r = SubSeq(q, 2, Len(q))
  BY TailIsSubSeq
<1> HIDE DEF r
<1>2. r \in Seq(S) /\ HeadLeft(q, r, S)
  BY <1>1, LeavingQueue
<1>3. InQueue(q, Head(q)) /\ Once(r) /\ \A x : InQueue(r, x) <=> InQueue(q, x) /\ x # Head(q)
  BY <1>2 DEF HeadLeft, Holds
<1> QED
  BY <1>2, <1>3 DEF r, Holds

-----------------------------------------------------------------------------
(* The sizes of blocks that share no byte add up to the bytes they cover.  *)
END == Size[TopOrder]

Spans(h, a, x) == a <= x /\ x < a + h[a].size
BytesOf(h, S) == {x \in 0..END - 1 : \E a \in S : Spans(h, a, x)}

Sized(h, S) ==
  \A a \in S : a \in Nat /\ h[a].size \in Nat /\ h[a].size >= HEADER /\ a + h[a].size <= END
Disjoint(h, S) == \A a, b \in S : \A x \in Nat : Spans(h, a, x) /\ Spans(h, b, x) => a = b

LEMMA BytesOfNone ==
  ASSUME NEW h
  PROVE  IsFiniteSet(BytesOf(h, {})) /\ Cardinality(BytesOf(h, {})) = 0
<1>1. BytesOf(h, {}) = {}
  BY DEF BytesOf
<1> QED
  BY <1>1, FS_EmptySet

LEMMA BytesOfOneMore ==
  ASSUME NEW h, NEW S, NEW c \in S, Sized(h, S), Disjoint(h, S)
  PROVE  /\ IsFiniteSet(BytesOf(h, S)) /\ IsFiniteSet(BytesOf(h, S \ {c}))
         /\ Cardinality(BytesOf(h, S \ {c})) \in Nat
         /\ Cardinality(BytesOf(h, S)) = Cardinality(BytesOf(h, S \ {c})) + h[c].size
<1> DEFINE s == h[c].size
           mine == c..c + s - 1
           rest == BytesOf(h, S \ {c})
<1>1. c \in Nat /\ s \in Nat /\ c + s <= END /\ END \in Nat
  BY Largest DEF Sized, END
<1>2. IsFiniteSet(mine) /\ Cardinality(mine) = s
  <2>1. c \in Int /\ c + s - 1 \in Int
    BY <1>1
  <2>2. /\ IsFiniteSet(mine)
        /\ Cardinality(mine) = IF c > c + s - 1 THEN 0 ELSE (c + s - 1) - c + 1
    BY <2>1, FS_Interval
  <2> HIDE DEF mine, s
  <2> QED
    BY <1>1, <2>2
<1>3. \A x \in Nat : x \in mine <=> Spans(h, c, x)
  BY <1>1 DEF Spans
<1>4. mine \subseteq 0..END - 1 /\ mine \subseteq Nat
  BY <1>1
<1> HIDE DEF mine
<1>5. 0..END - 1 \subseteq Nat /\ IsFiniteSet(0..END - 1)
  <2>1. 0 \in Int /\ END - 1 \in Int
    BY <1>1
  <2>2. IsFiniteSet(0..END - 1)
    BY <2>1, FS_Interval
  <2> QED
    BY <2>2
<1>6. rest \in SUBSET (0..END - 1)
  BY DEF BytesOf
<1>7. IsFiniteSet(rest) /\ Cardinality(rest) \in Nat
  BY <1>5, <1>6, FS_Subset, FS_CardinalityType
<1>8. BytesOf(h, S) = mine \cup rest
  BY <1>3, <1>4, <1>5 DEF BytesOf
<1>9. mine \cap rest = {}
  <2>1. ASSUME NEW x \in mine, x \in rest PROVE FALSE
    <3>1. x \in Nat /\ Spans(h, c, x)
      BY <1>3, <1>4
    <3>2. PICK a \in S \ {c} : Spans(h, a, x)
      BY <2>1 DEF BytesOf
    <3> QED
      BY <3>1, <3>2 DEF Disjoint
  <2> QED
    BY <2>1
<1> HIDE DEF rest
<1>10. IsFiniteSet(mine \cup rest) /\ Cardinality(mine \cup rest) = Cardinality(mine) + Cardinality(rest)
  BY <1>2, <1>7, <1>9, CountedApart
<1> QED
  BY <1>1, <1>2, <1>7, <1>8, <1>10 DEF rest

(* The fold of BuddyCounts as a loop over the subsets.                     *)
Summed(h, S) == FoldSet(LAMBDA a, sum : sum + h[a].size, 0, S)

Sums(h, S, f) ==
    f = [T \in SUBSET S |->
            IF T = {} THEN 0 ELSE f[T \ {CHOOSE a \in T : TRUE}] + h[CHOOSE a \in T : TRUE].size]

LEMMA SumUnfolds ==
  ASSUME NEW h, NEW S
  PROVE  Summed(h, S) = (CHOOSE f : Sums(h, S, f))[S]
BY Zenon DEF Summed, FoldSet, MapThenFoldSet, Sums

LEMMA SumIsBytes ==
  ASSUME NEW h, NEW S, IsFiniteSet(S), Sized(h, S), Disjoint(h, S)
  PROVE  /\ Summed(h, S) = Cardinality(BytesOf(h, S))
         /\ Cardinality(BytesOf(h, S)) \in Nat /\ Cardinality(S) \in Nat
         /\ HEADER * Cardinality(S) <= Cardinality(BytesOf(h, S))
<1> DEFINE bytes(T) == Cardinality(BytesOf(h, T))
           one(T) == CHOOSE a \in T : TRUE
           g == [T \in SUBSET S |-> bytes(T)]
           f == CHOOSE sums : Sums(h, S, sums)
<1>1. ASSUME NEW T \in SUBSET S, T # {}
      PROVE  /\ one(T) \in T /\ T \ {one(T)} \in SUBSET S
             /\ bytes(T) = bytes(T \ {one(T)}) + h[one(T)].size
             /\ bytes(T \ {one(T)}) \in Nat /\ h[one(T)].size \in Nat
             /\ h[one(T)].size >= HEADER
  <2>1. one(T) \in T
    BY <1>1, Zenon
  <2> HIDE DEF one
  <2>2. Sized(h, T) /\ Disjoint(h, T)
    BY DEF Sized, Disjoint
  <2>3. bytes(T) = bytes(T \ {one(T)}) + h[one(T)].size /\ bytes(T \ {one(T)}) \in Nat
    BY <2>1, <2>2, BytesOfOneMore
  <2> QED
    BY <2>1, <2>2, <2>3 DEF Sized
<1>2. bytes({}) = 0
  BY BytesOfNone
<1> HIDE DEF bytes, one
<1>3. \A T \in SUBSET S : g[T] = IF T = {} THEN 0 ELSE g[T \ {one(T)}] + h[one(T)].size
  <2> TAKE T \in SUBSET S
  <2>1. CASE T = {}
    BY <1>2, <2>1
  <2>2. CASE T # {}
    BY <1>1, <2>2
  <2> QED
    BY <2>1, <2>2
<1>4. g = [T \in SUBSET S |-> g[T]]
  OBVIOUS
<1> HIDE DEF g
<1>5. Sums(h, S, g)
  BY <1>3, <1>4, Zenon DEF Sums, one
<1>6. Sums(h, S, f)
  BY <1>5, Zenon
<1>7. Summed(h, S) = f[S]
  BY SumUnfolds
<1> HIDE DEF f
<1>8. \A T \in SUBSET S : f[T] = IF T = {} THEN 0 ELSE f[T \ {one(T)}] + h[one(T)].size
  BY <1>6, Zenon DEF Sums, one
<1>9. \A T \in SUBSET S : IsFiniteSet(T) /\ Cardinality(T) \in Nat
  BY FS_Subset, FS_CardinalityType
<1>10. HEADER \in Nat
  BY Sizes
<1> DEFINE Good(T) == f[T] = bytes(T) /\ bytes(T) \in Nat /\ HEADER * Cardinality(T) <= bytes(T)
           bad == {n \in Nat : \E T \in SUBSET S : Cardinality(T) = n /\ ~Good(T)}
<1>11. ASSUME bad # {} PROVE FALSE
  <2>1. PICK n \in bad : \A m \in bad : n <= m
    BY <1>11, LeastNatural
  <2>2. PICK T \in SUBSET S : Cardinality(T) = n /\ ~Good(T)
    BY <2>1
  <2>3. CASE T = {}
    <3>1. Cardinality(T) = 0 /\ f[T] = 0 /\ bytes(T) = 0
      BY <1>2, <1>8, <2>3, FS_EmptySet
    <3> QED
      BY <1>10, <2>2, <3>1
  <2>4. CASE T # {}
    <3> DEFINE U == T \ {one(T)}
               s == h[one(T)].size
    <3>1. /\ U \in SUBSET S /\ bytes(T) = bytes(U) + s /\ bytes(U) \in Nat /\ s \in Nat /\ s >= HEADER
          /\ f[T] = f[U] + s
      BY <1>1, <1>8, <2>4
    <3>2. Cardinality(U) = n - 1 /\ n - 1 \in Nat
      <4>1. Cardinality(U) = Cardinality(T) - 1
        BY <1>1, <1>9, <2>4, FS_RemoveElement
      <4> QED
        BY <1>9, <2>2, <3>1, <4>1
    <3> HIDE DEF U, s
    <3>3. Good(U)
      <4>1. n - 1 \notin bad
        BY <2>1, <3>2
      <4> HIDE DEF Good
      <4> QED
        BY <3>1, <3>2, <4>1
    <3>4. HEADER * n <= bytes(T)
      <4>1. HEADER * n = HEADER * (n - 1) + HEADER
        BY <1>10, <2>1
      <4>2. HEADER * (n - 1) <= bytes(U)
        BY <3>2, <3>3
      <4>3. HEADER * (n - 1) \in Int
        BY <1>10, <3>2
      <4> QED
        BY <1>10, <3>1, <4>1, <4>2, <4>3
    <3> QED
      BY <2>2, <3>1, <3>3, <3>4
  <2> QED
    BY <2>3, <2>4
<1>12. Good(S)
  <2> HIDE DEF Good
  <2>1. Cardinality(S) \in Nat /\ Cardinality(S) \notin bad
    BY <1>9, <1>11
  <2> QED
    BY <2>1
<1> QED
  BY <1>7, <1>9, <1>12 DEF bytes

-----------------------------------------------------------------------------
(* The blocks that the headers say there are.                              *)
UsedHeader(size) == [size |-> size, is_free |-> FALSE]

FreeAt(h, a, o) == a \in DOMAIN h /\ h[a] = FreeHeader(Size[o])
UsedAt(h, a, o) == a \in DOMAIN h /\ h[a] = UsedHeader(Size[o])
BlockAt(h, a, o) == FreeAt(h, a, o) \/ UsedAt(h, a, o)

(* They tile the heap, each aligned to its size.                           *)
Known(h) == \A a \in DOMAIN h : \E o \in Orders : BlockAt(h, a, o)
Aligns(h) == \A o \in Orders : \A a : BlockAt(h, a, o) => Aligned(a, o) /\ a + Size[o] <= END
Covered(h) == \A x \in 0..END - 1 : \E o \in Orders : \E a : BlockAt(h, a, o) /\ Within(x, a, o)
Separate(h) ==
  \A x \in Nat : \A i, j \in Orders : \A a, b :
      BlockAt(h, a, i) /\ BlockAt(h, b, j) /\ Within(x, a, i) /\ Within(x, b, j) => a = b

Tiling(h) == Known(h) /\ Aligns(h) /\ Covered(h) /\ Separate(h)

(* No block is free beside its free buddy.                                 *)
Merged(h) ==
  \A o \in Orders : o < TopOrder =>
      \A a : FreeAt(h, a, o) => ~FreeAt(h, get_buddy(a, Size[o]), o)

LEMMA Headers ==
  ASSUME NEW s, NEW t
  PROVE  /\ FreeHeader(s).size = s /\ FreeHeader(s).is_free = TRUE
         /\ UsedHeader(s).size = s /\ UsedHeader(s).is_free = FALSE
         /\ FreeHeader(s) # UsedHeader(t)
         /\ FreeHeader(s) = FreeHeader(t) => s = t
         /\ UsedHeader(s) = UsedHeader(t) => s = t
<1>1. FreeHeader(s).size = s /\ UsedHeader(s).size = s /\ FreeHeader(t).size = t /\ UsedHeader(t).size = t
  BY DEF FreeHeader, UsedHeader
<1>2. FreeHeader(s).is_free = TRUE /\ UsedHeader(s).is_free = FALSE /\ UsedHeader(t).is_free = FALSE
  BY DEF FreeHeader, UsedHeader
<1>3. FreeHeader(s) # UsedHeader(t)
  BY <1>2, Zenon
<1> QED
  BY <1>1, <1>2, <1>3, Zenon

LEMMA HeadersDiffer ==
  \A s, t : /\ FreeHeader(s) # UsedHeader(t)
            /\ FreeHeader(s) = FreeHeader(t) => s = t
            /\ UsedHeader(s) = UsedHeader(t) => s = t
BY Headers, Zenon

LEMMA OneOrder ==
  ASSUME NEW h, NEW a, NEW i \in Nat, NEW j \in Nat, BlockAt(h, a, i), BlockAt(h, a, j)
  PROVE  i = j /\ ~(FreeAt(h, a, i) /\ UsedAt(h, a, j))
<1>1. ~(FreeAt(h, a, i) /\ UsedAt(h, a, j)) /\ ~(FreeAt(h, a, j) /\ UsedAt(h, a, i))
  BY HeadersDiffer DEF FreeAt, UsedAt
<1>2. FreeAt(h, a, i) /\ FreeAt(h, a, j) => Size[i] = Size[j]
  BY HeadersDiffer DEF FreeAt
<1>3. UsedAt(h, a, i) /\ UsedAt(h, a, j) => Size[i] = Size[j]
  BY HeadersDiffer DEF UsedAt
<1>4. Size[i] = Size[j]
  BY <1>1, <1>2, <1>3, Zenon DEF BlockAt
<1>5. i = j
  BY <1>4, SizesDiffer
<1> QED
  BY <1>1, <1>5

LEMMA WithinItself ==
  ASSUME NEW h, Aligns(h), NEW o \in Orders, NEW a, BlockAt(h, a, o)
  PROVE  /\ o \in Nat /\ a \in Nat /\ Within(a, a, o) /\ Aligned(a, o)
         /\ a + Size[o] <= END /\ Size[o] \in Nat /\ Size[o] > HEADER /\ HEADER \in Nat
<1>1. o \in Nat /\ Aligned(a, o) /\ a + Size[o] <= END
  BY Largest DEF Aligns
<1>2. a \in Nat /\ Size[o] \in Nat /\ Size[o] > 0 /\ Size[o] > HEADER /\ HEADER \in Nat
  BY <1>1, AlignedAddress, Sizes
<1>3. Within(a, a, o)
  BY <1>2 DEF Within
<1> QED
  BY <1>1, <1>2, <1>3

-----------------------------------------------------------------------------
(* malloc splits a free block: what the headers say then.                  *)
Took(h, new, block, o, order) ==
  /\ \A i \in Orders : \A a : FreeAt(new, a, i) <=>
        \/ FreeAt(h, a, i) /\ a # block
        \/ order <= i /\ i < o /\ a = block + Size[i]
  /\ \A i \in Orders : \A a : UsedAt(new, a, i) <=> UsedAt(h, a, i) \/ (a = block /\ i = order)
  /\ Known(new)

(* The pieces of the block that is split.                                  *)
Piece(block, o, order, a, i) ==
  (a = block /\ i = order) \/ (order <= i /\ i < o /\ a = block + Size[i])

LEMMA PiecesInside ==
  ASSUME NEW o \in Nat, NEW order \in Nat, order <= o, NEW block, Aligned(block, o),
         NEW i \in Nat, NEW a, Piece(block, o, order, a, i)
  PROVE  Aligned(a, i) /\ i <= o /\ block <= a /\ a + Size[i] <= block + Size[o]
<1>1. block \in Nat /\ Size[i] \in Nat /\ Size[o] \in Nat /\ Size[i] > 0
  BY AlignedAddress, Sizes
<1>2. i <= o /\ (a = block \/ (a = block + Size[i] /\ i < o))
  BY DEF Piece
<1>3. Aligned(block, i)
  BY <1>2, AlignedSmaller
<1>4. Aligned(a, i)
  BY <1>2, <1>3, AlignedAddress
<1>5. i < o => 2 * Size[i] <= Size[o]
  BY SizesGrow
<1>6. a + Size[i] <= block + Size[o]
  <2>1. CASE i < o
    BY <1>1, <1>2, <1>5, <2>1
  <2>2. CASE i = o
    BY <1>1, <1>2, <2>2
  <2> QED
    BY <1>2, <2>1, <2>2
<1> QED
  BY <1>1, <1>2, <1>4, <1>6

LEMMA PiecesCover ==
  ASSUME NEW o \in Nat, NEW order \in Nat, order <= o, NEW block \in Nat,
         NEW x \in Nat, Within(x, block, o)
  PROVE  \E i \in order..o, a \in Nat : Piece(block, o, order, a, i) /\ Within(x, a, i)
<1>1. Size[order] \in Nat /\ Size[o] \in Nat /\ block <= x /\ x < block + Size[o]
  BY Sizes DEF Within
<1>2. CASE x < block + Size[order]
  BY <1>1, <1>2 DEF Piece, Within
<1>3. CASE ~(x < block + Size[order])
  <2> DEFINE below == {i \in order..o : block + Size[i] <= x}
  <2>1. order \in below
    BY <1>1, <1>3
  <2>2. below \subseteq 0..o /\ below # {}
    BY <2>1
  <2>3. Max(below) \in below /\ \A i \in below : i <= Max(below)
    <3> HIDE DEF below
    <3> QED
      BY <2>2, MaxOfNaturals
  <2>4. PICK m \in below : \A i \in below : i <= m
    BY <2>3
  <2>5. m \in order..o /\ m \in Nat /\ m # o /\ Size[m] \in Nat
    BY <1>1, <2>4, Sizes
  <2>6. m + 1 \in order..o /\ m + 1 \notin below /\ m < o
    BY <2>4, <2>5
  <2>7. x < block + Size[m + 1] /\ Size[m + 1] = 2 * Size[m] /\ Size[m + 1] \in Nat
    BY <1>1, <2>5, <2>6, Sizes
  <2>8. Within(x, block + Size[m], m)
    BY <2>4, <2>5, <2>7 DEF Within
  <2>9. Piece(block, o, order, block + Size[m], m)
    BY <2>5, <2>6 DEF Piece
  <2>10. block + Size[m] \in Nat
    BY <2>5
  <2> QED
    BY <2>5, <2>8, <2>9, <2>10
<1> QED
  BY <1>2, <1>3

LEMMA PiecesApart ==
  ASSUME NEW o \in Nat, NEW order \in Nat, order <= o, NEW block \in Nat,
         NEW i \in Nat, NEW a \in Nat, Piece(block, o, order, a, i),
         NEW j \in Nat, NEW b \in Nat, Piece(block, o, order, b, j),
         NEW x \in Nat, Within(x, a, i), Within(x, b, j)
  PROVE  a = b
<1>1. Size[i] \in Nat /\ Size[j] \in Nat /\ Size[order] \in Nat
  BY Sizes
<1>2. /\ a <= x /\ x < a + Size[i] /\ b <= x /\ x < b + Size[j]
      /\ i < j => 2 * Size[i] <= Size[j]
      /\ j < i => 2 * Size[j] <= Size[i]
      /\ order < i => 2 * Size[order] <= Size[i]
      /\ order < j => 2 * Size[order] <= Size[j]
  BY SizesGrow DEF Within
<1>3. (a = block /\ i = order) \/ (order <= i /\ a = block + Size[i])
  BY DEF Piece
<1>4. (b = block /\ j = order) \/ (order <= j /\ b = block + Size[j])
  BY DEF Piece
<1>5. CASE i = j
  BY <1>1, <1>2, <1>3, <1>4, <1>5
<1>6. CASE i < j
  BY <1>1, <1>2, <1>3, <1>4, <1>6
<1>7. CASE j < i
  BY <1>1, <1>2, <1>3, <1>4, <1>7
<1> QED
  BY <1>5, <1>6, <1>7

LEMMA SplitTiles ==
  ASSUME NEW h, NEW new, Tiling(h), NEW o \in Orders, NEW order \in Orders, order <= o,
         NEW block, FreeAt(h, block, o), Took(h, new, block, o, order)
  PROVE  Tiling(new)
<1>1. o \in Nat /\ order \in Nat /\ Orders \subseteq Nat /\ END \in Nat
  BY Largest DEF END
<1>2. BlockAt(h, block, o)
  BY DEF BlockAt
<1>3. block \in Nat /\ Aligned(block, o) /\ block + Size[o] <= END /\ Size[o] \in Nat
  BY <1>2, WithinItself DEF Tiling
<1>4. ASSUME NEW i \in Orders, NEW a
      PROVE  BlockAt(new, a, i) <=> (BlockAt(h, a, i) /\ a # block) \/ Piece(block, o, order, a, i)
  <2>1. UsedAt(h, a, i) => a # block
    <3> SUFFICES ASSUME UsedAt(h, block, i) PROVE FALSE
      OBVIOUS
    <3>1. BlockAt(h, block, i) /\ i \in Nat
      BY <1>1 DEF BlockAt
    <3> QED
      BY <1>1, <1>2, <3>1, OneOrder
  <2> QED
    BY <2>1 DEF Took, BlockAt, Piece
<1>5. ASSUME NEW i \in Orders, NEW a, Piece(block, o, order, a, i)
      PROVE  /\ i \in Nat /\ Aligned(a, i) /\ a \in Nat /\ Size[i] \in Nat
             /\ block <= a /\ a + Size[i] <= block + Size[o]
  <2>1. i \in Nat
    BY <1>1
  <2>2. Aligned(a, i) /\ block <= a /\ a + Size[i] <= block + Size[o]
    BY <1>1, <1>3, <1>5, <2>1, PiecesInside
  <2> QED
    BY <2>1, <2>2, AlignedAddress, Sizes
<1>6. ASSUME NEW i \in Orders, NEW a, BlockAt(h, a, i)
      PROVE  a \in Nat /\ Size[i] \in Nat /\ Aligned(a, i) /\ a + Size[i] <= END
  BY <1>6, WithinItself DEF Tiling
<1>7. Aligns(new)
  <2> SUFFICES ASSUME NEW i \in Orders, NEW a, BlockAt(new, a, i)
               PROVE  Aligned(a, i) /\ a + Size[i] <= END
    BY DEF Aligns
  <2>1. CASE BlockAt(h, a, i)
    BY <1>6, <2>1
  <2>2. CASE Piece(block, o, order, a, i)
    BY <1>1, <1>3, <1>5, <2>2
  <2> QED
    BY <1>4, <2>1, <2>2
<1>8. Covered(new)
  <2> SUFFICES ASSUME NEW x \in 0..END - 1
               PROVE  \E i \in Orders : \E a : BlockAt(new, a, i) /\ Within(x, a, i)
    BY DEF Covered
  <2>1. x \in Nat
    BY <1>1
  <2>2. PICK i \in Orders : \E a : BlockAt(h, a, i) /\ Within(x, a, i)
    BY DEF Tiling, Covered
  <2>3. PICK a : BlockAt(h, a, i) /\ Within(x, a, i)
    BY <2>2
  <2>4. CASE a # block
    BY <1>4, <2>3, <2>4
  <2>5. CASE a = block
    <3>1. i = o
      BY <1>1, <1>2, <2>3, <2>5, OneOrder
    <3>2. PICK j \in order..o, b \in Nat : Piece(block, o, order, b, j) /\ Within(x, b, j)
      BY <1>1, <1>3, <2>1, <2>3, <2>5, <3>1, PiecesCover
    <3>3. j \in Orders
      BY <1>1, Largest DEF Orders
    <3> QED
      BY <1>4, <3>2, <3>3
  <2> QED
    BY <2>4, <2>5
<1>9. ASSUME NEW x \in Nat, NEW i \in Orders, NEW a, Piece(block, o, order, a, i), Within(x, a, i)
      PROVE  Within(x, block, o)
  <2>1. /\ a \in Nat /\ Size[i] \in Nat /\ block <= a /\ a + Size[i] <= block + Size[o]
    BY <1>5, <1>9
  <2> QED
    BY <1>3, <1>9, <2>1 DEF Within
<1>10. Separate(new)
  <2> SUFFICES ASSUME NEW x \in Nat, NEW i \in Orders, NEW j \in Orders, NEW a, NEW b,
                      BlockAt(new, a, i), BlockAt(new, b, j), Within(x, a, i), Within(x, b, j)
               PROVE  a = b
    BY DEF Separate
  <2>1. \A k, l \in Orders : \A c, d :
            BlockAt(h, c, k) /\ BlockAt(h, d, l) /\ Within(x, c, k) /\ Within(x, d, l) => c = d
    BY DEF Tiling, Separate
  <2>2. CASE BlockAt(h, a, i) /\ a # block
    <3>1. CASE BlockAt(h, b, j) /\ b # block
      BY <2>1, <2>2, <3>1
    <3>2. CASE Piece(block, o, order, b, j)
      BY <1>2, <1>9, <2>1, <2>2, <3>2
    <3> QED
      BY <1>4, <3>1, <3>2
  <2>3. CASE Piece(block, o, order, a, i)
    <3>1. CASE BlockAt(h, b, j) /\ b # block
      BY <1>2, <1>9, <2>1, <2>3, <3>1
    <3>2. CASE Piece(block, o, order, b, j)
      <4>1. i \in Nat /\ j \in Nat /\ a \in Nat /\ b \in Nat
        BY <1>5, <2>3, <3>2
      <4> QED
        BY <1>1, <1>3, <2>3, <3>2, <4>1, PiecesApart
    <3> QED
      BY <1>4, <3>1, <3>2
  <2> QED
    BY <1>4, <2>2, <2>3
<1> QED
  BY <1>7, <1>8, <1>10 DEF Tiling, Took

LEMMA SplitMerged ==
  ASSUME NEW h, NEW new, Tiling(h), Merged(h), NEW o \in Orders, NEW order \in Orders, order <= o,
         NEW block, FreeAt(h, block, o), Took(h, new, block, o, order)
  PROVE  Merged(new)
<1>1. o \in Nat /\ order \in Nat /\ Orders \subseteq Nat
  BY Largest
<1>2. Aligned(block, o)
  <2>1. BlockAt(h, block, o)
    BY DEF BlockAt
  <2> QED
    BY <2>1, WithinItself DEF Tiling
<1>3. ASSUME NEW i \in Orders, i < o
      PROVE  /\ get_buddy(block, Size[i]) = block + Size[i]
             /\ get_buddy(block + Size[i], Size[i]) = block
  <2>1. i \in Nat /\ i + 1 \in Nat /\ i + 1 <= o
    BY <1>1, <1>3
  <2>2. Aligned(block, i + 1)
    BY <1>1, <1>2, <2>1, AlignedSmaller
  <2>3. Halves(block, block, block + Size[i], i) /\ Halves(block, block + Size[i], block, i)
    BY DEF Halves
  <2> QED
    BY <2>1, <2>2, <2>3, BuddyOfBuddy
<1>4. ASSUME NEW i \in Orders, i < TopOrder, NEW a, FreeAt(new, a, i),
             FreeAt(new, get_buddy(a, Size[i]), i)
      PROVE  FALSE
  <2> DEFINE b == get_buddy(a, Size[i])
  <2>1. ~FreeAt(new, block, i)
    <3>1. block # block + Size[i]
      <4>1. block \in Nat /\ Size[i] \in Nat /\ Size[i] > 0
        BY <1>1, <1>2, AlignedAddress, Sizes
      <4> QED
        BY <4>1
    <3> QED
      BY <3>1 DEF Took
  <2>2. (FreeAt(h, a, i) /\ a # block) \/ (order <= i /\ i < o /\ a = block + Size[i])
    BY <1>4 DEF Took
  <2>3. (FreeAt(h, b, i) /\ b # block) \/ (order <= i /\ i < o /\ b = block + Size[i])
    BY <1>4 DEF Took
  <2>4. i < o /\ a = block + Size[i] => b = block
    BY <1>3
  <2>5. i < o /\ b = block + Size[i] => a = block
    <3> SUFFICES ASSUME i < o, b = block + Size[i] PROVE a = block
      OBVIOUS
    <3>1. i \in Nat /\ Aligned(a, i)
      <4>1. CASE FreeAt(h, a, i)
        <5>1. BlockAt(h, a, i)
          BY <4>1 DEF BlockAt
        <5> QED
          BY <5>1, WithinItself DEF Tiling
      <4>2. CASE i < o /\ a = block + Size[i]
        <5>1. i \in Nat /\ i <= o
          BY <1>1, <4>2
        <5> QED
          BY <1>1, <1>2, <4>2, <5>1, AlignedSmaller, AlignedAddress
      <4> QED
        BY <2>2, <4>1, <4>2
    <3>2. PICK w : Aligned(w, i + 1) /\ Halves(w, a, b, i)
      BY <3>1, BuddyOf
    <3>3. Halves(w, b, a, i)
      BY <3>2 DEF Halves
    <3>4. get_buddy(b, Size[i]) = a
      BY <3>1, <3>2, <3>3, BuddyOfBuddy
    <3> QED
      BY <1>3, <3>4
  <2>6. FreeAt(h, a, i) => ~FreeAt(h, b, i)
    BY <1>4 DEF Merged
  <2> HIDE DEF b
  <2>7. FreeAt(new, a, i) /\ FreeAt(new, b, i)
    BY <1>4 DEF b
  <2> QED
    BY <2>1, <2>2, <2>3, <2>4, <2>5, <2>6, <2>7
<1> QED
  BY <1>4 DEF Merged

-----------------------------------------------------------------------------
(* free merges a block with its free buddies: what the headers say then.   *)
MergeBuddy(block, i) == get_buddy(MergedAt(block, i), Size[i])

Gave(h, new, block, order, merge) ==
  /\ \A i \in Orders : \A a : FreeAt(new, a, i) <=>
        \/ FreeAt(h, a, i) /\ ~(order <= i /\ i < merge /\ a = MergeBuddy(block, i))
        \/ i = merge /\ a = MergedAt(block, merge)
  /\ \A i \in Orders : \A a : UsedAt(new, a, i) <=> UsedAt(h, a, i) /\ a # block
  /\ Known(new)

(* How far it merges them.                                                 *)
Mergeable(h, block, order, merge) ==
  /\ \A i \in Orders : order <= i /\ i < merge => FreeAt(h, MergeBuddy(block, i), i)
  /\ merge < TopOrder => ~FreeAt(h, MergeBuddy(block, merge), merge)

(* The blocks that become one.                                             *)
Part(block, order, merge, a, i) ==
  (a = block /\ i = order) \/ (order <= i /\ i < merge /\ a = MergeBuddy(block, i))

LEMMA MergedAtOwnOrder ==
  ASSUME NEW o \in Nat, NEW block, Aligned(block, o)
  PROVE  MergedAt(block, o) = block
<1>1. block \in Nat /\ Size[o] \in Nat /\ Size[o] > 0
  BY AlignedAddress, Sizes
<1>2. Aligned(MergedAt(block, o), o) /\ Within(block, MergedAt(block, o), o)
  BY <1>1, MergedHolds
<1>3. Within(block, block, o)
  BY <1>1 DEF Within
<1> QED
  BY <1>1, <1>2, <1>3, SameBlock

(* Up to each order they fill what the block has become.                   *)
InsideWhole(block, order, m) ==
  \A i \in Nat : \A a : Part(block, order, m, a, i) =>
      /\ Aligned(a, i) /\ MergedAt(block, m) <= a
      /\ a + Size[i] <= MergedAt(block, m) + Size[m]
FillWhole(block, order, m) ==
  \A x \in Nat : Within(x, MergedAt(block, m), m) =>
      \E i \in Nat : \E a : i <= m /\ Part(block, order, m, a, i) /\ Within(x, a, i)

LEMMA PartsFill ==
  ASSUME NEW order \in Nat, NEW block, Aligned(block, order),
         NEW merge \in Nat, order <= merge
  PROVE  InsideWhole(block, order, merge) /\ FillWhole(block, order, merge)
<1> DEFINE bad == {m \in Nat : order <= m /\ ~(InsideWhole(block, order, m) /\ FillWhole(block, order, m))}
<1> SUFFICES ASSUME bad # {} PROVE FALSE
  OBVIOUS
<1>1. PICK m \in bad : \A n \in bad : m <= n
  BY LeastNatural
<1>2. block \in Nat /\ Size[order] \in Nat /\ MergedAt(block, order) = block
  BY AlignedAddress, Sizes, MergedAtOwnOrder
<1>3. CASE m = order
  <2>1. \A i \in Nat : \A a : Part(block, order, m, a, i) <=> a = block /\ i = order
    BY <1>3 DEF Part
  <2>2. InsideWhole(block, order, m)
    BY <1>2, <1>3, <2>1 DEF InsideWhole
  <2>3. FillWhole(block, order, m)
    BY <1>2, <1>3, <2>1 DEF FillWhole
  <2> QED
    BY <1>1, <2>2, <2>3
<1>4. CASE m # order
  <2> DEFINE n == m - 1
             a0 == MergedAt(block, n)
             b0 == MergeBuddy(block, n)
             w0 == MergedAt(block, m)
  <2>1. n \in Nat /\ order <= n /\ m = n + 1 /\ n \notin bad
    BY <1>1, <1>4
  <2>2. InsideWhole(block, order, n) /\ FillWhole(block, order, n)
    BY <2>1
  <2>3. Aligned(w0, m) /\ Halves(w0, a0, b0, n)
    BY <1>2, <2>1, Merges DEF MergeBuddy
  <2>4. Aligned(a0, n)
    BY <1>2, <2>1, MergedHolds
  <2>5. Aligned(b0, n)
    BY <2>1, <2>4, BuddyOf DEF MergeBuddy
  <2>6. /\ a0 \in Nat /\ b0 \in Nat /\ w0 \in Nat
        /\ Size[n] \in Nat /\ Size[m] = 2 * Size[n]
    BY <1>1, <2>1, <2>3, <2>4, <2>5, AlignedAddress, Sizes
  <2>7. \A i \in Nat : \A a : Part(block, order, m, a, i) <=>
            Part(block, order, n, a, i) \/ (i = n /\ a = b0)
    <3>1. \A i \in Nat : i < m <=> i < n \/ i = n
      BY <2>1
    <3> QED
      BY <2>1, <3>1 DEF Part
  <2> HIDE DEF n, b0
  <2>8. ASSUME NEW i \in Nat, NEW a, Part(block, order, m, a, i)
        PROVE  Aligned(a, i) /\ w0 <= a /\ a + Size[i] <= w0 + Size[m]
    <3>1. CASE Part(block, order, n, a, i)
      <4>1. Aligned(a, i) /\ a0 <= a /\ a + Size[i] <= a0 + Size[n]
        BY <2>2, <3>1 DEF InsideWhole
      <4>2. a \in Nat /\ Size[i] \in Nat
        BY <4>1, AlignedAddress, Sizes
      <4> HIDE DEF a0, w0
      <4> QED
        BY <2>3, <2>6, <4>1, <4>2 DEF Halves
    <3>2. CASE i = n /\ a = b0
      <4> HIDE DEF a0, w0
      <4> QED
        BY <2>3, <2>5, <2>6, <3>2 DEF Halves
    <3> QED
      BY <2>7, <2>8, <3>1, <3>2
  <2>9. InsideWhole(block, order, m)
    BY <2>8 DEF InsideWhole
  <2>10. ASSUME NEW x \in Nat, Within(x, w0, m)
         PROVE  \E i \in Nat : \E a : i <= m /\ Part(block, order, m, a, i) /\ Within(x, a, i)
    <3>1. Within(x, a0, n) \/ Within(x, b0, n)
      <4> HIDE DEF a0, w0
      <4> QED
        BY <2>3, <2>6, <2>10 DEF Halves, Within
    <3>2. CASE Within(x, a0, n)
      <4>1. PICK i \in Nat : \E a : i <= n /\ Part(block, order, n, a, i) /\ Within(x, a, i)
        BY <2>2, <3>2 DEF FillWhole
      <4>2. PICK a : i <= n /\ Part(block, order, n, a, i) /\ Within(x, a, i)
        BY <4>1
      <4>3. i <= m /\ Part(block, order, m, a, i)
        BY <2>1, <2>7, <4>2
      <4> QED
        BY <4>2, <4>3
    <3>3. CASE Within(x, b0, n)
      <4>1. n \in Nat /\ n <= m /\ Part(block, order, m, b0, n)
        BY <2>1, <2>7
      <4> QED
        BY <3>3, <4>1
    <3> QED
      BY <3>1, <3>2, <3>3
  <2>11. FillWhole(block, order, m)
    BY <2>10 DEF FillWhole
  <2> QED
    BY <1>1, <2>9, <2>11
<1> QED
  BY <1>3, <1>4

(* What the block becomes lies in the heap.                                *)
LEMMA WholeInside ==
  ASSUME NEW h, Tiling(h), NEW order \in Orders, NEW block, BlockAt(h, block, order),
         NEW m \in Orders
  PROVE  /\ Aligned(MergedAt(block, m), m) /\ Within(block, MergedAt(block, m), m)
         /\ MergedAt(block, m) + Size[m] <= END
<1>1. TopOrder \in Nat /\ m \in Nat /\ m <= TopOrder
  BY Largest DEF Orders
<1>2. block \in Nat /\ block + Size[order] <= END /\ Size[order] \in Nat /\ Size[order] > HEADER /\ HEADER \in Nat
  BY WithinItself DEF Tiling
<1>3. Aligned(MergedAt(block, m), m) /\ Within(block, MergedAt(block, m), m)
  BY <1>1, <1>2, MergedHolds
<1>4. Size[TopOrder] = END /\ END \in Nat /\ Size[m] \in Nat /\ MergedAt(block, m) \in Nat
  BY <1>1, <1>3, Sizes, AlignedAddress DEF END
<1>5. Aligned(0, TopOrder)
  <2>1. 0 = 0 * Size[TopOrder]
    BY <1>4
  <2> QED
    BY <2>1 DEF Aligned
<1>6. Within(block, 0, TopOrder)
  BY <1>2, <1>4 DEF Within
<1>7. MergedAt(block, m) + Size[m] <= 0 + Size[TopOrder]
  BY <1>1, <1>2, <1>3, <1>5, <1>6, Nested
<1> QED
  BY <1>3, <1>4, <1>7

(* Where free looks for a buddy in the heap a block begins.                *)
LEMMA BuddyBegins ==
  ASSUME NEW h, Tiling(h), NEW order \in Orders, NEW block, BlockAt(h, block, order),
         NEW i \in Orders, order <= i, i < TopOrder
  PROVE  /\ MergeBuddy(block, i) \in DOMAIN h
         /\ MergeBuddy(block, i) \in Nat /\ MergeBuddy(block, i) < END
<1> DEFINE a == MergedAt(block, i)
           b == MergeBuddy(block, i)
           w == MergedAt(block, i + 1)
<1>1. TopOrder \in Nat /\ i \in Nat /\ order \in Nat /\ i + 1 \in Nat /\ i + 1 \in Orders
  BY Largest DEF Orders
<1>2. block \in Nat /\ Within(block, block, order)
  BY WithinItself DEF Tiling
<1>3. Aligned(w, i + 1) /\ Within(block, w, i + 1) /\ w + Size[i + 1] <= END
  BY <1>1, WholeInside
<1>4. Halves(w, a, b, i)
  BY <1>1, <1>2, Merges DEF MergeBuddy
<1>5. Aligned(a, i)
  BY <1>1, <1>2, MergedHolds
<1>6. Aligned(b, i)
  BY <1>1, <1>5, BuddyOf DEF MergeBuddy
<1> HIDE DEF a, b, w
<1>7. /\ a \in Nat /\ b \in Nat /\ w \in Nat /\ END \in Nat
      /\ Size[i] \in Nat /\ Size[i] > 0 /\ Size[i + 1] = 2 * Size[i]
  BY <1>1, <1>3, <1>5, <1>6, AlignedAddress, Sizes, Largest DEF END
<1>8. Within(b, w, i + 1) /\ Within(b, b, i) /\ b < END
  BY <1>3, <1>4, <1>7 DEF Within, Halves
<1>9. b \in 0..END - 1
  BY <1>7, <1>8
<1>10. PICK k \in Orders : \E c : BlockAt(h, c, k) /\ Within(b, c, k)
  BY <1>9 DEF Tiling, Covered
<1>11. PICK c : BlockAt(h, c, k) /\ Within(b, c, k)
  BY <1>10
<1>12. k \in Nat /\ Aligned(c, k) /\ c \in Nat /\ Size[k] \in Nat
  BY <1>11, WithinItself DEF Tiling
<1>13. CASE k <= i
  <2>1. b <= c
    BY <1>1, <1>6, <1>7, <1>8, <1>11, <1>12, <1>13, Nested
  <2>2. b = c
    BY <1>7, <1>11, <1>12, <2>1 DEF Within
  <2>3. c \in DOMAIN h
    BY <1>11 DEF BlockAt, FreeAt, UsedAt
  <2> QED
    BY <1>7, <1>8, <2>2, <2>3 DEF b
<1>14. CASE ~(k <= i)
  <2>1. i + 1 <= k
    BY <1>1, <1>12, <1>14
  <2>2. c <= w /\ w + Size[i + 1] <= c + Size[k]
    BY <1>1, <1>3, <1>7, <1>8, <1>11, <1>12, <2>1, Nested
  <2>3. Within(block, c, k)
    BY <1>2, <1>3, <1>7, <1>12, <2>2 DEF Within
  <2>4. c = block
    BY <1>2, <1>11, <2>3 DEF Tiling, Separate
  <2>5. k = order
    BY <1>1, <1>11, <1>12, <2>4, OneOrder
  <2> QED
    BY <1>1, <1>14, <2>5
<1> QED
  BY <1>13, <1>14

-----------------------------------------------------------------------------
LEMMA PartsAreBlocks ==
  ASSUME NEW h, NEW order \in Orders, NEW block, UsedAt(h, block, order),
         NEW merge, Mergeable(h, block, order, merge),
         NEW i \in Orders, NEW a, Part(block, order, merge, a, i)
  PROVE  BlockAt(h, a, i) /\ (a # block => FreeAt(h, a, i))
<1>1. CASE a = block /\ i = order
  BY <1>1 DEF BlockAt
<1>2. CASE order <= i /\ i < merge /\ a = MergeBuddy(block, i)
  BY <1>2 DEF BlockAt, Mergeable
<1> QED
  BY <1>1, <1>2 DEF Part

(* A block that shares a byte with what they become is one of them.        *)
LEMMA WholeIsParts ==
  ASSUME NEW h, Tiling(h), NEW order \in Orders, NEW block, UsedAt(h, block, order),
         NEW merge \in Orders, order <= merge, Mergeable(h, block, order, merge),
         NEW i \in Orders, NEW a, BlockAt(h, a, i),
         NEW x \in Nat, Within(x, a, i), Within(x, MergedAt(block, merge), merge)
  PROVE  Part(block, order, merge, a, i)
<1>1. TopOrder \in Nat /\ merge \in Nat /\ order \in Nat /\ i \in Nat
  BY Largest
<1>2. BlockAt(h, block, order)
  BY DEF BlockAt
<1>3. FillWhole(block, order, merge)
  <2>1. Aligned(block, order)
    BY <1>2, WithinItself DEF Tiling
  <2> QED
    BY <1>1, <2>1, PartsFill
<1>4. PICK k \in Nat : \E c : k <= merge /\ Part(block, order, merge, c, k) /\ Within(x, c, k)
  BY <1>3 DEF FillWhole
<1>5. PICK c : k <= merge /\ Part(block, order, merge, c, k) /\ Within(x, c, k)
  BY <1>4
<1>6. k \in Orders
  BY <1>1, <1>5 DEF Orders
<1>7. BlockAt(h, c, k)
  BY <1>5, <1>6, PartsAreBlocks
<1>8. c = a
  BY <1>5, <1>6, <1>7 DEF Tiling, Separate
<1>9. k = i
  BY <1>1, <1>7, <1>8, OneOrder
<1> QED
  BY <1>5, <1>8, <1>9

LEMMA MergeTiles ==
  ASSUME NEW h, NEW new, Tiling(h), NEW order \in Orders, NEW block, UsedAt(h, block, order),
         NEW merge \in Orders, order <= merge, Mergeable(h, block, order, merge),
         Gave(h, new, block, order, merge)
  PROVE  Tiling(new)
<1> DEFINE whole == MergedAt(block, merge)
<1>1. /\ TopOrder \in Nat /\ merge \in Nat /\ order \in Nat /\ Orders \subseteq Nat
      /\ END \in Nat /\ BlockAt(h, block, order)
  BY Largest DEF END, BlockAt
<1>2. Aligned(whole, merge) /\ whole + Size[merge] <= END
  BY <1>1, WholeInside
<1>3. InsideWhole(block, order, merge)
  <2>1. Aligned(block, order)
    BY <1>1, WithinItself DEF Tiling
  <2> QED
    BY <1>1, <2>1, PartsFill
<1>4. ASSUME NEW i \in Orders, NEW a
      PROVE  BlockAt(new, a, i) <=>
                (BlockAt(h, a, i) /\ ~Part(block, order, merge, a, i)) \/ (i = merge /\ a = whole)
  <2>1. FreeAt(h, a, i) => ~(a = block /\ i = order)
    BY <1>1, OneOrder DEF BlockAt
  <2>2. UsedAt(h, a, i) => ~(order <= i /\ i < merge /\ a = MergeBuddy(block, i))
    <3> SUFFICES ASSUME UsedAt(h, a, i), order <= i, i < merge, a = MergeBuddy(block, i)
                 PROVE FALSE
      OBVIOUS
    <3>1. FreeAt(h, a, i)
      BY DEF Mergeable
    <3> QED
      BY <1>1, <3>1, OneOrder DEF BlockAt
  <2>3. UsedAt(h, a, i) /\ a = block => i = order
    BY <1>1, OneOrder DEF BlockAt
  <2> QED
    BY <2>1, <2>2, <2>3 DEF Gave, BlockAt, Part
<1> HIDE DEF whole
<1>5. Aligns(new)
  BY <1>2, <1>4 DEF Tiling, Aligns
<1>6. Covered(new)
  <2> SUFFICES ASSUME NEW x \in 0..END - 1
               PROVE  \E i \in Orders : \E a : BlockAt(new, a, i) /\ Within(x, a, i)
    BY DEF Covered
  <2>1. x \in Nat
    BY <1>1
  <2>2. PICK i \in Orders : \E a : BlockAt(h, a, i) /\ Within(x, a, i)
    BY DEF Tiling, Covered
  <2>3. PICK a : BlockAt(h, a, i) /\ Within(x, a, i)
    BY <2>2
  <2>4. CASE ~Part(block, order, merge, a, i)
    BY <1>4, <2>3, <2>4
  <2>5. CASE Part(block, order, merge, a, i)
    <3>1. i \in Nat /\ Aligned(a, i) /\ whole <= a /\ a + Size[i] <= whole + Size[merge]
      BY <1>1, <1>3, <2>5 DEF InsideWhole, whole
    <3>2. a \in Nat /\ whole \in Nat /\ Size[i] \in Nat /\ Size[merge] \in Nat
      BY <1>1, <1>2, <3>1, AlignedAddress, Sizes
    <3>3. Within(x, whole, merge)
      BY <2>1, <2>3, <3>1, <3>2 DEF Within
    <3>4. BlockAt(new, whole, merge)
      BY <1>4
    <3> QED
      BY <3>3, <3>4
  <2> QED
    BY <2>4, <2>5
<1>7. ASSUME NEW x \in Nat, NEW i \in Orders, NEW a, BlockAt(h, a, i), Within(x, a, i),
             Within(x, whole, merge)
      PROVE  Part(block, order, merge, a, i)
  BY <1>7, WholeIsParts DEF whole
<1>8. Separate(new)
  <2> SUFFICES ASSUME NEW x \in Nat, NEW i \in Orders, NEW j \in Orders, NEW a, NEW b,
                      BlockAt(new, a, i), BlockAt(new, b, j), Within(x, a, i), Within(x, b, j)
               PROVE  a = b
    BY DEF Separate
  <2>1. BlockAt(h, a, i) /\ BlockAt(h, b, j) => a = b
    BY DEF Tiling, Separate
  <2>2. (BlockAt(h, a, i) /\ ~Part(block, order, merge, a, i)) \/ (i = merge /\ a = whole)
    BY <1>4
  <2>3. (BlockAt(h, b, j) /\ ~Part(block, order, merge, b, j)) \/ (j = merge /\ b = whole)
    BY <1>4
  <2> QED
    BY <1>7, <2>1, <2>2, <2>3
<1> QED
  BY <1>5, <1>6, <1>8 DEF Tiling, Gave

LEMMA MergeMerged ==
  ASSUME NEW h, NEW new, Tiling(h), Merged(h), NEW order \in Orders, NEW block,
         UsedAt(h, block, order),
         NEW merge \in Orders, order <= merge, Mergeable(h, block, order, merge),
         Gave(h, new, block, order, merge)
  PROVE  Merged(new)
<1> DEFINE whole == MergedAt(block, merge)
<1>1. Orders \subseteq Nat /\ merge \in Nat /\ BlockAt(h, block, order)
  BY Largest DEF BlockAt
<1>2. Aligned(whole, merge)
  BY <1>1, WholeInside
<1>3. get_buddy(whole, Size[merge]) = MergeBuddy(block, merge)
  BY DEF MergeBuddy
<1>4. ASSUME NEW i \in Orders, i < TopOrder, NEW a, FreeAt(new, a, i),
             FreeAt(new, get_buddy(a, Size[i]), i)
      PROVE  FALSE
  <2> DEFINE b == get_buddy(a, Size[i])
  <2>1. (FreeAt(h, a, i) /\ ~(order <= i /\ i < merge /\ a = MergeBuddy(block, i)))
        \/ (i = merge /\ a = whole)
    BY <1>4 DEF Gave
  <2>2. (FreeAt(h, b, i) /\ ~(order <= i /\ i < merge /\ b = MergeBuddy(block, i)))
        \/ (i = merge /\ b = whole)
    BY <1>4 DEF Gave
  <2>3. i \in Nat /\ Aligned(a, i)
    <3>1. CASE FreeAt(h, a, i)
      <4>1. BlockAt(h, a, i)
        BY <3>1 DEF BlockAt
      <4> QED
        BY <4>1, WithinItself DEF Tiling
    <3>2. CASE i = merge /\ a = whole
      BY <1>1, <1>2, <3>2
    <3> QED
      BY <2>1, <3>1, <3>2
  <2>4. PICK w : Aligned(w, i + 1) /\ Halves(w, a, b, i)
    BY <2>3, BuddyOf
  <2>5. get_buddy(b, Size[i]) = a
    <3>1. Halves(w, b, a, i)
      BY <2>4 DEF Halves
    <3> QED
      BY <2>3, <2>4, <3>1, BuddyOfBuddy
  <2>6. a # b
    <3>1. w \in Nat /\ Size[i] \in Nat /\ Size[i] > 0
      BY <2>3, <2>4, AlignedAddress, Sizes
    <3> HIDE DEF b
    <3> QED
      BY <2>4, <3>1 DEF Halves
  <2>7. ~(FreeAt(h, a, i) /\ FreeAt(h, b, i))
    BY <1>4 DEF Merged
  <2>8. i = merge => ~FreeAt(h, MergeBuddy(block, merge), merge)
    BY <1>4 DEF Mergeable
  <2>9. i = merge /\ a = whole => b = MergeBuddy(block, merge)
    BY <1>3
  <2>10. i = merge /\ b = whole => a = MergeBuddy(block, merge)
    BY <1>3, <2>5
  <2> HIDE DEF b, whole
  <2> QED
    BY <2>1, <2>2, <2>6, <2>7, <2>8, <2>9, <2>10
<1> QED
  BY <1>4 DEF Merged

-----------------------------------------------------------------------------
(* The headers that malloc and free write.                                 *)
SplitHeaders(h, block, o, order) ==
  LET halves == {block + Size[i] : i \in order..o - 1}
      HalfOrder(a) == CHOOSE i \in order..o - 1 : a = block + Size[i]
  IN  [a \in DOMAIN h \cup halves |->
          IF a = block THEN [size |-> Size[order], is_free |-> FALSE]
          ELSE IF a \in halves THEN FreeHeader(Size[HalfOrder(a)]) ELSE h[a]]

LEMMA MallocHeaders ==
  ASSUME NEW h, Tiling(h), NEW o \in Orders, NEW order \in Orders, order <= o,
         NEW block, FreeAt(h, block, o),
         NEW new, new = SplitHeaders(h, block, o, order)
  PROVE  Took(h, new, block, o, order)
<1> DEFINE halves == {block + Size[i] : i \in order..o - 1}
<1> DEFINE HalfOrder(a) == CHOOSE i \in order..o - 1 : a = block + Size[i]
<1>1. TopOrder \in Nat /\ o \in Nat /\ order \in Nat /\ Orders \subseteq Nat /\ BlockAt(h, block, o)
  BY Largest DEF BlockAt
<1>2. block \in Nat /\ Size[o] \in Nat /\ block \in DOMAIN h
  BY <1>1, WithinItself DEF Tiling, FreeAt
<1>3. ASSUME NEW i \in order..o - 1
      PROVE  /\ i \in Orders /\ i \in Nat /\ order <= i /\ i < o
             /\ block + Size[i] # block /\ block + Size[i] \notin DOMAIN h
             /\ HalfOrder(block + Size[i]) = i
  <2>1. i \in Orders /\ i \in Nat /\ order <= i /\ i < o
    BY <1>1 DEF Orders
  <2>2. Size[i] \in Nat /\ Size[i] > 0 /\ 2 * Size[i] <= Size[o]
    BY <1>1, <2>1, Sizes, SizesGrow
  <2>3. Within(block + Size[i], block, o) /\ block + Size[i] \in Nat /\ block + Size[i] # block
    BY <1>2, <2>2 DEF Within
  <2>4. ASSUME block + Size[i] \in DOMAIN h PROVE FALSE
    <3>1. PICK k \in Orders : BlockAt(h, block + Size[i], k)
      BY <2>4 DEF Tiling, Known
    <3>2. Within(block + Size[i], block + Size[i], k)
      BY <3>1, WithinItself DEF Tiling
    <3>3. block + Size[i] = block
      BY <1>1, <2>3, <3>1, <3>2 DEF Tiling, Separate
    <3> QED
      BY <2>3, <3>3
  <2>5. ASSUME NEW k \in order..o - 1, block + Size[i] = block + Size[k] PROVE k = i
    <3>1. k \in Nat /\ Size[k] \in Nat
      BY <1>1, Sizes
    <3>2. Size[k] = Size[i]
      BY <1>2, <2>2, <2>5, <3>1
    <3> QED
      BY <2>1, <3>1, <3>2, SizesDiffer
  <2>6. HalfOrder(block + Size[i]) = i
    BY <2>5
  <2> QED
    BY <2>1, <2>3, <2>4, <2>6
<1> HIDE DEF HalfOrder
<1>4. /\ DOMAIN new = DOMAIN h \cup halves
      /\ new[block] = UsedHeader(Size[order])
      /\ \A i \in order..o - 1 : new[block + Size[i]] = FreeHeader(Size[i])
      /\ \A a \in DOMAIN h : a # block /\ a \notin halves => new[a] = h[a]
  <2>1. new = [a \in DOMAIN h \cup halves |->
                  IF a = block THEN UsedHeader(Size[order])
                  ELSE IF a \in halves THEN FreeHeader(Size[HalfOrder(a)]) ELSE h[a]]
    BY Zenon DEF HalfOrder, UsedHeader, SplitHeaders
  <2>2. \A i \in order..o - 1 : block + Size[i] \in halves
    OBVIOUS
  <2>3. \A a \in DOMAIN h \cup halves : new[a] =
            IF a = block THEN UsedHeader(Size[order])
            ELSE IF a \in halves THEN FreeHeader(Size[HalfOrder(a)]) ELSE h[a]
    BY <2>1, Zenon
  <2>4. DOMAIN new = DOMAIN h \cup halves
    BY <2>1, Zenon
  <2>5. \A i \in order..o - 1 : new[block + Size[i]] = FreeHeader(Size[i])
    <3> TAKE i \in order..o - 1
    <3>1. block + Size[i] # block /\ HalfOrder(block + Size[i]) = i
      BY <1>3
    <3> QED
      BY <2>2, <2>3, <3>1
  <2> QED
    BY <1>2, <2>3, <2>4, <2>5
<1>5. \A a \in halves : a # block /\ a \notin DOMAIN h
  BY <1>3
<1>6. \A a \in DOMAIN new : a = block \/ (a \in DOMAIN h /\ a # block /\ a \notin halves)
                            \/ \E i \in order..o - 1 : a = block + Size[i]
  BY <1>4
<1>7. ASSUME NEW i \in Orders, NEW a, FreeAt(new, a, i)
      PROVE  (FreeAt(h, a, i) /\ a # block) \/ (order <= i /\ i < o /\ a = block + Size[i])
  <2>1. a \in DOMAIN new /\ new[a] = FreeHeader(Size[i])
    BY <1>7 DEF FreeAt
  <2>2. a # block
    BY <1>4, <2>1, HeadersDiffer
  <2>3. CASE \E k \in order..o - 1 : a = block + Size[k]
    <3>1. PICK k \in order..o - 1 : a = block + Size[k]
      BY <2>3
    <3>2. Size[k] = Size[i]
      BY <1>4, <2>1, <3>1, HeadersDiffer
    <3>3. k = i
      BY <1>1, <1>3, <3>2, SizesDiffer
    <3> QED
      BY <1>3, <3>1, <3>3
  <2>4. CASE a \in DOMAIN h /\ a # block /\ a \notin halves
    BY <1>4, <2>1, <2>4 DEF FreeAt
  <2> QED
    BY <1>6, <2>1, <2>2, <2>3, <2>4
<1>8. ASSUME NEW i \in Orders, NEW a, FreeAt(h, a, i), a # block PROVE FreeAt(new, a, i)
  BY <1>4, <1>5, <1>8 DEF FreeAt
<1>9. ASSUME NEW i \in Orders, order <= i, i < o PROVE FreeAt(new, block + Size[i], i)
  <2>1. i \in order..o - 1
    BY <1>1, <1>9
  <2> QED
    BY <1>4, <2>1 DEF FreeAt
<1>10. ASSUME NEW i \in Orders, NEW a, UsedAt(new, a, i)
       PROVE  UsedAt(h, a, i) \/ (a = block /\ i = order)
  <2>1. a \in DOMAIN new /\ new[a] = UsedHeader(Size[i])
    BY <1>10 DEF UsedAt
  <2>2. CASE a = block
    <3>1. Size[i] = Size[order]
      BY <1>4, <2>1, <2>2, HeadersDiffer
    <3> QED
      BY <1>1, <2>2, <3>1, SizesDiffer
  <2>3. ~\E k \in order..o - 1 : a = block + Size[k]
    BY <1>4, <2>1, HeadersDiffer
  <2>4. CASE a \in DOMAIN h /\ a # block /\ a \notin halves
    BY <1>4, <2>1, <2>4 DEF UsedAt
  <2> QED
    BY <1>6, <2>1, <2>2, <2>3, <2>4
<1>11. ASSUME NEW i \in Orders, NEW a, UsedAt(h, a, i) PROVE UsedAt(new, a, i)
  <2>1. a # block
    <3> SUFFICES ASSUME a = block PROVE FALSE
      OBVIOUS
    <3>1. BlockAt(h, block, i)
      BY <1>11 DEF BlockAt
    <3> QED
      BY <1>1, <1>11, <3>1, OneOrder
  <2> QED
    BY <1>4, <1>5, <1>11, <2>1 DEF UsedAt
<1>12. UsedAt(new, block, order)
  BY <1>2, <1>4 DEF UsedAt
<1>13. Known(new)
  <2> SUFFICES ASSUME NEW a \in DOMAIN new PROVE \E i \in Orders : BlockAt(new, a, i)
    BY DEF Known
  <2>1. CASE a = block
    BY <1>12, <2>1 DEF BlockAt
  <2>2. CASE \E k \in order..o - 1 : a = block + Size[k]
    BY <1>3, <1>9, <2>2 DEF BlockAt
  <2>3. CASE a \in DOMAIN h /\ a # block
    <3>1. PICK i \in Orders : FreeAt(h, a, i) \/ UsedAt(h, a, i)
      BY <2>3 DEF Tiling, Known, BlockAt
    <3> QED
      BY <1>8, <1>11, <2>3, <3>1 DEF BlockAt
  <2> QED
    BY <1>6, <2>1, <2>2, <2>3
<1> QED
  BY <1>7, <1>8, <1>9, <1>10, <1>11, <1>12, <1>13 DEF Took

JoinHeaders(h, block, order, merge) ==
  LET gone  == {block} \cup {MergeBuddy(block, i) : i \in order..merge - 1}
      whole == MergedAt(block, merge)
  IN  [a \in (DOMAIN h \ gone) \cup {whole} |->
          IF a = whole THEN FreeHeader(Size[merge]) ELSE h[a]]

LEMMA FreeHeaders ==
  ASSUME NEW h, Tiling(h), NEW order \in Orders, NEW block, UsedAt(h, block, order),
         NEW merge \in Orders, order <= merge, Mergeable(h, block, order, merge),
         NEW new, new = JoinHeaders(h, block, order, merge)
  PROVE  Gave(h, new, block, order, merge)
<1> DEFINE gone  == {block} \cup {MergeBuddy(block, i) : i \in order..merge - 1}
           whole == MergedAt(block, merge)
<1>1. /\ TopOrder \in Nat /\ merge \in Nat /\ order \in Nat /\ Orders \subseteq Nat
      /\ BlockAt(h, block, order)
  BY Largest DEF BlockAt
<1>2. /\ DOMAIN new = (DOMAIN h \ gone) \cup {whole} /\ new[whole] = FreeHeader(Size[merge])
      /\ \A a \in DOMAIN h : a \notin gone /\ a # whole => new[a] = h[a]
  <2>0. new = [a \in (DOMAIN h \ gone) \cup {whole} |->
                  IF a = whole THEN FreeHeader(Size[merge]) ELSE h[a]]
    BY Zenon DEF JoinHeaders
  <2> HIDE DEF gone, whole
  <2>1. DOMAIN new = (DOMAIN h \ gone) \cup {whole}
    BY <2>0, Zenon
  <2>2. \A a \in (DOMAIN h \ gone) \cup {whole} :
            new[a] = IF a = whole THEN FreeHeader(Size[merge]) ELSE h[a]
    BY <2>0, Zenon
  <2> QED
    BY <2>1, <2>2
<1>3. ASSUME NEW i \in order..merge - 1
      PROVE  i \in Orders /\ i \in Nat /\ order <= i /\ i < merge /\ FreeAt(h, MergeBuddy(block, i), i)
  <2>1. i \in Orders /\ i \in Nat /\ order <= i /\ i < merge
    BY <1>1 DEF Orders
  <2> QED
    BY <2>1 DEF Mergeable
<1>4. ASSUME NEW i \in Orders, NEW a, FreeAt(h, a, i)
      PROVE  a \in gone <=> (order <= i /\ i < merge /\ a = MergeBuddy(block, i))
  <2>1. BlockAt(h, a, i) /\ i \in Nat
    BY <1>1, <1>4 DEF BlockAt
  <2>2. a # block
    BY <1>1, <1>4, <2>1, OneOrder
  <2>3. ASSUME NEW k \in order..merge - 1, a = MergeBuddy(block, k) PROVE k = i
    <3>1. BlockAt(h, a, k) /\ k \in Nat
      BY <1>3, <2>3 DEF BlockAt
    <3> QED
      BY <2>1, <3>1, OneOrder
  <2>4. \A k \in order..merge - 1 : order <= k /\ k < merge
    BY <1>3
  <2>5. order <= i /\ i < merge => i \in order..merge - 1
    BY <1>1, <2>1
  <2> QED
    BY <2>2, <2>3, <2>4, <2>5
<1>5. ASSUME NEW i \in Orders, NEW a, UsedAt(h, a, i)
      PROVE  a \in gone <=> a = block
  <2>1. BlockAt(h, a, i) /\ i \in Nat
    BY <1>1, <1>5 DEF BlockAt
  <2>2. ASSUME NEW k \in order..merge - 1, a = MergeBuddy(block, k) PROVE FALSE
    <3>1. FreeAt(h, a, k) /\ BlockAt(h, a, k) /\ k \in Nat
      BY <1>3, <2>2 DEF BlockAt
    <3> QED
      BY <1>5, <2>1, <3>1, OneOrder
  <2> QED
    BY <2>2
<1>6. ASSUME NEW i \in Orders, BlockAt(h, whole, i) PROVE whole \in gone
  <2>1. Within(whole, whole, i) /\ whole \in Nat
    BY <1>6, WithinItself DEF Tiling
  <2>2. Within(whole, whole, merge)
    <3>1. Size[merge] \in Nat /\ Size[merge] > 0
      BY <1>1, Sizes
    <3> QED
      BY <2>1, <3>1 DEF Within
  <2>3. Part(block, order, merge, whole, i)
    BY <1>6, <2>1, <2>2, WholeIsParts
  <2>4. i \in Nat /\ (order <= i /\ i < merge => i \in order..merge - 1)
    BY <1>1
  <2> QED
    BY <2>3, <2>4 DEF Part
<1>7. ASSUME NEW i \in Orders, NEW a
      PROVE  FreeAt(new, a, i) <=>
                \/ FreeAt(h, a, i) /\ ~(order <= i /\ i < merge /\ a = MergeBuddy(block, i))
                \/ i = merge /\ a = whole
  <2>1. CASE a = whole
    <3>1. FreeAt(new, a, i) <=> i = merge
      <4>1. FreeHeader(Size[merge]) = FreeHeader(Size[i]) <=> i = merge
        BY <1>1, HeadersDiffer, SizesDiffer
      <4> QED
        BY <1>2, <2>1, <4>1 DEF FreeAt
    <3>2. FreeAt(h, a, i) => a \in gone
      BY <1>6, <2>1 DEF BlockAt
    <3> QED
      BY <1>4, <2>1, <3>1, <3>2
  <2>2. CASE a # whole
    <3>1. FreeAt(new, a, i) <=> FreeAt(h, a, i) /\ a \notin gone
      BY <1>2, <2>2 DEF FreeAt
    <3> QED
      BY <1>4, <2>2, <3>1
  <2> QED
    BY <2>1, <2>2
<1>8. ASSUME NEW i \in Orders, NEW a
      PROVE  UsedAt(new, a, i) <=> UsedAt(h, a, i) /\ a # block
  <2>1. CASE a = whole
    <3>1. ~UsedAt(new, a, i)
      BY <1>2, <2>1, HeadersDiffer DEF UsedAt
    <3>2. UsedAt(h, a, i) => a \in gone
      BY <1>6, <2>1 DEF BlockAt
    <3> QED
      BY <1>5, <3>1, <3>2
  <2>2. CASE a # whole
    <3>1. UsedAt(new, a, i) <=> UsedAt(h, a, i) /\ a \notin gone
      BY <1>2, <2>2 DEF UsedAt
    <3> QED
      BY <1>5, <3>1
  <2> QED
    BY <2>1, <2>2
<1>9. Known(new)
  <2> SUFFICES ASSUME NEW a \in DOMAIN new PROVE \E i \in Orders : BlockAt(new, a, i)
    BY DEF Known
  <2>1. CASE a = whole
    BY <1>7, <2>1 DEF BlockAt
  <2>2. CASE a # whole
    <3>1. a \in DOMAIN h /\ a \notin gone
      BY <1>2, <2>2
    <3>2. PICK i \in Orders : FreeAt(h, a, i) \/ UsedAt(h, a, i)
      BY <3>1 DEF Tiling, Known, BlockAt
    <3> QED
      BY <1>4, <1>5, <1>7, <1>8, <3>1, <3>2 DEF BlockAt
  <2> QED
    BY <2>1, <2>2
<1> QED
  BY <1>7, <1>8, <1>9 DEF Gave

-----------------------------------------------------------------------------
(* How far free merges a block.                                            *)
LEMMA MergeStops ==
  ASSUME Tiling(header), NEW order \in Orders, NEW block, BlockAt(header, block, order),
         NEW merge, merge = MergeOrder(block, order)
  PROVE  /\ merge \in Nat /\ order <= merge /\ merge <= TopOrder + 1
         /\ merge <= TopOrder => Mergeable(header, block, order, merge)
         /\ merge > TopOrder => BuddyIsFree(block, TopOrder)
<1> DEFINE good == {m \in order..TopOrder + 1 : \A i \in order..m - 1 : BuddyIsFree(block, i)}
<1>1. /\ TopOrder \in Nat /\ order \in Nat /\ order <= TopOrder
      /\ BUDDY_TOTAL \in Nat /\ END <= BUDDY_TOTAL
  BY Largest DEF Orders, END
<1>2. merge \in good /\ \A m \in good : m <= merge
  <2>1. order \in good
    BY <1>1
  <2>2. good \subseteq 0..TopOrder + 1 /\ TopOrder + 1 \in Nat
    BY <1>1
  <2>3. merge = Max(good)
    BY DEF MergeOrder
  <2> HIDE DEF good
  <2> QED
    BY <2>1, <2>2, <2>3, MaxOfNaturals
<1>3. merge \in Nat /\ order <= merge /\ merge <= TopOrder + 1
  BY <1>1, <1>2
<1>4. \A i \in Orders : order <= i /\ i < merge => BuddyIsFree(block, i)
  BY <1>1, <1>2, <1>3 DEF Orders
<1>5. ASSUME merge <= TopOrder PROVE ~BuddyIsFree(block, merge)
  <2>1. merge + 1 \in order..TopOrder + 1 /\ merge + 1 \notin good
    BY <1>1, <1>2, <1>3, <1>5
  <2>2. \A i \in order..(merge + 1) - 1 : i = merge \/ i \in order..merge - 1
    BY <1>1, <1>3
  <2> QED
    BY <1>2, <2>1, <2>2
<1>6. ASSUME NEW i \in Orders, order <= i, i < TopOrder
      PROVE  BuddyIsFree(block, i) <=> FreeAt(header, MergeBuddy(block, i), i)
  <2> DEFINE b == MergeBuddy(block, i)
  <2>1. b \in DOMAIN header /\ b \in Nat /\ b < END /\ END \in Nat
    BY <1>6, BuddyBegins, Largest DEF END
  <2>2. BuddyIsFree(block, i) <=>
          InManaged(b) /\ IF b >= Size[TopOrder] THEN beyond ELSE header[b] = FreeHeader(Size[i])
    BY DEF BuddyIsFree, MergeBuddy
  <2> HIDE DEF b
  <2>3. InManaged(b) /\ ~(b >= Size[TopOrder])
    BY <1>1, <2>1 DEF InManaged, END
  <2>4. BuddyIsFree(block, i) <=> header[b] = FreeHeader(Size[i])
    BY <2>2, <2>3, Zenon
  <2> QED
    BY <2>1, <2>4 DEF FreeAt, b
<1>7. ASSUME merge <= TopOrder PROVE Mergeable(header, block, order, merge)
  <2>1. ASSUME NEW i \in Orders, order <= i, i < merge PROVE FreeAt(header, MergeBuddy(block, i), i)
    <3>1. i < TopOrder
      BY <1>1, <1>3, <1>7, <2>1 DEF Orders
    <3> QED
      BY <1>4, <1>6, <2>1, <3>1
  <2>2. ASSUME merge < TopOrder PROVE ~FreeAt(header, MergeBuddy(block, merge), merge)
    <3>1. merge \in Orders
      BY <1>1, <1>3, <1>7 DEF Orders
    <3> QED
      BY <1>3, <1>5, <1>6, <1>7, <2>2, <3>1
  <2> QED
    BY <2>1, <2>2 DEF Mergeable
<1>8. ASSUME merge > TopOrder PROVE BuddyIsFree(block, TopOrder)
  <2>1. TopOrder \in Orders /\ order <= TopOrder /\ TopOrder < merge
    BY <1>1, <1>8 DEF Orders
  <2> QED
    BY <1>4, <2>1
<1> QED
  BY <1>3, <1>7, <1>8

-----------------------------------------------------------------------------
(* The lists hold the free blocks, by order.                               *)
FreeOf(h, o) == {a \in DOMAIN h : FreeAt(h, a, o)}

Listed(lists, h) ==
  /\ lists \in [Orders -> Seq(Nat)]
  /\ \A o \in Orders : Holds(lists[o], FreeOf(h, o))

LEMMA MallocLists ==
  ASSUME NEW h, Tiling(h), NEW lists, Listed(lists, h),
         NEW o \in Orders, NEW order \in Orders, order <= o, lists[o] # <<>>,
         NEW block, block = Head(lists[o]),
         NEW new, Took(h, new, block, o, order),
         NEW newLists, newLists = [i \in Orders |->
                           IF i = o THEN Tail(lists[o])
                           ELSE IF i \in order..o - 1 THEN <<block + Size[i]>> \o lists[i]
                           ELSE lists[i]]
  PROVE  Listed(newLists, new)
<1>1. Orders \subseteq Nat /\ o \in Nat /\ order \in Nat
  BY Largest
<1>2. \A i \in Orders : lists[i] \in Seq(Nat) /\ Holds(lists[i], FreeOf(h, i))
  BY DEF Listed
<1>3. block \in FreeOf(h, o) /\ Tail(lists[o]) \in Seq(Nat) /\ Holds(Tail(lists[o]), FreeOf(h, o) \ {block})
  BY <1>2, HeadTaken
<1>4. FreeAt(h, block, o) /\ BlockAt(h, block, o) /\ block \in Nat
  <2>1. FreeAt(h, block, o)
    BY <1>3 DEF FreeOf
  <2>2. BlockAt(h, block, o)
    BY <2>1 DEF BlockAt
  <2> QED
    BY <2>1, <2>2, WithinItself DEF Tiling
<1>5. ASSUME NEW i \in Orders, i # o PROVE ~FreeAt(h, block, i)
  BY <1>1, <1>4, <1>5, OneOrder DEF BlockAt
<1>6. ASSUME NEW i \in Orders
      PROVE  \A a : FreeAt(new, a, i) <=> (FreeAt(h, a, i) /\ a # block)
                                          \/ (order <= i /\ i < o /\ a = block + Size[i])
  BY DEF Took
<1>7. \A i \in Orders : \A a : FreeAt(new, a, i) => a \in DOMAIN new
  BY DEF FreeAt
<1>8. \A i \in Orders : \A a : FreeAt(h, a, i) => a \in DOMAIN h
  BY DEF FreeAt
<1>9. ASSUME NEW i \in Orders PROVE newLists[i] \in Seq(Nat) /\ Holds(newLists[i], FreeOf(new, i))
  <2>1. CASE i = o
    <3>1. FreeOf(new, i) = FreeOf(h, o) \ {block}
      BY <1>1, <1>6, <1>7, <1>8, <2>1 DEF FreeOf
    <3> QED
      BY <1>3, <2>1, <3>1
  <2>2. CASE i \in order..o - 1
    <3>1. i # o /\ order <= i /\ i < o /\ i \in Nat
      BY <1>1, <2>2
    <3>0. newLists[i] = <<block + Size[i]>> \o lists[i]
      BY <2>2, <3>1, Zenon
    <3>2. Size[i] \in Nat /\ block + Size[i] \in Nat /\ Size[i] > 0 /\ 2 * Size[i] <= Size[o] /\ Size[o] \in Nat
      <4>1. i \in Nat /\ o \in Nat /\ i < o
        BY <1>1, <3>1
      <4>2. Size[i] \in Nat /\ Size[o] \in Nat /\ Size[i] > 0
        BY <4>1, Sizes
      <4>3. 2 * Size[i] <= Size[o]
        BY <4>1, SizesGrow
      <4> QED
        BY <1>4, <4>2, <4>3
    <3>3. ~FreeAt(h, block + Size[i], i)
      <4> SUFFICES ASSUME FreeAt(h, block + Size[i], i) PROVE FALSE
        OBVIOUS
      <4>1. BlockAt(h, block + Size[i], i)
        BY DEF BlockAt
      <4>0. block \in Nat /\ Size[i] \in Nat /\ Size[o] \in Nat /\ Size[i] > 0 /\ 2 * Size[i] <= Size[o]
        BY <1>4, <3>2
      <4>2. Within(block + Size[i], block + Size[i], i) /\ Within(block + Size[i], block, o)
        BY ONLY <4>0 DEF Within
      <4>3. block + Size[i] = block
        BY <1>4, <3>2, <4>1, <4>2 DEF Tiling, Separate
      <4> QED
        BY <1>4, <3>2, <4>3
    <3>4. block + Size[i] \notin FreeOf(h, i)
      BY <3>3 DEF FreeOf
    <3>5. FreeOf(new, i) = FreeOf(h, i) \cup {block + Size[i]}
      BY <1>5, <1>6, <1>7, <1>8, <3>1 DEF FreeOf
    <3> DEFINE q == lists[i]
               A == FreeOf(h, i)
               x == block + Size[i]
               r == newLists[i]
    <3>6. q \in Seq(Nat) /\ Holds(q, A) /\ x \in Nat /\ x \notin A /\ r = <<x>> \o q
      BY <1>2, <3>0, <3>2, <3>4
    <3>7. FreeOf(new, i) = A \cup {x}
      BY <3>5
    <3> HIDE DEF q, A, x, r
    <3>8. r \in Seq(Nat) /\ Holds(r, A \cup {x})
      BY ONLY <3>6, Fronting
    <3> QED
      BY <3>7, <3>8 DEF r
  <2>3. CASE i # o /\ i \notin order..o - 1
    <3>1. ~(order <= i /\ i < o) /\ newLists[i] = lists[i]
      BY <1>1, <2>3
    <3>2. FreeOf(new, i) = FreeOf(h, i)
      BY <1>5, <1>6, <1>7, <1>8, <2>3, <3>1 DEF FreeOf
    <3> QED
      BY <1>2, <3>1, <3>2
  <2> QED
    BY <2>1, <2>2, <2>3
<1>10. newLists = [i \in Orders |-> newLists[i]]
  BY Zenon
<1> QED
  BY <1>9, <1>10 DEF Listed

LEMMA FreeLists ==
  ASSUME NEW h, Tiling(h), NEW lists, Listed(lists, h), NEW order \in Orders, NEW block,
         UsedAt(h, block, order),
         NEW merge \in Orders, order <= merge, Mergeable(h, block, order, merge),
         NEW whole, whole = MergedAt(block, merge),
         NEW new, Gave(h, new, block, order, merge),
         NEW newLists, newLists = [i \in Orders |->
                           IF i \in order..merge - 1 THEN Unlinked(lists[i], MergeBuddy(block, i))
                           ELSE IF i = merge THEN <<whole>> \o lists[i] ELSE lists[i]]
  PROVE  Listed(newLists, new)
<1>1. Orders \subseteq Nat /\ merge \in Nat /\ order \in Nat /\ BlockAt(h, block, order)
  BY Largest DEF BlockAt
<1>2. \A i \in Orders : lists[i] \in Seq(Nat) /\ Holds(lists[i], FreeOf(h, i))
  BY DEF Listed
<1>3. whole \in Nat /\ Within(whole, whole, merge)
  <2>1. Aligned(whole, merge)
    BY <1>1, WholeInside
  <2>2. whole \in Nat /\ Size[merge] \in Nat /\ Size[merge] > 0
    BY <1>1, <2>1, AlignedAddress, Sizes
  <2> QED
    BY <2>2 DEF Within
<1>4. ~FreeAt(h, whole, merge)
  <2> SUFFICES ASSUME FreeAt(h, whole, merge) PROVE FALSE
    OBVIOUS
  <2>1. BlockAt(h, whole, merge)
    BY DEF BlockAt
  <2>2. Part(block, order, merge, whole, merge)
    BY <1>3, <2>1, WholeIsParts
  <2>3. whole = block
    BY <1>1, <2>2 DEF Part
  <2> QED
    BY <1>1, <2>1, <2>3, OneOrder
<1>5. ASSUME NEW i \in Orders
      PROVE  \A a : FreeAt(new, a, i) <=>
                 \/ FreeAt(h, a, i) /\ ~(order <= i /\ i < merge /\ a = MergeBuddy(block, i))
                 \/ i = merge /\ a = whole
  BY DEF Gave
<1>6. \A i \in Orders : \A a : FreeAt(new, a, i) => a \in DOMAIN new
  BY DEF FreeAt
<1>7. \A i \in Orders : \A a : FreeAt(h, a, i) => a \in DOMAIN h
  BY DEF FreeAt
<1>8. ASSUME NEW i \in Orders PROVE newLists[i] \in Seq(Nat) /\ Holds(newLists[i], FreeOf(new, i))
  <2>1. CASE i \in order..merge - 1
    <3>1. order <= i /\ i < merge /\ i # merge
      BY <1>1, <2>1
    <3>2. FreeOf(new, i) = FreeOf(h, i) \ {MergeBuddy(block, i)}
      BY <1>5, <1>6, <1>7, <3>1 DEF FreeOf
    <3>3. MergeBuddy(block, i) \in FreeOf(h, i)
      BY <1>7, <3>1 DEF FreeOf, Mergeable
    <3>4. newLists[i] = Unlinked(lists[i], MergeBuddy(block, i))
      BY <2>1, Zenon
    <3> DEFINE q == lists[i]
               A == FreeOf(h, i)
               x == MergeBuddy(block, i)
               r == newLists[i]
    <3>5. q \in Seq(Nat) /\ Holds(q, A) /\ x \in A /\ r = Unlinked(q, x)
      BY <1>2, <3>3, <3>4
    <3>6. FreeOf(new, i) = A \ {x}
      BY <3>2
    <3> HIDE DEF q, A, x, r
    <3>7. r \in Seq(Nat) /\ Holds(r, A \ {x})
      BY ONLY <3>5, Unlinking
    <3> QED
      BY <3>6, <3>7 DEF r
  <2>2. CASE i = merge
    <3>1. i \notin order..merge - 1 /\ ~(i < merge)
      BY <1>1, <2>2
    <3>2. FreeOf(new, i) = FreeOf(h, i) \cup {whole}
      BY <1>5, <1>6, <1>7, <2>2, <3>1 DEF FreeOf
    <3>3. whole \notin FreeOf(h, i)
      BY <1>4, <2>2 DEF FreeOf
    <3>4. newLists[i] = <<whole>> \o lists[i]
      BY <2>2, <3>1, Zenon
    <3> DEFINE q == lists[i]
               A == FreeOf(h, i)
               r == newLists[i]
    <3>5. q \in Seq(Nat) /\ Holds(q, A) /\ whole \in Nat /\ whole \notin A /\ r = <<whole>> \o q
      BY <1>2, <1>3, <3>3, <3>4
    <3>6. FreeOf(new, i) = A \cup {whole}
      BY <3>2
    <3> HIDE DEF q, A, r
    <3>7. r \in Seq(Nat) /\ Holds(r, A \cup {whole})
      BY ONLY <3>5, Fronting
    <3> QED
      BY <3>6, <3>7 DEF r
  <2>3. CASE i # merge /\ i \notin order..merge - 1
    <3>1. ~(order <= i /\ i < merge) /\ newLists[i] = lists[i]
      BY <1>1, <2>3
    <3>2. FreeOf(new, i) = FreeOf(h, i)
      BY <1>5, <1>6, <1>7, <2>3, <3>1 DEF FreeOf
    <3> QED
      BY <1>2, <3>1, <3>2
  <2> QED
    BY <2>1, <2>2, <2>3
<1>9. newLists = [i \in Orders |-> newLists[i]]
  BY Zenon
<1> QED
  BY <1>8, <1>9 DEF Listed

-----------------------------------------------------------------------------
(* The blocks in use, and their bytes.                                     *)
UsedOf(h) == {a \in DOMAIN h : \E o \in Orders : UsedAt(h, a, o)}

UsedBytes(h) == Cardinality(BytesOf(h, UsedOf(h)))
UsedCount(h) == Cardinality(UsedOf(h))

LEMMA UsedFacts ==
  ASSUME NEW h, Tiling(h)
  PROVE  /\ IsFiniteSet(UsedOf(h)) /\ Sized(h, UsedOf(h)) /\ Disjoint(h, UsedOf(h))
         /\ UsedBytes(h) \in 0..END /\ UsedCount(h) \in Nat
         /\ HEADER * UsedCount(h) <= UsedBytes(h)
         /\ UsedBytes(h) = Summed(h, UsedOf(h))
<1> DEFINE S == UsedOf(h)
<1>1. END \in Nat
  BY Largest DEF END
<1>2. ASSUME NEW a \in S
      PROVE  \E o \in Orders : /\ BlockAt(h, a, o) /\ h[a].size = Size[o]
                               /\ a \in Nat /\ Size[o] \in Nat /\ Size[o] > HEADER /\ HEADER \in Nat
                               /\ a + Size[o] <= END
  <2>1. PICK o \in Orders : UsedAt(h, a, o)
    BY DEF UsedOf
  <2>2. BlockAt(h, a, o)
    BY <2>1 DEF BlockAt
  <2>3. h[a].size = Size[o]
    BY <2>1, Headers, Zenon DEF UsedAt
  <2> QED
    BY <2>2, <2>3, WithinItself DEF Tiling
<1> HIDE DEF S
<1>3. Sized(h, S)
  BY <1>2 DEF Sized
<1>4. Disjoint(h, S)
  <2> SUFFICES ASSUME NEW a \in S, NEW b \in S, NEW x \in Nat, Spans(h, a, x), Spans(h, b, x)
               PROVE  a = b
    BY DEF Disjoint
  <2>1. PICK i \in Orders : BlockAt(h, a, i) /\ h[a].size = Size[i]
    BY <1>2
  <2>2. PICK j \in Orders : BlockAt(h, b, j) /\ h[b].size = Size[j]
    BY <1>2
  <2>3. Within(x, a, i) /\ Within(x, b, j)
    BY <2>1, <2>2 DEF Spans, Within
  <2> QED
    BY <2>1, <2>2, <2>3 DEF Tiling, Separate
<1>5. IsFiniteSet(S)
  <2>1. S \in SUBSET (0..END)
    BY <1>1, <1>2
  <2>2. 0 \in Int /\ END \in Int
    BY <1>1
  <2>3. IsFiniteSet(0..END)
    BY <2>2, FS_Interval
  <2> QED
    BY <2>1, <2>3, FS_Subset
<1>6. /\ Summed(h, S) = Cardinality(BytesOf(h, S))
      /\ Cardinality(BytesOf(h, S)) \in Nat /\ Cardinality(S) \in Nat
      /\ HEADER * Cardinality(S) <= Cardinality(BytesOf(h, S))
  BY <1>3, <1>4, <1>5, SumIsBytes
<1>7. Cardinality(BytesOf(h, S)) <= END
  <2>1. 0 \in Int /\ END - 1 \in Int
    BY <1>1
  <2>2. IsFiniteSet(0..END - 1) /\ Cardinality(0..END - 1) = IF 0 > END - 1 THEN 0 ELSE (END - 1) - 0 + 1
    BY <2>1, FS_Interval
  <2>3. Cardinality(0..END - 1) = END
    BY <1>1, <2>2
  <2>4. BytesOf(h, S) \in SUBSET (0..END - 1)
    BY DEF BytesOf
  <2>5. Cardinality(BytesOf(h, S)) <= Cardinality(0..END - 1)
    BY <2>2, <2>4, FS_Subset
  <2> QED
    BY <2>3, <2>5
<1>8. UsedBytes(h) = Cardinality(BytesOf(h, S)) /\ UsedCount(h) = Cardinality(S)
  BY DEF UsedBytes, UsedCount, S
<1>9. UsedBytes(h) \in 0..END
  BY <1>1, <1>6, <1>7, <1>8
<1> QED
  BY <1>3, <1>4, <1>5, <1>6, <1>8, <1>9 DEF S

(* A block more in use.                                                    *)
LEMMA OneMoreUsed ==
  ASSUME NEW h, NEW new, Tiling(h), Tiling(new), NEW order \in Orders, NEW block,
         UsedAt(new, block, order), ~\E i \in Orders : UsedAt(h, block, i),
         \A i \in Orders : \A a : a # block => (UsedAt(new, a, i) <=> UsedAt(h, a, i))
  PROVE  /\ UsedBytes(new) = UsedBytes(h) + Size[order] /\ UsedCount(new) = UsedCount(h) + 1
         /\ UsedOf(new) = UsedOf(h) \cup {block} /\ block \notin UsedOf(h)
         /\ \A a \in UsedOf(h) : h[a].size = new[a].size
<1>1. block \notin UsedOf(h) /\ UsedOf(new) = UsedOf(h) \cup {block}
  BY DEF UsedOf, UsedAt
<1>2. \A a \in UsedOf(h) : h[a].size = new[a].size
  <2> TAKE a \in UsedOf(h)
  <2>1. PICK i \in Orders : UsedAt(h, a, i)
    BY DEF UsedOf
  <2>2. UsedAt(new, a, i)
    BY <1>1, <2>1
  <2> QED
    BY <2>1, <2>2 DEF UsedAt
<1>3. BytesOf(new, UsedOf(h)) = BytesOf(h, UsedOf(h))
  BY <1>2 DEF BytesOf, Spans
<1>4. /\ IsFiniteSet(UsedOf(new)) /\ Sized(new, UsedOf(new)) /\ Disjoint(new, UsedOf(new))
      /\ IsFiniteSet(UsedOf(h)) /\ block \in UsedOf(new)
      /\ UsedOf(new) \ {block} = UsedOf(h)
  BY <1>1, UsedFacts
<1>5. Cardinality(BytesOf(new, UsedOf(new))) =
          Cardinality(BytesOf(new, UsedOf(new) \ {block})) + new[block].size
  BY <1>4, BytesOfOneMore
<1>6. new[block].size = Size[order]
  BY Headers, Zenon DEF UsedAt
<1>7. Cardinality(UsedOf(h) \cup {block}) = Cardinality(UsedOf(h)) + 1
  BY <1>1, <1>4, FS_AddElement
<1> QED
  BY <1>1, <1>2, <1>3, <1>4, <1>5, <1>6, <1>7 DEF UsedBytes, UsedCount

(* A block of the blocks in use: how much the others are at least.         *)
LEMMA OneOfTheUsed ==
  ASSUME NEW h, Tiling(h), NEW order \in Orders, NEW block, UsedAt(h, block, order)
  PROVE  /\ UsedCount(h) \in Nat /\ UsedCount(h) >= 1
         /\ UsedBytes(h) \in Nat /\ Size[order] \in Nat
         /\ HEADER * (UsedCount(h) - 1) <= UsedBytes(h) - Size[order]
         /\ UsedBytes(h) - Size[order] >= 0
<1> DEFINE S == UsedOf(h)
           R == S \ {block}
<1>0. block \in S
  BY DEF UsedOf, UsedAt
<1>1. /\ block \in S /\ IsFiniteSet(S) /\ Sized(h, S) /\ Disjoint(h, S)
      /\ UsedBytes(h) \in Nat /\ UsedCount(h) \in Nat
  <2>1. 0..END \subseteq Nat
    BY Largest DEF END
  <2> QED
    BY <1>0, <2>1, UsedFacts
<1>2. IsFiniteSet(R) /\ Cardinality(R) = Cardinality(S) - 1 /\ Cardinality(R) \in Nat
  BY <1>1, FS_RemoveElement, FS_CardinalityType
<1>3. Sized(h, R) /\ Disjoint(h, R)
  BY <1>1 DEF Sized, Disjoint
<1>4. Cardinality(BytesOf(h, S)) = Cardinality(BytesOf(h, R)) + h[block].size
  BY <1>1, BytesOfOneMore
<1> HIDE DEF R
<1>5. Cardinality(BytesOf(h, R)) \in Nat /\ HEADER * Cardinality(R) <= Cardinality(BytesOf(h, R))
  BY <1>2, <1>3, SumIsBytes
<1>6. h[block].size = Size[order]
  BY Headers, Zenon DEF UsedAt
<1>7. Size[order] \in Nat
  BY Sizes, Largest
<1>8. UsedBytes(h) - Size[order] = Cardinality(BytesOf(h, R)) /\ UsedCount(h) - 1 = Cardinality(R)
  BY <1>1, <1>2, <1>4, <1>5, <1>6, <1>7 DEF UsedBytes, UsedCount
<1> QED
  BY <1>1, <1>2, <1>5, <1>7, <1>8

-----------------------------------------------------------------------------
(* The inductive invariant of the buddy manager.                           *)
Handed(h, live) ==
  /\ DOMAIN live = {a + HEADER : a \in UsedOf(h)}
  /\ \A a \in UsedOf(h) :
        live[a + HEADER] \in BuddyRequests /\ live[a + HEADER] + HEADER <= h[a].size

Counted(h, info) ==
  /\ info.freeSize = BUDDY_TOTAL - UsedBytes(h)
  /\ info.allocatedSize = UsedBytes(h) - HEADER * UsedCount(h)

Ranges(info) == info.freeSize \in 0..BUDDY_TOTAL /\ info.allocatedSize \in 0..BUDDY_TOTAL

Behind == beyond \in BOOLEAN /\ (wild => beyond)

InStep == ~wild => Handed(header, buddyLive) /\ Counted(header, memInfo)

BuddyInv ==
  /\ Tiling(header) /\ Merged(header) /\ Listed(free_lists, header)
  /\ Ranges(memInfo) /\ Behind /\ InStep

LEMMA CountedRanges ==
  ASSUME NEW h, Tiling(h), NEW info, Counted(h, info)
  PROVE  Ranges(info)
<1>1. END \in Nat /\ BUDDY_TOTAL \in Nat /\ END <= BUDDY_TOTAL /\ HEADER \in Nat
  BY Largest, Sizes DEF END
<1>2. UsedBytes(h) \in 0..END /\ UsedCount(h) \in Nat /\ HEADER * UsedCount(h) <= UsedBytes(h)
  BY UsedFacts
<1>3. HEADER * UsedCount(h) \in Nat
  BY <1>1, <1>2
<1> QED
  BY <1>1, <1>2, <1>3 DEF Counted, Ranges

-----------------------------------------------------------------------------
(* The beginning.                                                          *)
LEMMA BuddyBeginsFree == BuddyInit => BuddyInv
<1> SUFFICES ASSUME BuddyInit PROVE BuddyInv
  OBVIOUS
<1>1. /\ TopOrder \in Nat /\ TopOrder \in Orders /\ Orders \subseteq Nat
      /\ END \in Nat /\ END = Size[TopOrder] /\ END > 0
  BY Largest, Sizes DEF END, Orders
<1>2. DOMAIN header = {0} /\ header[0] = FreeHeader(END)
  BY <1>1 DEF BuddyInit
<1>3. \A i \in Orders : \A a : FreeAt(header, a, i) <=> a = 0 /\ i = TopOrder
  BY <1>1, <1>2, HeadersDiffer, SizesDiffer DEF FreeAt
<1>4. \A i \in Orders : \A a : ~UsedAt(header, a, i)
  BY <1>1, <1>2, HeadersDiffer DEF UsedAt
<1>5. \A i \in Orders : \A a : BlockAt(header, a, i) <=> a = 0 /\ i = TopOrder
  BY <1>3, <1>4 DEF BlockAt
<1>6. Tiling(header)
  <2>1. Known(header)
    BY <1>1, <1>2, <1>5 DEF Known
  <2>2. Aligns(header)
    <3>1. Aligned(0, TopOrder)
      <4>1. 0 = 0 * Size[TopOrder]
        BY <1>1
      <4> QED
        BY <4>1 DEF Aligned
    <3> QED
      BY <1>1, <1>5, <3>1 DEF Aligns
  <2>3. Covered(header)
    <3>1. \A x \in 0..END - 1 : Within(x, 0, TopOrder)
      BY <1>1 DEF Within
    <3> QED
      BY <1>1, <1>5, <3>1 DEF Covered
  <2>4. Separate(header)
    BY <1>5 DEF Separate
  <2> QED
    BY <2>1, <2>2, <2>3, <2>4 DEF Tiling
<1>7. Merged(header)
  BY <1>1, <1>3 DEF Merged
<1>8. Listed(free_lists, header)
  <2>1. free_lists = [o \in Orders |-> IF o = TopOrder THEN <<0>> ELSE <<>>]
    BY DEF BuddyInit
  <2>2. ASSUME NEW o \in Orders
        PROVE  free_lists[o] \in Seq(Nat) /\ Holds(free_lists[o], FreeOf(header, o))
    <3>1. CASE o = TopOrder
      <4>1. free_lists[o] = <<0>>
        BY <2>1, <3>1
      <4>2. FreeOf(header, o) = {0}
        BY <1>2, <1>3, <3>1 DEF FreeOf
      <4>3. <<0>> \in Seq(Nat) /\ Len(<<0>>) = 1 /\ <<0>>[1] = 0
        OBVIOUS
      <4>4. Holds(<<0>>, {0})
        BY <4>3 DEF Holds, Once, InQueue
      <4> QED
        BY <4>1, <4>2, <4>3, <4>4
    <3>2. CASE o # TopOrder
      <4>1. free_lists[o] = <<>>
        BY <2>1, <3>2
      <4>2. FreeOf(header, o) = {}
        BY <1>3, <3>2 DEF FreeOf
      <4>3. <<>> \in Seq(Nat) /\ Len(<<>>) = 0
        OBVIOUS
      <4>4. Holds(<<>>, {})
        BY <4>3 DEF Holds, Once, InQueue
      <4> QED
        BY <4>1, <4>2, <4>3, <4>4
    <3> QED
      BY <3>1, <3>2
  <2>3. free_lists = [o \in Orders |-> free_lists[o]]
    BY <2>1, Zenon
  <2> QED
    BY <2>2, <2>3 DEF Listed
<1>9. UsedOf(header) = {}
  BY <1>4 DEF UsedOf
<1>10. Counted(header, memInfo)
  <2>1. UsedCount(header) = 0 /\ UsedBytes(header) = 0
    BY <1>9, FS_EmptySet, BytesOfNone DEF UsedCount, UsedBytes
  <2>2. HEADER \in Nat /\ BUDDY_TOTAL \in Nat
    BY Sizes, Largest
  <2>3. memInfo.freeSize = BUDDY_TOTAL /\ memInfo.allocatedSize = 0
    BY DEF BuddyInit
  <2> QED
    BY <2>1, <2>2, <2>3 DEF Counted
<1>11. Handed(header, buddyLive)
  <2>1. buddyLive = <<>>
    BY DEF BuddyInit
  <2>2. DOMAIN buddyLive = {}
    BY <2>1
  <2> QED
    BY <1>9, <2>2 DEF Handed
<1>12. Ranges(memInfo)
  BY <1>6, <1>10, CountedRanges
<1>13. Behind
  BY Zenon DEF BuddyInit, Behind
<1> QED
  BY <1>6, <1>7, <1>8, <1>10, <1>11, <1>12, <1>13, Zenon DEF BuddyInv, InStep

-----------------------------------------------------------------------------
(* malloc.                                                                 *)
LEMMA OrderFits ==
  ASSUME NEW n \in Nat, NEW order, order = OrderFor(n)
  PROVE  order \in Nat /\ (order <= TopOrder => order \in Orders /\ n + HEADER <= Size[order])
<1> DEFINE fits == {o \in 0..TopOrder + 1 : n + HEADER <= Size[o] \/ o = TopOrder + 1}
<1>1. TopOrder \in Nat
  BY Largest
<1>2. TopOrder + 1 \in fits /\ fits \subseteq Nat
  BY <1>1
<1>3. order \in fits
  <2>1. order = Min(fits)
    BY DEF OrderFor
  <2> HIDE DEF fits
  <2> QED
    BY <1>2, <2>1, MinOfNaturals
<1> QED
  BY <1>1, <1>3 DEF Orders

(* What malloc does to the state, for a block it takes.                    *)
BuddyMallocs(n, o, order, block) ==
  /\ o \in Orders /\ order \in Orders /\ order <= o /\ n \in BuddyRequests
  /\ n \in Nat /\ n + HEADER <= Size[order]
  /\ FreeAt(header, block, o) /\ block \in Nat
  /\ Took(header, header', block, o, order)
  /\ Listed(free_lists', header')
  /\ buddyLive' = [p \in DOMAIN buddyLive \cup {block + HEADER} |->
                      IF p = block + HEADER THEN n ELSE buddyLive[p]]
  /\ memInfo'.freeSize = memInfo.freeSize - Size[order]
  /\ memInfo'.allocatedSize = memInfo.allocatedSize + Size[order] - HEADER
  /\ UNCHANGED <<beyond, wild>>

LEMMA MallocSplits ==
  ASSUME BuddyInv, NEW n \in BuddyRequests, BuddyMalloc(n)
  PROVE  \E o, order, block : BuddyMallocs(n, o, order, block)
<1> DEFINE order == OrderFor(n)
<1>1. n \in Nat
  BY BuddyAssumption
<1>2. order \in Nat /\ (order <= TopOrder => order \in Orders /\ n + HEADER <= Size[order])
  BY <1>1, OrderFits
<1>3. PICK o \in order..TopOrder :
        /\ free_lists[o] # <<>>
        /\ LET block == Head(free_lists[o])
               halves == {block + Size[i] : i \in order..o - 1}
               HalfOrder(a) == CHOOSE i \in order..o - 1 : a = block + Size[i]
           IN  /\ free_lists' = [i \in Orders |->
                      IF i = o THEN Tail(free_lists[o])
                      ELSE IF i \in order..o - 1 THEN <<block + Size[i]>> \o free_lists[i]
                      ELSE free_lists[i]]
               /\ header' = [a \in DOMAIN header \cup halves |->
                      IF a = block THEN [size |-> Size[order], is_free |-> FALSE]
                      ELSE IF a \in halves THEN FreeHeader(Size[HalfOrder(a)])
                      ELSE header[a]]
               /\ buddyLive' = [p \in DOMAIN buddyLive \cup {block + HEADER} |->
                      IF p = block + HEADER THEN n ELSE buddyLive[p]]
               /\ memInfo' = [freeSize |-> memInfo.freeSize - Size[order],
                              allocatedSize |-> memInfo.allocatedSize + Size[order] - HEADER]
        /\ UNCHANGED <<beyond, wild>>
  BY Zenon DEF BuddyMalloc
<1> HIDE DEF order
<1> DEFINE block == Head(free_lists[o])
           halves == {block + Size[i] : i \in order..o - 1}
<1>4. /\ free_lists' = [i \in Orders |->
             IF i = o THEN Tail(free_lists[o])
             ELSE IF i \in order..o - 1 THEN <<block + Size[i]>> \o free_lists[i]
             ELSE free_lists[i]]
      /\ header' = [a \in DOMAIN header \cup halves |->
             IF a = block THEN [size |-> Size[order], is_free |-> FALSE]
             ELSE IF a \in halves
                  THEN FreeHeader(Size[CHOOSE i \in order..o - 1 : a = block + Size[i]])
                  ELSE header[a]]
      /\ buddyLive' = [p \in DOMAIN buddyLive \cup {block + HEADER} |->
             IF p = block + HEADER THEN n ELSE buddyLive[p]]
      /\ memInfo' = [freeSize |-> memInfo.freeSize - Size[order],
                     allocatedSize |-> memInfo.allocatedSize + Size[order] - HEADER]
      /\ UNCHANGED <<beyond, wild>>
  BY <1>3, Zenon
<1>5. TopOrder \in Nat /\ o \in Orders /\ order \in Orders /\ order <= o /\ n + HEADER <= Size[order]
  <2>1. TopOrder \in Nat
    BY Largest
  <2>2. o \in Nat /\ order <= o /\ o <= TopOrder
    BY <1>2, <2>1
  <2>3. order <= TopOrder
    BY <1>2, <2>1, <2>2
  <2> QED
    BY <1>2, <2>1, <2>2, <2>3 DEF Orders
<1>6. FreeAt(header, block, o)
  <2>1. free_lists[o] \in Seq(Nat) /\ Holds(free_lists[o], FreeOf(header, o)) /\ free_lists[o] # <<>>
    BY <1>3, <1>5 DEF BuddyInv, Listed
  <2>2. Head(free_lists[o]) \in FreeOf(header, o)
    BY <2>1, HeadTaken
  <2> QED
    BY <2>2 DEF FreeOf
<1>7. block \in Nat
  BY <1>5, <1>6, WithinItself DEF BuddyInv, Tiling, BlockAt
<1>8. Took(header, header', block, o, order)
  <2> DEFINE new == header'
  <2>1. new = SplitHeaders(header, block, o, order)
    BY <1>4, Zenon DEF SplitHeaders
  <2>2. Tiling(header)
    BY DEF BuddyInv
  <2> HIDE DEF new, block
  <2>3. Took(header, new, block, o, order)
    BY ONLY <1>5, <1>6, <2>1, <2>2, MallocHeaders
  <2> QED
    BY <2>3 DEF new
<1>9. Listed(free_lists', header')
  <2> DEFINE new == header'
             newLists == free_lists'
  <2>1. newLists = [i \in Orders |->
             IF i = o THEN Tail(free_lists[o])
             ELSE IF i \in order..o - 1 THEN <<block + Size[i]>> \o free_lists[i]
             ELSE free_lists[i]]
    BY <1>4, Zenon
  <2>2. block = Head(free_lists[o]) /\ free_lists[o] # <<>>
    BY <1>3
  <2>3. Tiling(header) /\ Listed(free_lists, header)
    BY DEF BuddyInv
  <2>4. Took(header, new, block, o, order)
    BY <1>8
  <2> HIDE DEF new, newLists, block
  <2>5. Listed(newLists, new)
    BY ONLY <1>5, <2>1, <2>2, <2>3, <2>4, MallocLists
  <2> QED
    BY <2>5 DEF new, newLists
<1>10. /\ memInfo'.freeSize = memInfo.freeSize - Size[order]
       /\ memInfo'.allocatedSize = memInfo.allocatedSize + Size[order] - HEADER
  <2> DEFINE info == memInfo'
             f == memInfo.freeSize - Size[order]
             g == memInfo.allocatedSize + Size[order] - HEADER
  <2>1. info = [freeSize |-> f, allocatedSize |-> g]
    BY <1>4, Zenon
  <2> HIDE DEF info, f, g
  <2>2. info.freeSize = f /\ info.allocatedSize = g
    BY <2>1
  <2> QED
    BY <2>2 DEF info, f, g
<1> HIDE DEF block, halves
<1>11. BuddyMallocs(n, o, order, block)
  BY <1>1, <1>4, <1>5, <1>6, <1>7, <1>8, <1>9, <1>10, Zenon DEF BuddyMallocs
<1> QED
  BY <1>11

LEMMA MallocKeepsBuddies ==
  ASSUME BuddyInv, ~wild, NEW n, NEW o, NEW order, NEW block, BuddyMallocs(n, o, order, block)
  PROVE  BuddyInv'
<1> DEFINE h == header
           new == header'
           live == buddyLive'
           info == memInfo'
<1>1. /\ Tiling(h) /\ Merged(h) /\ Handed(h, buddyLive) /\ Counted(h, memInfo)
  BY Zenon DEF BuddyInv, InStep
<1>2. /\ o \in Orders /\ order \in Orders /\ order <= o /\ FreeAt(h, block, o) /\ block \in Nat
      /\ Took(h, new, block, o, order) /\ Listed(free_lists', new)
      /\ n \in BuddyRequests /\ n \in Nat /\ n + HEADER <= Size[order]
  BY DEF BuddyMallocs
<1>3. live = [p \in DOMAIN buddyLive \cup {block + HEADER} |->
                  IF p = block + HEADER THEN n ELSE buddyLive[p]]
  BY DEF BuddyMallocs
<1>4. /\ info.freeSize = memInfo.freeSize - Size[order]
      /\ info.allocatedSize = memInfo.allocatedSize + Size[order] - HEADER
  BY DEF BuddyMallocs
<1>5. UNCHANGED <<beyond, wild>>
  BY Zenon DEF BuddyMallocs
<1>6. Orders \subseteq Nat /\ Size[order] \in Nat /\ HEADER \in Nat /\ BUDDY_TOTAL \in Nat
  BY <1>2, Largest, Sizes
<1> HIDE DEF new, live, info, h
<1>7. Tiling(new)
  BY <1>1, <1>2, SplitTiles
<1>8. Merged(new)
  BY <1>1, <1>2, SplitMerged
<1>9. /\ UsedAt(new, block, order) /\ ~\E i \in Orders : UsedAt(h, block, i)
      /\ \A i \in Orders : \A a : a # block => (UsedAt(new, a, i) <=> UsedAt(h, a, i))
  <2>1. ASSUME NEW i \in Orders, UsedAt(h, block, i) PROVE FALSE
    BY <1>2, <1>6, <2>1, OneOrder DEF BlockAt
  <2> QED
    BY <1>2, <2>1 DEF Took
<1>10. /\ UsedBytes(new) = UsedBytes(h) + Size[order] /\ UsedCount(new) = UsedCount(h) + 1
       /\ UsedOf(new) = UsedOf(h) \cup {block} /\ block \notin UsedOf(h)
       /\ \A a \in UsedOf(h) : h[a].size = new[a].size
  BY <1>1, <1>2, <1>7, <1>9, OneMoreUsed
<1>11. Counted(new, info)
  <2>1. UsedCount(h) \in Nat /\ UsedBytes(h) \in 0..END /\ END \in Nat
    BY <1>1, UsedFacts, Largest DEF END
  <2>2. HEADER * (UsedCount(h) + 1) = HEADER * UsedCount(h) + HEADER /\ HEADER * UsedCount(h) \in Int
    BY <1>6, <2>1
  <2> QED
    BY <1>1, <1>4, <1>6, <1>10, <2>1, <2>2 DEF Counted
<1>12. Handed(new, live)
  <2>1. \A a \in UsedOf(h) : a \in Nat
    BY <1>1, UsedFacts DEF Sized
  <2>2. \A a \in UsedOf(h) : a + HEADER # block + HEADER
    BY <1>2, <1>6, <1>10, <2>1
  <2>3. new[block].size = Size[order]
    BY <1>9, Headers, Zenon DEF UsedAt
  <2>4. DOMAIN live = DOMAIN buddyLive \cup {block + HEADER}
    BY <1>3, Zenon
  <2>5. live[block + HEADER] = n
    BY <1>3, Zenon
  <2>6. \A a \in UsedOf(h) : live[a + HEADER] = buddyLive[a + HEADER]
    BY <1>1, <1>3, <2>2 DEF Handed
  <2>7. DOMAIN live = {a + HEADER : a \in UsedOf(new)}
    BY <1>1, <1>10, <2>4 DEF Handed
  <2>8. ASSUME NEW a \in UsedOf(new)
        PROVE  live[a + HEADER] \in BuddyRequests /\ live[a + HEADER] + HEADER <= new[a].size
    <3>1. CASE a = block
      BY <1>2, <2>3, <2>5, <3>1
    <3>2. CASE a \in UsedOf(h)
      BY <1>1, <1>10, <2>6, <3>2 DEF Handed
    <3> QED
      BY <1>10, <3>1, <3>2
  <2> QED
    BY <2>7, <2>8 DEF Handed
<1>13. Ranges(info)
  BY <1>7, <1>11, CountedRanges
<1>14. Behind'
  BY <1>5, Zenon DEF Behind, BuddyInv
<1>15. InStep'
  BY <1>11, <1>12, Zenon DEF InStep, new, live, info
<1> QED
  BY <1>2, <1>7, <1>8, <1>13, <1>14, <1>15, Zenon DEF BuddyInv, new, info

-----------------------------------------------------------------------------
(* free.                                                                   *)

(* What free does to the state.  Where it follows a list past its end it   *)
(* has changed the counters, and nothing else.                             *)
Whole(order, block, merge) ==
  /\ merge \in Orders /\ order <= merge /\ Mergeable(header, block, order, merge)
  /\ Gave(header, header', block, order, merge)
  /\ Listed(free_lists', header')
  /\ wild' = wild
Lost == beyond /\ wild' = TRUE /\ UNCHANGED <<free_lists, header>>

BuddyFrees(order, block) ==
  /\ order \in Orders /\ UsedAt(header, block, order)
  /\ buddyLive' = [q \in DOMAIN buddyLive \ {block + HEADER} |-> buddyLive[q]]
  /\ memInfo'.freeSize = memInfo.freeSize + Size[order]
  /\ memInfo'.allocatedSize = memInfo.allocatedSize - (Size[order] - HEADER)
  /\ UNCHANGED beyond
  /\ Lost \/ \E merge : Whole(order, block, merge)

LEMMA FreeMerges ==
  ASSUME BuddyInv, ~wild, NEW p \in DOMAIN buddyLive, BuddyFree(p)
  PROVE  \E order, block : BuddyFrees(order, block) /\ p = block + HEADER
<1> DEFINE block == p - HEADER
           order == CHOOSE o \in Orders : Size[o] = header[block].size
           merge == MergeOrder(block, order)
<1>1. /\ Tiling(header) /\ Listed(free_lists, header) /\ Handed(header, buddyLive)
      /\ Orders \subseteq Nat /\ HEADER \in Nat /\ TopOrder \in Nat
  BY Largest, Sizes, Zenon DEF BuddyInv, InStep
<1>2. PICK b \in UsedOf(header) : p = b + HEADER
  BY <1>1 DEF Handed
<1>3. PICK k \in Orders : UsedAt(header, b, k)
  BY <1>2 DEF UsedOf
<1>4. BlockAt(header, b, k)
  BY <1>3 DEF BlockAt
<1>5. b \in Nat /\ k \in Nat
  BY <1>1, <1>4, WithinItself DEF Tiling
<1>6. block = b
  BY <1>1, <1>2, <1>5
<1>7. order = k
  <2>1. header[block].size = Size[k]
    BY <1>3, <1>6, Headers, Zenon DEF UsedAt
  <2>2. order \in Orders /\ Size[order] = Size[k]
    BY <2>1
  <2> HIDE DEF order
  <2> QED
    BY <1>1, <2>2, SizesDiffer
<1>8. /\ buddyLive' = [q \in DOMAIN buddyLive \ {p} |-> buddyLive[q]]
      /\ memInfo' = Credit(order)
      /\ IF merge > TopOrder
         THEN wild' = TRUE /\ UNCHANGED <<free_lists, header>>
         ELSE /\ free_lists' = [i \in Orders |->
                    IF i \in order..merge - 1
                    THEN Unlinked(free_lists[i], [j \in order..merge - 1 |->
                                      get_buddy(MergedAt(block, j), Size[j])][i])
                    ELSE IF i = merge THEN <<MergedAt(block, merge)>> \o free_lists[i]
                    ELSE free_lists[i]]
              /\ header' = [a \in (DOMAIN header \
                        ({block} \cup {[j \in order..merge - 1 |->
                              get_buddy(MergedAt(block, j), Size[j])][i] : i \in order..merge - 1}))
                        \cup {MergedAt(block, merge)} |->
                    IF a = MergedAt(block, merge) THEN FreeHeader(Size[merge]) ELSE header[a]]
              /\ UNCHANGED wild
      /\ UNCHANGED beyond
  BY Zenon DEF BuddyFree
<1>9. UsedAt(header, block, order) /\ order \in Orders /\ BlockAt(header, block, order)
  BY <1>3, <1>4, <1>6, <1>7
<1> HIDE DEF block, order
<1>10. /\ merge \in Nat /\ order <= merge /\ merge <= TopOrder + 1
       /\ merge <= TopOrder => Mergeable(header, block, order, merge)
       /\ merge > TopOrder => BuddyIsFree(block, TopOrder)
  <2> HIDE DEF merge
  <2>1. merge = MergeOrder(block, order)
    BY DEF merge
  <2> QED
    BY <1>1, <1>9, <2>1, MergeStops
<1> HIDE DEF merge
<1>11. ASSUME merge > TopOrder PROVE Lost
  <2>1. wild' = TRUE /\ UNCHANGED <<free_lists, header>>
    BY <1>8, <1>11, Zenon
  <2>2. BuddyIsFree(block, TopOrder)
    BY <1>10, <1>11
  <2>3. get_buddy(MergedAt(block, TopOrder), Size[TopOrder]) >= Size[TopOrder]
    <3> DEFINE s == Size[TopOrder]
               a == MergedAt(block, TopOrder)
    <3>1. TopOrder \in Orders /\ s = END /\ s \in Nat /\ s > 0
      BY <1>1, Sizes DEF Orders, END
    <3>2. Aligned(a, TopOrder) /\ a + s <= END
      BY <1>1, <1>9, <3>1, WholeInside
    <3>3. a = 0
      BY <1>1, <3>1, <3>2, AlignedAddress
    <3>4. 0 % (s * 2) = 0
      <4>1. s * 2 \in Nat /\ s * 2 > 0
        BY <3>1
      <4> DEFINE t == s * 2
      <4> HIDE DEF t
      <4>2. 0 % t = 0
        BY <4>1 DEF t
      <4> QED
        BY <4>2 DEF t
    <3>5. get_buddy(a, s) = 0 + s
      BY <3>3, <3>4 DEF get_buddy
    <3> QED
      BY <3>1, <3>5
  <2>4. beyond
    BY <2>2, <2>3, Zenon DEF BuddyIsFree
  <2> QED
    BY <2>1, <2>4, Zenon DEF Lost
<1>12. ASSUME ~(merge > TopOrder) PROVE Whole(order, block, merge)
  <2> DEFINE new == header'
             newLists == free_lists'
             whole == MergedAt(block, merge)
             buddies == [j \in order..merge - 1 |-> get_buddy(MergedAt(block, j), Size[j])]
  <2>1. merge \in Orders /\ order <= merge /\ Mergeable(header, block, order, merge)
    BY <1>1, <1>10, <1>12 DEF Orders
  <2>2. /\ newLists = [i \in Orders |->
                IF i \in order..merge - 1 THEN Unlinked(free_lists[i], buddies[i])
                ELSE IF i = merge THEN <<whole>> \o free_lists[i] ELSE free_lists[i]]
        /\ new = [a \in (DOMAIN header \ ({block} \cup {buddies[i] : i \in order..merge - 1}))
                      \cup {whole} |->
                    IF a = whole THEN FreeHeader(Size[merge]) ELSE header[a]]
        /\ UNCHANGED wild
    BY <1>8, <1>12, Zenon
  <2>3. \A i \in order..merge - 1 : buddies[i] = MergeBuddy(block, i)
    BY Zenon DEF MergeBuddy
  <2> HIDE DEF buddies, new, newLists
  <2>4. {buddies[i] : i \in order..merge - 1} = {MergeBuddy(block, i) : i \in order..merge - 1}
    BY <2>3
  <2>5. new = JoinHeaders(header, block, order, merge)
    BY <2>2, <2>4, Zenon DEF JoinHeaders
  <2>6. Gave(header, new, block, order, merge)
    BY <1>1, <1>9, <2>1, <2>5, FreeHeaders
  <2>7. newLists = [i \in Orders |->
              IF i \in order..merge - 1 THEN Unlinked(free_lists[i], MergeBuddy(block, i))
              ELSE IF i = merge THEN <<whole>> \o free_lists[i] ELSE free_lists[i]]
    BY <2>2, <2>3, Zenon
  <2>8. whole = MergedAt(block, merge)
    OBVIOUS
  <2> HIDE DEF whole
  <2>9. Listed(newLists, new)
    BY ONLY <1>1, <1>9, <2>1, <2>6, <2>7, <2>8, FreeLists
  <2> QED
    BY <2>1, <2>2, <2>6, <2>9, Zenon DEF Whole, new, newLists
<1>13. /\ memInfo'.freeSize = memInfo.freeSize + Size[order]
       /\ memInfo'.allocatedSize = memInfo.allocatedSize - (Size[order] - HEADER)
  <2> DEFINE info == memInfo'
             f == memInfo.freeSize + Size[order]
             g == memInfo.allocatedSize - (Size[order] - HEADER)
  <2>1. info = [freeSize |-> f, allocatedSize |-> g]
    BY <1>8, Zenon DEF Credit
  <2> HIDE DEF info, f, g
  <2>2. info.freeSize = f /\ info.allocatedSize = g
    BY <2>1
  <2> QED
    BY <2>2 DEF info, f, g
<1>14. p = block + HEADER
  BY <1>2, <1>6
<1>15. BuddyFrees(order, block)
  <2>1. buddyLive' = [q \in DOMAIN buddyLive \ {block + HEADER} |-> buddyLive[q]]
    BY <1>8, <1>14
  <2>2. UNCHANGED beyond
    BY <1>8
  <2> QED
    BY <1>9, <1>11, <1>12, <1>13, <2>1, <2>2, Zenon DEF BuddyFrees
<1> QED
  BY <1>14, <1>15

LEMMA FreeKeepsBuddies ==
  ASSUME BuddyInv, ~wild, NEW order, NEW block, BuddyFrees(order, block)
  PROVE  BuddyInv'
<1> DEFINE h == header
           new == header'
           live == buddyLive'
           info == memInfo'
<1>1. Tiling(h) /\ Merged(h) /\ Handed(h, buddyLive) /\ Counted(h, memInfo) /\ Listed(free_lists, h)
  BY Zenon DEF BuddyInv, InStep
<1>2. order \in Orders /\ UsedAt(h, block, order) /\ UNCHANGED beyond
  BY DEF BuddyFrees
<1>3. live = [q \in DOMAIN buddyLive \ {block + HEADER} |-> buddyLive[q]]
  BY DEF BuddyFrees
<1>4. /\ info.freeSize = memInfo.freeSize + Size[order]
      /\ info.allocatedSize = memInfo.allocatedSize - (Size[order] - HEADER)
  BY DEF BuddyFrees
<1>5. Orders \subseteq Nat /\ Size[order] \in Nat /\ Size[order] > HEADER /\ HEADER \in Nat
      /\ BUDDY_TOTAL \in Nat /\ END \in Nat /\ END <= BUDDY_TOTAL
  BY <1>2, Largest, Sizes DEF END
<1> HIDE DEF new, live, info, h
<1>6. CASE Lost
  <2>1. new = h /\ free_lists' = free_lists /\ wild' = TRUE
    BY <1>6 DEF Lost, new, h
  <2>2. Behind'
    BY <1>2, <1>6, Zenon DEF Lost, Behind, BuddyInv
  <2>3. InStep'
    BY <2>1, Zenon DEF InStep
  <2>4. Ranges(info)
    <3>1. /\ UsedCount(h) \in Nat /\ UsedCount(h) >= 1 /\ UsedBytes(h) \in 0..END
          /\ HEADER * (UsedCount(h) - 1) <= UsedBytes(h) - Size[order]
          /\ UsedBytes(h) - Size[order] >= 0
      BY <1>1, <1>2, OneOfTheUsed, UsedFacts
    <3>2. HEADER * (UsedCount(h) - 1) = HEADER * UsedCount(h) - HEADER /\ HEADER * UsedCount(h) \in Int
      BY <1>5, <3>1
    <3>3. HEADER * (UsedCount(h) - 1) \in Nat
      <4>1. UsedCount(h) - 1 \in Nat
        BY <3>1
      <4> QED
        BY <1>5, <4>1
    <3>4. info.freeSize = BUDDY_TOTAL - (UsedBytes(h) - Size[order])
      BY <1>1, <1>4, <1>5, <3>1 DEF Counted
    <3>5. info.allocatedSize = (UsedBytes(h) - Size[order]) - HEADER * (UsedCount(h) - 1)
      BY <1>1, <1>4, <1>5, <3>1, <3>2 DEF Counted
    <3> DEFINE rest == UsedBytes(h) - Size[order]
               heads == HEADER * (UsedCount(h) - 1)
    <3>6. rest \in Nat /\ rest <= END /\ heads \in Nat /\ heads <= rest
      BY <1>5, <3>1, <3>3
    <3> HIDE DEF rest, heads
    <3>7. info.freeSize = BUDDY_TOTAL - rest /\ info.allocatedSize = rest - heads
      BY <3>4, <3>5 DEF rest, heads
    <3> QED
      BY <1>5, <3>6, <3>7 DEF Ranges
  <2> QED
    BY <1>1, <2>1, <2>2, <2>3, <2>4, Zenon DEF BuddyInv, new, h, info
<1>7. CASE \E merge : Whole(order, block, merge)
  <2>1. PICK merge : Whole(order, block, merge)
    BY <1>7
  <2>2. /\ merge \in Orders /\ order <= merge /\ Mergeable(h, block, order, merge)
        /\ Gave(h, new, block, order, merge) /\ Listed(free_lists', new) /\ wild' = wild
    BY <2>1 DEF Whole, h, new
  <2>3. Tiling(new)
    BY <1>1, <1>2, <2>2, MergeTiles
  <2>4. Merged(new)
    BY <1>1, <1>2, <2>2, MergeMerged
  <2>5. /\ ~\E i \in Orders : UsedAt(new, block, i)
        /\ \A i \in Orders : \A a : a # block => (UsedAt(h, a, i) <=> UsedAt(new, a, i))
    BY <2>2 DEF Gave
  <2>6. /\ UsedBytes(h) = UsedBytes(new) + Size[order] /\ UsedCount(h) = UsedCount(new) + 1
        /\ UsedOf(h) = UsedOf(new) \cup {block} /\ block \notin UsedOf(new)
        /\ \A a \in UsedOf(new) : new[a].size = h[a].size
    BY <1>1, <1>2, <2>3, <2>5, OneMoreUsed
  <2>7. Counted(new, info)
    <3>1. UsedCount(new) \in Nat /\ UsedBytes(new) \in 0..END
      BY <2>3, UsedFacts
    <3>2. HEADER * (UsedCount(new) + 1) = HEADER * UsedCount(new) + HEADER /\ HEADER * UsedCount(new) \in Int
      BY <1>5, <3>1
    <3> QED
      BY <1>1, <1>4, <1>5, <2>6, <3>1, <3>2 DEF Counted
  <2>8. Handed(new, live)
    <3>1. block \in Nat /\ \A a \in UsedOf(new) : a \in Nat
      BY <1>1, <2>3, <2>6, UsedFacts DEF Sized
    <3>2. \A a \in UsedOf(new) : a + HEADER # block + HEADER
      BY <1>5, <2>6, <3>1
    <3>3. DOMAIN live = DOMAIN buddyLive \ {block + HEADER}
      BY <1>3, Zenon
    <3>4. \A a \in UsedOf(new) : a + HEADER \in DOMAIN live /\ live[a + HEADER] = buddyLive[a + HEADER]
      BY <1>1, <1>3, <2>6, <3>2 DEF Handed
    <3>5. DOMAIN live = {a + HEADER : a \in UsedOf(new)}
      BY <1>1, <2>6, <3>2, <3>3 DEF Handed
    <3>6. ASSUME NEW a \in UsedOf(new)
          PROVE  live[a + HEADER] \in BuddyRequests /\ live[a + HEADER] + HEADER <= new[a].size
      BY <1>1, <2>6, <3>4 DEF Handed
    <3> QED
      BY <3>5, <3>6 DEF Handed
  <2>9. Ranges(info)
    BY <2>3, <2>7, CountedRanges
  <2>10. Behind'
    BY <1>2, <2>2, Zenon DEF Behind, BuddyInv
  <2>11. InStep'
    BY <2>7, <2>8, Zenon DEF InStep, new, live, info
  <2> QED
    BY <2>2, <2>3, <2>4, <2>9, <2>10, <2>11, Zenon DEF BuddyInv, new, info
<1> QED
  BY <1>6, <1>7, Zenon DEF BuddyFrees

-----------------------------------------------------------------------------
(* The manager keeps the invariant, whatever the callers ask for and free, *)
(* and whatever lies behind its blocks.                                    *)
THEOREM BuddyInvariance == BuddySpec => []BuddyInv
<1>1. BuddyInit => BuddyInv
  BY BuddyBeginsFree
<1>2. BuddyInv /\ [BuddyNext]_buddyVars => BuddyInv'
  <2> SUFFICES ASSUME BuddyInv, [BuddyNext]_buddyVars PROVE BuddyInv'
    OBVIOUS
  <2>1. ASSUME ~wild, NEW n \in BuddyRequests, BuddyMalloc(n) PROVE BuddyInv'
    BY <2>1, MallocSplits, MallocKeepsBuddies
  <2>2. ASSUME ~wild, NEW p \in DOMAIN buddyLive, BuddyFree(p) PROVE BuddyInv'
    BY <2>2, FreeMerges, FreeKeepsBuddies
  <2>3. CASE UNCHANGED buddyVars
    BY <2>3, Zenon DEF buddyVars, BuddyInv, InStep, Behind
  <2> QED
    BY <2>1, <2>2, <2>3, Zenon DEF BuddyNext
<1> QED
  BY <1>1, <1>2, PTL DEF BuddySpec

(* The blocks cover the heap without gap or overlap, each aligned to its   *)
(* size; the lists hold exactly those that are free; two buddies are never *)
(* both free; and the counters say exactly what the blocks are.            *)
THEOREM BuddyIsSound == BuddySpec => []BuddySound
<1>1. BuddyInv => BuddySound
  <2> SUFFICES ASSUME BuddyInv PROVE BuddySound
    OBVIOUS
  <2>1. /\ Tiling(header) /\ Merged(header) /\ Listed(free_lists, header) /\ Ranges(memInfo) /\ Behind
        /\ ~wild => Handed(header, buddyLive) /\ Counted(header, memInfo)
    BY Zenon DEF BuddyInv, InStep
  <2>2. /\ TopOrder \in Nat /\ Orders \subseteq Nat /\ END \in Nat /\ END = Size[TopOrder]
        /\ BUDDY_TOTAL \in Nat
    BY Largest DEF END
  <2>3. ASSUME NEW o \in Orders PROVE ToSet(free_lists[o]) = FreeOf(header, o)
    <3>1. free_lists[o] \in Seq(Nat) /\ Holds(free_lists[o], FreeOf(header, o))
      BY <2>1 DEF Listed
    <3> QED
      BY <3>1, ListedSet
  <2>4. ASSUME NEW o \in Orders
        PROVE  FreeOf(header, o) = {a \in DOMAIN header : header[a] = FreeHeader(Size[o])}
    BY DEF FreeOf, FreeAt
  <2>5. ASSUME NEW a \in DOMAIN header
        PROVE  \E o \in Orders : /\ BlockAt(header, a, o) /\ header[a].size = Size[o]
                                 /\ o \in Nat /\ a \in Nat /\ Aligned(a, o) /\ Within(a, a, o)
                                 /\ Size[o] \in Nat /\ Size[o] > 0 /\ a + Size[o] <= END
    <3>1. PICK o \in Orders : BlockAt(header, a, o)
      BY <2>1 DEF Tiling, Known
    <3>2. header[a].size = Size[o]
      BY <3>1, Headers, Zenon DEF BlockAt, FreeAt, UsedAt
    <3>3. o \in Nat /\ a \in Nat /\ Aligned(a, o) /\ Within(a, a, o) /\ Size[o] \in Nat /\ a + Size[o] <= END
      BY <2>1, <3>1, WithinItself DEF Tiling
    <3>4. Size[o] > 0
      BY <3>3, Sizes
    <3> QED
      BY <3>1, <3>2, <3>3, <3>4
  <2>6. UsedOf(header) = {a \in DOMAIN header : ~header[a].is_free}
    <3>1. ASSUME NEW a \in DOMAIN header
          PROVE  (\E o \in Orders : UsedAt(header, a, o)) <=> ~header[a].is_free
      <4>1. PICK o \in Orders : BlockAt(header, a, o)
        BY <2>5
      <4>2. ASSUME NEW i \in Orders, UsedAt(header, a, i) PROVE ~header[a].is_free
        BY <4>2, Headers, Zenon DEF UsedAt
      <4>3. FreeAt(header, a, o) => header[a].is_free
        BY Headers, Zenon DEF FreeAt
      <4> QED
        BY <4>1, <4>2, <4>3, Zenon DEF BlockAt
    <3> QED
      BY <3>1, Zenon DEF UsedOf
  <2>7. BuddyTypeOK
    <3>1. ASSUME NEW o \in Orders, NEW i \in DOMAIN free_lists[o]
          PROVE  free_lists[o][i] \in DOMAIN header
      <4>1. free_lists[o][i] \in ToSet(free_lists[o])
        BY DEF ToSet
      <4> QED
        BY <2>3, <4>1 DEF FreeOf
    <3>2. \A a \in DOMAIN header : header[a].size \in {Size[o] : o \in Orders}
      BY <2>5
    <3>3. memInfo.freeSize \in 0..BUDDY_TOTAL /\ memInfo.allocatedSize \in 0..BUDDY_TOTAL
      BY <2>1 DEF Ranges
    <3>4. beyond \in BOOLEAN /\ (wild => beyond)
      BY <2>1 DEF Behind
    <3> QED
      BY <3>1, <3>2, <3>3, <3>4, Zenon DEF BuddyTypeOK
  <2>8. BuddyTiles
    <3>1. ASSUME NEW a \in DOMAIN header PROVE a % header[a].size = 0
      <4>1. PICK o \in Orders : /\ header[a].size = Size[o] /\ a \in Nat /\ Aligned(a, o)
                                /\ Size[o] \in Nat /\ Size[o] > 0
        BY <2>5
      <4>2. PICK k \in Nat : a = k * Size[o]
        BY <4>1 DEF Aligned
      <4> DEFINE s == Size[o]
      <4>3. s \in Nat /\ s > 0 /\ a = 0 + k * s /\ a \in Int /\ k \in Int /\ 0 \in Int
        BY <4>1, <4>2
      <4> HIDE DEF s
      <4>4. a % s = 0 % s /\ 0 % s = 0
        <5>1. a % s = 0 % s
          BY <4>3, WholeTurns
        <5>2. 0 % s = 0
          BY <4>3
        <5> QED
          BY <5>1, <5>2
      <4> QED
        BY <4>1, <4>4 DEF s
    <3>2. ASSUME NEW a \in DOMAIN header, NEW b \in DOMAIN header, a < b
          PROVE  a + header[a].size <= b
      <4>1. PICK i \in Orders : /\ BlockAt(header, a, i) /\ header[a].size = Size[i]
                                /\ a \in Nat /\ Size[i] \in Nat
        BY <2>5
      <4>2. PICK j \in Orders : BlockAt(header, b, j) /\ b \in Nat /\ Within(b, b, j)
        BY <2>5
      <4>3. ~Within(b, a, i)
        BY <2>1, <3>2, <4>1, <4>2 DEF Tiling, Separate
      <4> QED
        BY <3>2, <4>1, <4>2, <4>3 DEF Within
    <3>3. ASSUME NEW a \in DOMAIN header
          PROVE  a + header[a].size \in DOMAIN header \cup {Size[TopOrder]}
      <4>1. PICK i \in Orders : /\ BlockAt(header, a, i) /\ header[a].size = Size[i]
                                /\ a \in Nat /\ Size[i] \in Nat /\ Size[i] > 0 /\ a + Size[i] <= END
        BY <2>5
      <4> DEFINE e == a + Size[i]
      <4>2. CASE e = END
        BY <2>2, <4>1, <4>2
      <4>3. CASE e # END
        <5>1. e \in 0..END - 1 /\ e \in Nat
          BY <2>2, <4>1, <4>3
        <5>2. PICK j \in Orders : \E b : BlockAt(header, b, j) /\ Within(e, b, j)
          BY <2>1, <5>1 DEF Tiling, Covered
        <5>3. PICK b : BlockAt(header, b, j) /\ Within(e, b, j)
          BY <5>2
        <5>4. b \in DOMAIN header /\ b \in Nat /\ Size[j] \in Nat
          BY <2>1, <5>3, WithinItself DEF Tiling, BlockAt, FreeAt, UsedAt
        <5>5. CASE b < e
          <6>1. e - 1 \in Nat /\ Within(e - 1, a, i) /\ Within(e - 1, b, j)
            BY <4>1, <5>3, <5>4, <5>5 DEF Within
          <6>2. a = b
            BY <2>1, <4>1, <5>3, <6>1 DEF Tiling, Separate
          <6>3. i = j
            BY <2>2, <4>1, <5>3, <6>2, OneOrder
          <6> QED
            BY <4>1, <5>3, <6>2, <6>3 DEF Within
        <5>6. CASE ~(b < e)
          <6>1. b = e
            BY <4>1, <5>3, <5>4, <5>6 DEF Within
          <6> QED
            BY <4>1, <5>4, <6>1
        <5> QED
          BY <5>5, <5>6
      <4> QED
        BY <4>2, <4>3
    <3>4. ~wild => DOMAIN buddyLive =
                      {a + HEADER : a \in {b \in DOMAIN header : ~header[b].is_free}}
      BY <2>1, <2>6, Zenon DEF Handed
    <3>5. \A o \in Orders :
              ToSet(free_lists[o]) = {a \in DOMAIN header : header[a] = FreeHeader(Size[o])}
      BY <2>3, <2>4
    <3> QED
      BY <3>1, <3>2, <3>3, <3>4, <3>5, Zenon DEF BuddyTiles
  <2>9. BuddiesMerge
    <3>1. ASSUME NEW o \in 0..TopOrder - 1, NEW a \in ToSet(free_lists[o])
          PROVE  get_buddy(a, Size[o]) \notin ToSet(free_lists[o])
      <4>1. o \in Orders /\ o < TopOrder
        BY <2>2 DEF Orders
      <4>2. FreeAt(header, a, o)
        BY <2>3, <4>1 DEF FreeOf
      <4>3. ~FreeAt(header, get_buddy(a, Size[o]), o)
        BY <2>1, <4>1, <4>2 DEF Merged
      <4> QED
        BY <2>3, <4>1, <4>3 DEF FreeOf
    <3> QED
      BY <3>1, Zenon DEF BuddiesMerge
  <2>10. BuddyCounts
    <3> DEFINE used == {a \in DOMAIN header : ~header[a].is_free}
               sum == FoldSet(LAMBDA a, s : s + header[a].size, 0, used)
    <3>1. sum = Summed(header, used)
      BY Zenon DEF Summed
    <3>2. used = UsedOf(header)
      BY <2>6, Zenon
    <3>3. UsedBytes(header) = Summed(header, UsedOf(header))
      BY <2>1, UsedFacts
    <3>4. sum = UsedBytes(header) /\ Cardinality(used) = UsedCount(header)
      BY <3>1, <3>2, <3>3, Zenon DEF UsedCount
    <3>5. ~wild => /\ memInfo.freeSize = BUDDY_TOTAL - sum
                   /\ memInfo.allocatedSize = sum - HEADER * Cardinality(used)
      BY <2>1, <3>4, Zenon DEF Counted
    <3> QED
      BY <3>5, Zenon DEF BuddyCounts
  <2> QED
    BY <2>7, <2>8, <2>9, <2>10 DEF BuddySound
<1> QED
  BY <1>1, BuddyInvariance, PTL

-----------------------------------------------------------------------------
(* The refinement.                                                         *)

(* Every step of the manager is a step of Heap, or none: no two callers    *)
(* have the same byte, and a byte is another's only after it was freed.    *)
THEOREM BuddyRefinesHeap == BuddySpec => BuddyImplementsHeap
<1>1. BuddyInit => buddyLive = <<>>
  BY DEF BuddyInit
<1>2. BuddyInv /\ [BuddyNext]_buddyVars => [BuddyHeap!HeapNext]_buddyLive
  <2> SUFFICES ASSUME BuddyInv, [BuddyNext]_buddyVars PROVE [BuddyHeap!HeapNext]_buddyLive
    OBVIOUS
  <2>1. ASSUME ~wild, NEW n \in BuddyRequests, BuddyMalloc(n) PROVE BuddyHeap!HeapNext
    <3>1. PICK o, order, block : BuddyMallocs(n, o, order, block)
      BY <2>1, MallocSplits
    <3> DEFINE p == block + HEADER
    <3>2. Tiling(header) /\ Handed(header, buddyLive)
      BY <2>1, Zenon DEF BuddyInv, InStep
    <3>3. /\ o \in Orders /\ order \in Orders /\ order <= o /\ FreeAt(header, block, o)
          /\ n \in BuddyRequests /\ n \in Nat /\ n + HEADER <= Size[order]
      BY <3>1 DEF BuddyMallocs
    <3>4. BlockAt(header, block, o)
      BY <3>3 DEF BlockAt
    <3>5. /\ block \in Nat /\ block + Size[o] <= END /\ HEADER \in Nat
          /\ Size[o] \in Nat /\ Size[order] \in Nat /\ Size[order] <= Size[o]
          /\ Size[o] > HEADER
          /\ END \in Nat /\ BUDDY_TOTAL \in Nat /\ END <= BUDDY_TOTAL
      <4>1. o \in Nat /\ order \in Nat
        BY <3>3, Largest
      <4>2. block \in Nat /\ block + Size[o] <= END
        BY <3>2, <3>3, <3>4, WithinItself DEF Tiling
      <4>3. Size[o] \in Nat /\ Size[order] \in Nat /\ HEADER \in Nat /\ Size[o] > HEADER
        BY <4>1, Sizes
      <4>4. order < o => 2 * Size[order] <= Size[o]
        BY <4>1, SizesGrow
      <4>5. Size[order] <= Size[o]
        BY <3>3, <4>1, <4>3, <4>4
      <4> QED
        BY <4>2, <4>3, <4>5, Largest DEF END
    <3>6. p \in 0..BUDDY_TOTAL /\ p + n <= BUDDY_TOTAL /\ p \in Nat /\ p + n <= block + Size[o]
      BY <3>3, <3>5
    <3>7. ASSUME NEW a \in UsedOf(header)
          PROVE  /\ a + HEADER # p
                 /\ ~BuddyHeap!Overlap(p, n, a + HEADER, buddyLive[a + HEADER])
      <4>1. PICK i \in Orders : UsedAt(header, a, i)
        BY DEF UsedOf
      <4>2. BlockAt(header, a, i)
        BY <4>1 DEF BlockAt
      <4>3. a \in Nat /\ Size[i] \in Nat /\ Size[i] > HEADER
        BY <3>2, <4>2, WithinItself DEF Tiling
      <4>4. header[a].size = Size[i]
        BY <4>1, Headers, Zenon DEF UsedAt
      <4>5. a # block
        <5>1. i \in Nat /\ o \in Nat
          BY <3>3, Largest
        <5> QED
          BY <3>3, <3>4, <4>1, <4>2, <5>1, OneOrder
      <4> DEFINE m == buddyLive[a + HEADER]
      <4>6. m \in Nat /\ m + HEADER <= Size[i]
        BY <3>2, <4>4, BuddyAssumption DEF Handed
      <4> HIDE DEF m
      <4>7. \A x \in Nat : ~(Within(x, block, o) /\ Within(x, a, i))
        BY <3>2, <3>3, <3>4, <4>2, <4>5 DEF Tiling, Separate
      <4>8. ~(Within(p, block, o) /\ Within(p, a, i))
        BY <3>6, <4>7
      <4>9. ~(Within(a + HEADER, block, o) /\ Within(a + HEADER, a, i))
        BY <3>5, <4>3, <4>7
      <4>10. ~(p < a + HEADER + m /\ a + HEADER < p + n)
        BY <3>3, <3>5, <3>6, <4>3, <4>6, <4>8, <4>9 DEF Within
      <4>11. a + HEADER # p
        BY <3>5, <4>3, <4>5
      <4> QED
        BY <4>10, <4>11 DEF BuddyHeap!Overlap, m
    <3>8. DOMAIN buddyLive = {a + HEADER : a \in UsedOf(header)}
      BY <3>2 DEF Handed
    <3>9. p \notin DOMAIN buddyLive /\ \A b \in DOMAIN buddyLive : ~BuddyHeap!Overlap(p, n, b, buddyLive[b])
      BY <3>7, <3>8
    <3>10. buddyLive' = [b \in DOMAIN buddyLive \cup {p} |-> IF b = p THEN n ELSE buddyLive[b]]
      BY <3>1 DEF BuddyMallocs
    <3>11. p \in DOMAIN buddyLive' \ DOMAIN buddyLive
      BY <3>9, <3>10
    <3> HIDE DEF p
    <3>12. BuddyHeap!Allocated(p, n)
      BY <3>6, <3>9, <3>10, Zenon DEF BuddyHeap!Allocated
    <3> QED
      BY <3>3, <3>11, <3>12, Zenon DEF BuddyHeap!HeapNext
  <2>2. ASSUME ~wild, NEW p \in DOMAIN buddyLive, BuddyFree(p) PROVE BuddyHeap!HeapNext
    <3>1. buddyLive' = [q \in DOMAIN buddyLive \ {p} |-> buddyLive[q]]
      BY <2>2, Zenon DEF BuddyFree
    <3>2. p \in DOMAIN buddyLive \ DOMAIN buddyLive'
      BY <3>1
    <3>3. BuddyHeap!Freed(p)
      BY <3>1, Zenon DEF BuddyHeap!Freed
    <3> QED
      BY <3>2, <3>3, Zenon DEF BuddyHeap!HeapNext
  <2>3. CASE UNCHANGED buddyVars
    BY <2>3 DEF buddyVars
  <2> QED
    BY <2>1, <2>2, <2>3 DEF BuddyNext
<1> QED
  BY <1>1, <1>2, BuddyInvariance, PTL DEF BuddySpec, BuddyImplementsHeap, BuddyHeap!HeapSpec

(* Whichever manager the build chooses is a heap: no two callers ever have *)
(* the same byte.                                                          *)
THEOREM ManagersAreHeaps == ListSpec /\ BuddySpec => ManagersImplementHeap
  BY ListRefinesHeap, BuddyRefinesHeap DEF ManagersImplementHeap
=============================================================================
