--------------------------------- MODULE Buddy ---------------------------------
(***************************************************************************)
(* The buddy memory manager (Kernel/memory/buddyMemoryManagement.c), which *)
(* make all builds by default.  Blocks are powers of two; order 0 here is  *)
(* the order of the smallest.  Addresses are offsets from buddy.start.     *)
(*                                                                         *)
(* The heap the kernel gives it is not a power of two, so the buddy of the *)
(* one block it starts from lies in memory that is never written: what its *)
(* header there says is not known.  Callers free what malloc gave them,    *)
(* once, and ask for less than makes a size_t wrap: of more, malloc would  *)
(* hand out a small block.                                                 *)
(***************************************************************************)
EXTENDS Integers, SequencesExt

CONSTANTS
    BUDDY_TOTAL,        \* total_size
    MIN_BLOCK_SIZE,     \* the smallest block
    HEADER,             \* BLOCK_HEADER_SIZE
    MAX_ORDER,          \* the free lists, from that of the smallest blocks on
    BuddyRequests,      \* the bytes callers ask for: a bound, no sum with a header wraps
    BUDDY_SIZE_T        \* the values of a size_t

(* The size of the blocks of an order.                                     *)
Size[order \in Nat] == IF order = 0 THEN MIN_BLOCK_SIZE ELSE 2 * Size[order - 1]

ASSUME BuddyAssumption ==
    /\ HEADER \in Nat \ {0} /\ MIN_BLOCK_SIZE \in Nat /\ MIN_BLOCK_SIZE > HEADER
    /\ BUDDY_TOTAL \in Nat /\ BUDDY_TOTAL >= MIN_BLOCK_SIZE
    /\ MAX_ORDER \in Nat /\ BUDDY_TOTAL < Size[MAX_ORDER]
    /\ BuddyRequests \subseteq Nat /\ BUDDY_SIZE_T \in Nat
    /\ \A n \in BuddyRequests : n + HEADER < BUDDY_SIZE_T

VARIABLES
    free_lists,     \* by order, the free blocks, the last one freed first
    header,         \* by address, the header of every block
    memInfo,
    buddyLive,      \* the bytes asked for, by pointer
    beyond,         \* does the memory behind the blocks look like a free buddy?
    wild            \* free followed a list past its end

buddyVars == <<free_lists, header, memInfo, buddyLive, beyond, wild>>

(* The largest block init_memory_manager can make, and its order.          *)
TopOrder == Max({o \in 0..MAX_ORDER : Size[o] <= BUDDY_TOTAL})

Orders == 0..TopOrder

FreeHeader(size) == [size |-> size, is_free |-> TRUE]

(* Rounding down where next_power_of_2 rounds up.                          *)
OrderForMut(n) == Max({o \in 0..TopOrder + 1 : o = 0 \/ n + HEADER >= Size[o]})

(* get_order, of a size that next_power_of_2 made from a request.  The sum *)
(* with the header is one of size_t: BuddyRequests are those that it does  *)
(* not wrap for.                                                           *)
OrderFor(n) == Min({o \in 0..TopOrder + 1 : n + HEADER <= Size[o] \/ o = TopOrder + 1})

-----------------------------------------------------------------------------
(* malloc: the first block of the first list that is long enough is split  *)
(* down; the upper halves go to the front of their lists.                  *)
BuddyMalloc(n) ==
    \E o \in OrderFor(n)..TopOrder :
        /\ free_lists[o] # <<>>
        /\ \A i \in OrderFor(n)..o - 1 : free_lists[i] = <<>>
        /\ LET block == Head(free_lists[o])
               order == OrderFor(n)
               halves == {block + Size[i] : i \in order..o - 1}
               HalfOrder(a) == CHOOSE i \in order..o - 1 : a = block + Size[i]
           IN  /\ free_lists' = [i \in Orders |->
                      IF i = o THEN Tail(free_lists[o])
                      ELSE IF i \in order..o - 1 THEN <<block + Size[i]>> \o free_lists[i]
                      ELSE free_lists[i]]
               /\ header' = [a \in DOMAIN header \cup halves |->
                      IF a = block THEN [size |-> Size[order], is_free |-> FALSE]
                      ELSE IF a \in halves THEN FreeHeader(Size[HalfOrder(a)])
                      ELSE header[a]]
               /\ buddyLive' = [p \in DOMAIN buddyLive \cup {block + HEADER} |->
                      IF p = block + HEADER THEN n ELSE buddyLive[p]]
               /\ memInfo' = [freeSize |-> memInfo.freeSize - Size[order],
                              allocatedSize |-> memInfo.allocatedSize + Size[order] - HEADER]
        /\ UNCHANGED <<beyond, wild>>

-----------------------------------------------------------------------------
get_buddy(block, size) == IF block % (size * 2) = 0 THEN block + size ELSE block - size

(* A block and what it has been merged into so far, up to an order.        *)
MergedAt(block, order) == block - (block % Size[order])

(* The buddy of a block of this order is free and whole.  Where no block   *)
(* begins there is no header to read.                                      *)
InManaged(a) == 0 <= a /\ a < BUDDY_TOTAL

BuddyIsFree(block, order) ==
    LET a == get_buddy(MergedAt(block, order), Size[order])
    IN  /\ InManaged(a)
        /\ IF a >= Size[TopOrder] THEN beyond ELSE header[a] = FreeHeader(Size[order])

(* Merging once only.                                                      *)
MergeOrderMut(block, order) == IF BuddyIsFree(block, order) THEN order + 1 ELSE order

(* The order up to which free merges a block.                              *)
MergeOrder(block, order) ==
    Max({m \in order..TopOrder + 1 : \A i \in order..m - 1 : BuddyIsFree(block, i)})

Credit(order) ==
    [freeSize |-> memInfo.freeSize + Size[order],
     allocatedSize |-> memInfo.allocatedSize - (Size[order] - HEADER)]

(* A list without a block that is in it.                                   *)
Unlinked(list, a) == RemoveAt(list, CHOOSE i \in DOMAIN list : list[i] = a)

BuddyFree(p) ==
    LET block  == p - HEADER
        order  == CHOOSE o \in Orders : Size[o] = header[block].size
        merge  == MergeOrder(block, order)
        buddies == [i \in order..merge - 1 |-> get_buddy(MergedAt(block, i), Size[i])]
        gone   == {block} \cup {buddies[i] : i \in order..merge - 1}
        whole  == MergedAt(block, merge)
    IN  /\ buddyLive' = [q \in DOMAIN buddyLive \ {p} |-> buddyLive[q]]
        /\ memInfo' = Credit(order)
        /\ IF merge > TopOrder
           THEN wild' = TRUE /\ UNCHANGED <<free_lists, header>>
           ELSE /\ free_lists' = [i \in Orders |->
                      IF i \in order..merge - 1 THEN Unlinked(free_lists[i], buddies[i])
                      ELSE IF i = merge THEN <<whole>> \o free_lists[i] ELSE free_lists[i]]
                /\ header' = [a \in (DOMAIN header \ gone) \cup {whole} |->
                      IF a = whole THEN FreeHeader(Size[merge]) ELSE header[a]]
                /\ UNCHANGED wild
        /\ UNCHANGED beyond

(* init_memory_manager.                                                    *)
BuddyInit ==
    /\ free_lists = [o \in Orders |-> IF o = TopOrder THEN <<0>> ELSE <<>>]
    /\ header = [a \in {0} |-> FreeHeader(Size[TopOrder])]
    /\ memInfo = [freeSize |-> BUDDY_TOTAL, allocatedSize |-> 0]
    /\ buddyLive = <<>>
    /\ beyond \in BOOLEAN
    /\ wild = FALSE

BuddyNext ==
    /\ ~wild
    /\ \/ \E n \in BuddyRequests : BuddyMalloc(n)
       \/ \E p \in DOMAIN buddyLive : BuddyFree(p)

BuddySpec == BuddyInit /\ [][BuddyNext]_buddyVars

-----------------------------------------------------------------------------
(* Properties.                                                             *)

BuddyTypeOK ==
    /\ \A o \in Orders : \A i \in DOMAIN free_lists[o] : free_lists[o][i] \in DOMAIN header
    /\ \A a \in DOMAIN header : header[a].size \in {Size[o] : o \in Orders}
    /\ memInfo.freeSize \in 0..BUDDY_TOTAL /\ memInfo.allocatedSize \in 0..BUDDY_TOTAL
    /\ beyond \in BOOLEAN /\ (wild => beyond)

(* The blocks cover the heap without gap or overlap, each aligned to its   *)
(* size, and those marked free are just those in the lists.                *)
BuddyTiles ==
    ~wild =>
        /\ \A a \in DOMAIN header :
              /\ a % header[a].size = 0
              /\ a + header[a].size \in DOMAIN header \cup {Size[TopOrder]}
              /\ \A b \in DOMAIN header : a < b => a + header[a].size <= b
        /\ \A o \in Orders :
              ToSet(free_lists[o]) = {a \in DOMAIN header : header[a] = FreeHeader(Size[o])}
        /\ DOMAIN buddyLive = {a + HEADER : a \in {b \in DOMAIN header : ~header[b].is_free}}

(* Two buddies are never both free: so what is wholly free is one block    *)
(* again, whatever the order of the frees.                                 *)
BuddiesMerge ==
    ~wild => \A o \in 0..TopOrder - 1 : \A a \in ToSet(free_lists[o]) :
        get_buddy(a, Size[o]) \notin ToSet(free_lists[o])

(* The counters say exactly what the blocks are.                           *)
BuddyCounts ==
    LET used == {a \in DOMAIN header : ~header[a].is_free}
        Sum(S) == FoldSet(LAMBDA a, sum : sum + header[a].size, 0, S)
    IN  ~wild => /\ memInfo.freeSize = BUDDY_TOTAL - Sum(used)
                 /\ memInfo.allocatedSize = Sum(used) - HEADER * Cardinality(used)

(* The buddy manager keeps all of this together.                           *)
BuddySound == BuddyTypeOK /\ BuddyTiles /\ BuddiesMerge /\ BuddyCounts

(* The manager is a heap: no two callers get the same byte.                *)
BuddyHeap == INSTANCE Heap WITH TOTAL <- BUDDY_TOTAL, Requests <- BuddyRequests, live <- buddyLive
BuddyImplementsHeap == BuddyHeap!HeapSpec

=============================================================================
