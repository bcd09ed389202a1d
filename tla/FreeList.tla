------------------------------- MODULE FreeList -------------------------------
(***************************************************************************)
(* The free-list memory manager (Kernel/memory/memoryManagement.c), which  *)
(* make all MM=LIST builds: first fit over a list of free blocks, each     *)
(* with a header in front.  The counters of memInfo wrap like the size_t   *)
(* they are.  Callers free what malloc gave them, once, and ask for less   *)
(* than makes a size_t wrap: of more, malloc would hand out a small block. *)
(***************************************************************************)
EXTENDS Integers, SequencesExt

CONSTANTS
    LIST_TOTAL,     \* totalSize
    BLOCK_SIZE,     \* the header of a block
    ListRequests,   \* the bytes callers ask for: a bound, no sum with headers wraps
    SIZE_T          \* the values of a size_t

ASSUME ListAssumption ==
    /\ BLOCK_SIZE \in Nat \ {0}
    /\ LIST_TOTAL \in Nat /\ LIST_TOTAL > 2 * BLOCK_SIZE
    /\ ListRequests \subseteq Nat /\ SIZE_T \in Nat /\ SIZE_T > LIST_TOTAL
    /\ \A n \in ListRequests : n + 2 * BLOCK_SIZE < SIZE_T

VARIABLES
    freeList,       \* the free blocks, in list order
    listBlocks,     \* the sizes in the headers of the blocks handed out
    listLive,       \* the bytes asked for, by pointer
    listInfo,       \* memInfo
    frees           \* history: the blocks freed so far, modulo SIZE_T

listVars == <<freeList, listBlocks, listLive, listInfo, frees>>

Block(addr, size) == [addr |-> addr, size |-> size]

-----------------------------------------------------------------------------
(* malloc.                                                                 *)
Fits(i, bytes) == freeList[i].size >= bytes

Splits(block, bytes) == block.size > bytes + BLOCK_SIZE

(* The rest of a block that is split begins one header too early.          *)
RestMut(block, bytes) == Block(block.addr + bytes - BLOCK_SIZE, block.size - bytes)

Rest(block, bytes) == Block(block.addr + bytes, block.size - bytes)

(* The first block that fits, and the list and the block this leaves.      *)
Take(i, bytes) ==
    LET block == freeList[i]
    IN  IF Splits(block, bytes)
        THEN [list |-> [freeList EXCEPT ![i] = Rest(block, bytes)], size |-> bytes]
        ELSE [list |-> RemoveAt(freeList, i), size |-> block.size]

ListMalloc(n) ==
    /\ n # 0
    /\ \E i \in DOMAIN freeList :
        /\ Fits(i, n + BLOCK_SIZE) /\ \A j \in 1..i - 1 : ~Fits(j, n + BLOCK_SIZE)
        /\ LET taken == Take(i, n + BLOCK_SIZE)
               addr  == freeList[i].addr
           IN  /\ freeList' = taken.list
               /\ listBlocks' = [a \in DOMAIN listBlocks \cup {addr} |->
                                    IF a = addr THEN taken.size ELSE listBlocks[a]]
               /\ listLive' = [p \in DOMAIN listLive \cup {addr + BLOCK_SIZE} |->
                                  IF p = addr + BLOCK_SIZE THEN n ELSE listLive[p]]
               /\ listInfo' = [freeSize |-> (listInfo.freeSize - taken.size) % SIZE_T,
                               allocatedSize |-> (listInfo.allocatedSize + n) % SIZE_T]
    /\ UNCHANGED frees

-----------------------------------------------------------------------------
(* free.  coalesce_free_blocks merges a block with the one that follows it *)
(* in the list when that one also follows it in memory: each turn of its   *)
(* loop looks at the last block of the list made so far and the next.      *)
Touches(a, b) == a.addr + a.size = b.addr

Join(merged, block) ==
    IF merged # <<>> /\ Touches(Last(merged), block)
    THEN Append(Front(merged), Block(Last(merged).addr, Last(merged).size + block.size))
    ELSE Append(merged, block)

coalesce_free_blocks(list) ==
    LET merged[n \in 0..Len(list)] == IF n = 0 THEN <<>> ELSE Join(merged[n - 1], list[n])
    IN  merged[Len(list)]

(* free with the size the block was asked for with.                        *)
ListFreeMut(p) ==
    LET size == listLive[p] + BLOCK_SIZE
    IN  /\ freeList' = coalesce_free_blocks(<<Block(p - BLOCK_SIZE, size)>> \o freeList)
        /\ listBlocks' = [a \in DOMAIN listBlocks \ {p - BLOCK_SIZE} |-> listBlocks[a]]
        /\ listLive' = [q \in DOMAIN listLive \ {p} |-> listLive[q]]
        /\ listInfo' = [freeSize |-> (listInfo.freeSize + size) % SIZE_T,
                        allocatedSize |-> (listInfo.allocatedSize - listLive[p]) % SIZE_T]
        /\ frees' = (frees + 1) % SIZE_T

ListFree(p) ==
    LET size == listBlocks[p - BLOCK_SIZE]
        used == size - BLOCK_SIZE
    IN  /\ freeList' = coalesce_free_blocks(<<Block(p - BLOCK_SIZE, size)>> \o freeList)
        /\ listBlocks' = [a \in DOMAIN listBlocks \ {p - BLOCK_SIZE} |-> listBlocks[a]]
        /\ listLive' = [q \in DOMAIN listLive \ {p} |-> listLive[q]]
        /\ listInfo' = [freeSize |-> (listInfo.freeSize + used) % SIZE_T,
                        allocatedSize |-> (listInfo.allocatedSize - used) % SIZE_T]
        /\ frees' = (frees + 1) % SIZE_T

(* init_memory_manager.                                                    *)
ListInit ==
    /\ freeList = <<Block(0, LIST_TOTAL - BLOCK_SIZE)>>
    /\ listBlocks = <<>>
    /\ listLive = <<>>
    /\ listInfo = [freeSize |-> LIST_TOTAL - BLOCK_SIZE, allocatedSize |-> 0]
    /\ frees = 0

ListNext ==
    \/ \E n \in ListRequests : ListMalloc(n)
    \/ \E p \in DOMAIN listLive : ListFree(p)

ListSpec == ListInit /\ [][ListNext]_listVars

-----------------------------------------------------------------------------
(* Properties.                                                             *)

Covers(block, byte) == block.addr <= byte /\ byte < block.addr + block.size

FreeBytes == Cardinality({byte \in 0..LIST_TOTAL - 1 :
                              \E i \in DOMAIN freeList : Covers(freeList[i], byte)})

ListTypeOK ==
    /\ \A i \in DOMAIN freeList : freeList[i] \in [addr : 0..LIST_TOTAL, size : 1..LIST_TOTAL]
    /\ DOMAIN listLive = {a + BLOCK_SIZE : a \in DOMAIN listBlocks}
    /\ listInfo \in [freeSize : 0..SIZE_T - 1, allocatedSize : 0..SIZE_T - 1]
    /\ frees \in 0..SIZE_T - 1

(* The free blocks and those handed out cover the heap without a gap and   *)
(* without an overlap, and every free block has room for its header.       *)
Owners(byte) ==
    {<<"free", i>> : i \in {j \in DOMAIN freeList : Covers(freeList[j], byte)}}
    \cup {<<"used", a>> : a \in {b \in DOMAIN listBlocks : Covers(Block(b, listBlocks[b]), byte)}}

ListTiles ==
    /\ \A byte \in 0..LIST_TOTAL - BLOCK_SIZE - 1 : Cardinality(Owners(byte)) = 1
    /\ \A i \in DOMAIN freeList : freeList[i].size > BLOCK_SIZE

(* The free bytes that get_memory_info reports fall short of the free      *)
(* blocks by one header for every free there has been, however blocks were *)
(* split and merged.                                                       *)
FreeSizeLosesHeaders == listInfo.freeSize = (FreeBytes - BLOCK_SIZE * frees) % SIZE_T

(* The list manager keeps all of this together.                            *)
ListSound == ListTypeOK /\ ListTiles /\ FreeSizeLosesHeaders

(* "Gets the current memory state: total, free, and allocated memory"      *)
(* (memoryManagement.h): with nothing handed out, nothing is allocated.    *)
NothingLiveNothingAllocated == listLive = <<>> => listInfo.allocatedSize = 0

(* The manager is a heap: no two callers get the same byte.                *)
ListHeap == INSTANCE Heap WITH TOTAL <- LIST_TOTAL, Requests <- ListRequests, live <- listLive
ListImplementsHeap == ListHeap!HeapSpec

=============================================================================
