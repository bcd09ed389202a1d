--------------------------------- MODULE Heap ---------------------------------
(***************************************************************************)
(* What a memory manager promises (Kernel/include/memoryManagement.h):     *)
(* malloc returns a pointer to so many bytes of the heap that nobody else  *)
(* has, or NULL, and free takes them back.                                 *)
(***************************************************************************)
EXTENDS Integers

CONSTANTS
    TOTAL,      \* the bytes of the heap
    Requests    \* the sizes asked for

VARIABLE live   \* the pointers handed out, with the bytes asked for

Overlap(a, n, b, m) == a < b + m /\ b < a + n

Allocated(a, n) ==
    /\ a \in 0..TOTAL /\ a + n <= TOTAL
    /\ \A b \in DOMAIN live : ~Overlap(a, n, b, live[b])
    /\ live' = [b \in DOMAIN live \cup {a} |-> IF b = a THEN n ELSE live[b]]

Freed(a) == live' = [b \in DOMAIN live \ {a} |-> live[b]]

HeapNext ==
    \/ \E a \in DOMAIN live' \ DOMAIN live, n \in Requests : Allocated(a, n)
    \/ \E a \in DOMAIN live \ DOMAIN live' : Freed(a)

HeapSpec == live = <<>> /\ [][HeapNext]_live

=============================================================================
