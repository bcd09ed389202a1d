------------------------------- MODULE Managers -------------------------------
(***************************************************************************)
(* The two memory managers that Kernel/Makefile chooses between with MM:   *)
(* the free list of memoryManagement.c and the buddy system of             *)
(* buddyMemoryManagement.c.  The kernel calls either as malloc and free    *)
(* and relies on the same promise of both.                                 *)
(***************************************************************************)
EXTENDS FreeList, Buddy

(* Both memory managers are heaps: no two callers get the same byte, and a *)
(* byte is another's only after it was freed.                              *)
ManagersImplementHeap == ListImplementsHeap /\ BuddyImplementsHeap
=============================================================================
