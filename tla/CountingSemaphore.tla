-------------------------- MODULE CountingSemaphore --------------------------
(***************************************************************************)
(* What a semaphore promises its users, whatever its queue, its locks and  *)
(* the scheduler do: a permit is taken once, by a process that asked for   *)
(* it; nobody closes it under a waiter; and permits do not lie idle beside *)
(* waiters for ever.                                                       *)
(***************************************************************************)
EXTENDS Integers

CONSTANT Users

VARIABLES open, value, waiters

svars == <<open, value, waiters>>

SInit == open = FALSE /\ value = 0 /\ waiters = {}

Opened ==
    /\ ~open
    /\ open' = TRUE /\ value' \in Nat
    /\ UNCHANGED waiters

Closed ==
    /\ open /\ waiters = {}
    /\ open' = FALSE /\ value' = 0
    /\ UNCHANGED waiters

(* Asking for a permit: it is there, or the process waits.                 *)
Asked(p) ==
    /\ open /\ p \notin waiters
    /\ \/ value > 0 /\ value' = value - 1 /\ UNCHANGED waiters
       \/ value = 0 /\ waiters' = waiters \cup {p} /\ UNCHANGED value
    /\ UNCHANGED open

Passed(p) ==
    /\ p \in waiters /\ value > 0
    /\ value' = value - 1
    /\ waiters' = waiters \ {p}
    /\ UNCHANGED open

Posted ==
    /\ open
    /\ value' = value + 1
    /\ UNCHANGED <<open, waiters>>

SNext ==
    \/ Opened
    \/ Closed
    \/ Posted
    \/ \E p \in Users : Asked(p) \/ Passed(p)

SomebodyPasses == \E p \in Users : Passed(p)

(* What never happens, and what must.                                      *)
SSafety == SInit /\ [][SNext]_svars

SSpec == SSafety /\ WF_svars(SomebodyPasses)

=============================================================================
