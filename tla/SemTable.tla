------------------------------ MODULE SemTable ------------------------------
(***************************************************************************)
(* The table of named semaphores (Kernel/semaphores/semaphores.c) as a     *)
(* value: t.list is semaphoreList, t.active the number of open semaphores, *)
(* and each operator is what one call by process p makes of t.  Blocking   *)
(* and waking are left to the modules that use the table, because they are *)
(* the scheduler's.                                                        *)
(***************************************************************************)
EXTENDS Integers, Sequences, FiniteSetsExt

CONSTANTS
    MAX_SEMAPHORES,     \* slots of semaphoreList
    MAX_OPEN            \* the semaphores sem_open opens at most

ASSUME SemTableAssumption == MAX_SEMAPHORES \in Nat \ {0} /\ MAX_OPEN \in Nat

SEMS    == 0..MAX_SEMAPHORES - 1
NO_NAME == <<>>          \* names are tuples of parts
NO_SEM  == -1

(* interestedProcesses is a set here: its order is never looked at.        *)
Semaphore(names, pids) ==
    [ name : names \cup {NO_NAME}, sem_value : Int, lock : {0, 1},
      interested : SUBSET pids, waiting : Seq(pids) ]

NoSemaphores ==
    [ list |-> [s \in SEMS |->
          [name |-> NO_NAME, sem_value |-> 0, lock |-> 0, interested |-> {}, waiting |-> <<>>]],
      active |-> 0 ]

InRange(s) == s \in SEMS

OpenSems(t) == {s \in SEMS : t.list[s].interested # {}}

Interested(t, s, p) == p \in t.list[s].interested

(* The table with sem in slot s.                                           *)
WithSem(t, s, sem, active) == [list |-> [t.list EXCEPT ![s] = sem], active |-> active]

(* sem_get: the first active slots are searched.                           *)
Matching(t, name) == {s \in SEMS : s < t.active /\ t.list[s].name = name}

SemGet(t, name) == IF Matching(t, name) = {} THEN NO_SEM ELSE Min(Matching(t, name))

(* sem_open creates, or joins, under these conditions.                     *)
CanCreate(t, initValue) ==
    t.active < MAX_OPEN /\ initValue >= 0 /\ OpenSems(t) # SEMS

CanJoin(t, s, p) ==
    Interested(t, s, p) \/ Cardinality(t.list[s].interested) < MAX_OPEN

(* The first slot without interested processes; what an earlier semaphore  *)
(* left in its queue stays.                                                *)
CreateSem(t, p, name, initValue) ==
    LET slot == Min(SEMS \ OpenSems(t))
    IN  WithSem(t, slot,
                [ name |-> name, sem_value |-> initValue, lock |-> 1, interested |-> {p},
                  waiting |-> t.list[slot].waiting ],
                t.active + 1)

JoinSem(t, s, p) ==
    WithSem(t, s, [t.list[s] EXCEPT !.interested = t.list[s].interested \cup {p}], t.active)

(* sem_open: the id it returns, NO_SEM for every error, and the table.     *)
OpenedSem(t, p, name, initValue) ==
    LET s == SemGet(t, name)
    IN  IF s # NO_SEM THEN (IF CanJoin(t, s, p) THEN s ELSE NO_SEM)
        ELSE IF CanCreate(t, initValue) THEN Min(SEMS \ OpenSems(t)) ELSE NO_SEM

OpenSem(t, p, name, initValue) ==
    LET s == SemGet(t, name)
    IN  IF OpenedSem(t, p, name, initValue) = NO_SEM THEN t
        ELSE IF s # NO_SEM THEN JoinSem(t, s, p)
        ELSE CreateSem(t, p, name, initValue)

(* Freeing the semaphore when its first user closes it.                    *)
CloseSemMut(t, s, p) ==
    IF ~Interested(t, s, p) THEN t
    ELSE [t EXCEPT !.list[s].name = NO_NAME, !.list[s].sem_value = 0,
                   !.list[s].interested = {}, !.active = t.active - 1]

CloseSem(t, s, p) ==
    IF ~Interested(t, s, p) THEN t
    ELSE IF t.list[s].interested = {p}
    THEN WithSem(t, s,
                 [t.list[s] EXCEPT !.name = NO_NAME, !.sem_value = 0, !.interested = {}],
                 t.active - 1)
    ELSE WithSem(t, s, [t.list[s] EXCEPT !.interested = t.list[s].interested \ {p}], t.active)

(* The two outcomes of a turn of sem_wait's loop.                          *)
EnqueueSem(t, s, p) ==
    WithSem(t, s, [t.list[s] EXCEPT !.waiting = Append(@, p)], t.active)

TakeSem(t, s, permits) ==
    WithSem(t, s, [t.list[s] EXCEPT !.sem_value = @ - permits], t.active)

(* The processes that this many posts wake: the head of the queue each.    *)
WokenBy(t, s, posts) ==
    LET queue == t.list[s].waiting
    IN  {queue[i] : i \in 1..(IF posts < Len(queue) THEN posts ELSE Len(queue))}

(* Waking the waiters but leaving them in the queue.                       *)
PostSemMut(t, s, posts) == [t EXCEPT !.list[s].sem_value = @ + posts]

PostSem(t, s, posts) ==
    WithSem(t, s,
            [t.list[s] EXCEPT !.sem_value = @ + posts,
                              !.waiting = SubSeq(@, posts + 1, Len(@))],
            t.active)

=============================================================================
