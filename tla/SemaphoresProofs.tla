-------------------------- MODULE SemaphoresProofs --------------------------
(***************************************************************************)
(* Proofs about the named semaphores, for any number of processes,         *)
(* semaphores, names and permits: the table keeps its types and counts,    *)
(* nobody closes a semaphore under a waiter, and, as long as callers use   *)
(* their own semaphores and nobody dies or is woken from elsewhere, no     *)
(* wake-up is lost, the queue is the sleepers and the first slot is a      *)
(* counting semaphore.                                                     *)
(***************************************************************************)
EXTENDS Semaphores, SchedulerProofs

USE DEF PID_KERNEL, NO_PROC, NULL, MIN_PRIORITY, NO_SEM, NOT_IN

-----------------------------------------------------------------------------
(* The table by itself.                                                    *)

SemTables == [list : [SEMS -> Semaphore(Names, Callers)], active : Nat]

(* A closed semaphore has no name, so it is never joined; an open one has  *)
(* a lock that was initialised; active counts the open ones.               *)
TableInv(t) ==
    /\ t \in SemTables
    /\ \A s \in SEMS : /\ t.list[s].sem_value \in Nat
                       /\ t.list[s].interested = {} => t.list[s].name = NO_NAME
                       /\ t.list[s].interested # {} => t.list[s].lock = 1
    /\ t.active = Cardinality(OpenSems(t)) /\ t.active <= MAX_OPEN

(* The fields of a semaphore.                                              *)
LEMMA SemFields ==
  ASSUME NEW t \in SemTables, NEW s \in SEMS
  PROVE  /\ t.list[s].name \in Names \cup {NO_NAME}
         /\ t.list[s].sem_value \in Int
         /\ t.list[s].lock \in {0, 1}
         /\ t.list[s].interested \in SUBSET Callers
         /\ t.list[s].waiting \in Seq(Callers)
<1>1. t.list[s] \in Semaphore(Names, Callers)
  BY DEF SemTables
<1> QED
  BY <1>1 DEF Semaphore

(* The table is finite, and so is every set of its slots.                  *)
LEMMA SetsOfSems ==
  ASSUME NEW S \in SUBSET SEMS
  PROVE  IsFiniteSet(S) /\ Cardinality(S) \in 0..MAX_SEMAPHORES
<1>1. IsFiniteSet(SEMS) /\ Cardinality(SEMS) = MAX_SEMAPHORES
  BY SemTableAssumption, FS_Interval DEF SEMS
<1>2. IsFiniteSet(S) /\ Cardinality(S) <= MAX_SEMAPHORES
  BY <1>1, FS_Subset
<1> QED
  BY <1>2, FS_CardinalityType, SemTableAssumption

(* A semaphore by its fields, and with some of them changed.               *)
LEMMA NewSem ==
  ASSUME NEW name \in Names \cup {NO_NAME}, NEW v \in Int, NEW l \in {0, 1},
         NEW who \in SUBSET Callers, NEW queue \in Seq(Callers), NEW e,
         e = [name |-> name, sem_value |-> v, lock |-> l, interested |-> who, waiting |-> queue]
  PROVE  e \in Semaphore(Names, Callers)
  BY DEF Semaphore

LEMMA SharedSem ==
  ASSUME NEW a \in Semaphore(Names, Callers), NEW who \in SUBSET Callers, NEW e,
         e = [a EXCEPT !.interested = who]
  PROVE  /\ e \in Semaphore(Names, Callers) /\ e.name = a.name /\ e.sem_value = a.sem_value
         /\ e.interested = who /\ e.lock = a.lock /\ e.waiting = a.waiting
  BY DEF Semaphore

LEMMA QueuedSem ==
  ASSUME NEW a \in Semaphore(Names, Callers), NEW queue \in Seq(Callers), NEW e,
         e = [a EXCEPT !.waiting = queue]
  PROVE  /\ e \in Semaphore(Names, Callers) /\ e.name = a.name /\ e.sem_value = a.sem_value
         /\ e.interested = a.interested /\ e.lock = a.lock /\ e.waiting = queue
  BY DEF Semaphore

LEMMA ValuedSem ==
  ASSUME NEW a \in Semaphore(Names, Callers), NEW v \in Int, NEW e,
         e = [a EXCEPT !.sem_value = v]
  PROVE  /\ e \in Semaphore(Names, Callers) /\ e.name = a.name /\ e.sem_value = v
         /\ e.interested = a.interested /\ e.lock = a.lock /\ e.waiting = a.waiting
  BY DEF Semaphore

(* A semaphore that may be put in slot r of t, with n open semaphores then. *)
Fits(t, r, e, n) ==
    /\ e \in Semaphore(Names, Callers) /\ n \in Nat /\ n <= MAX_OPEN
    /\ e.sem_value \in Nat
    /\ e.interested = {} => e.name = NO_NAME
    /\ e.interested # {} => e.lock = 1
    /\ r \in OpenSems(t) => n = IF e.interested = {} THEN t.active - 1 ELSE t.active
    /\ r \notin OpenSems(t) => n = IF e.interested = {} THEN t.active ELSE t.active + 1

(* Changing one slot r of the table into e keeps the invariant if e fits.  *)
LEMMA SlotChange ==
  ASSUME NEW t, TableInv(t), NEW r \in SEMS, NEW e, NEW n, Fits(t, r, e, n),
         NEW u, u = WithSem(t, r, e, n)
  PROVE  /\ TableInv(u) /\ u.active = n /\ u.list[r] = e
         /\ \A s \in SEMS \ {r} : u.list[s] = t.list[s]
<1> USE DEF Fits
<1>1. t.list \in [SEMS -> Semaphore(Names, Callers)] /\ t.active = Cardinality(OpenSems(t))
  BY DEF TableInv, SemTables
<1>2. /\ u \in SemTables /\ u.list[r] = e /\ u.active = n
      /\ \A s \in SEMS \ {r} : u.list[s] = t.list[s]
  BY <1>1 DEF WithSem, SemTables
<1>3. OpenSems(u) = IF e.interested = {} THEN OpenSems(t) \ {r} ELSE OpenSems(t) \cup {r}
  BY <1>2 DEF OpenSems
<1>4. u.active = Cardinality(OpenSems(u))
  <2>1. IsFiniteSet(OpenSems(t))
    BY SetsOfSems DEF OpenSems
  <2>2. Cardinality(OpenSems(t) \cup {r})
          = IF r \in OpenSems(t) THEN Cardinality(OpenSems(t)) ELSE Cardinality(OpenSems(t)) + 1
    BY <2>1, FS_AddElement
  <2>3. Cardinality(OpenSems(t) \ {r})
          = IF r \in OpenSems(t) THEN Cardinality(OpenSems(t)) - 1 ELSE Cardinality(OpenSems(t))
    BY <2>1, FS_RemoveElement
  <2> QED
    BY <1>1, <1>2, <1>3, <2>1, <2>2, <2>3
<1>5. TableInv(u)
  BY <1>2, <1>4 DEF TableInv
<1> QED
  BY <1>2, <1>5

(* sem_open of a new semaphore.                                            *)
LEMMA CreateSlot ==
  ASSUME NEW t, TableInv(t), NEW p \in Callers, NEW name \in Names, NEW v \in Int,
         CanCreate(t, v),
         NEW r, r = Min(SEMS \ OpenSems(t)),
         NEW u, u = CreateSem(t, p, name, v)
  PROVE  /\ r \in SEMS \ OpenSems(t)
         /\ TableInv(u)
         /\ \A s \in SEMS \ {r} : u.list[s] = t.list[s]
         /\ u.list[r].interested = {p} /\ u.list[r].sem_value = v /\ v \in Nat
         /\ u.list[r].waiting = t.list[r].waiting
<1>1. r \in SEMS \ OpenSems(t) /\ v \in Nat
  <2>1. SEMS \ OpenSems(t) # {} /\ SEMS \ OpenSems(t) \subseteq Nat
    BY DEF CanCreate, OpenSems, SEMS
  <2> QED
    BY <2>1, MinOfNaturals DEF CanCreate
<1> DEFINE e == [ name |-> name, sem_value |-> v, lock |-> 1, interested |-> {p},
                  waiting |-> t.list[r].waiting ]
<1>2. t \in SemTables /\ t.list[r] \in Semaphore(Names, Callers) /\ t.active \in Nat
  BY <1>1 DEF TableInv, SemTables
<1>3. e \in Semaphore(Names, Callers)
  <2>1. t.list[r].waiting \in Seq(Callers)
    BY <1>1, <1>2, SemFields
  <2>2. name \in Names \cup {NO_NAME} /\ 1 \in {0, 1} /\ {p} \in SUBSET Callers
    OBVIOUS
  <2> QED
    BY <1>1, <1>2, <2>1, <2>2, NewSem
<1>4. u = WithSem(t, r, e, t.active + 1)
  BY DEF CreateSem
<1>5. t.active + 1 \in Nat /\ t.active + 1 <= MAX_OPEN
  BY <1>2, SemTableAssumption DEF CanCreate
<1>6. e.interested # {} /\ e.interested = {p} /\ e.sem_value = v /\ e.lock = 1
        /\ e.waiting = t.list[r].waiting
  OBVIOUS
<1> HIDE DEF e
<1> PICK n : n = t.active + 1
  OBVIOUS
<1>7. /\ TableInv(u) /\ u.list[r] = e
      /\ \A s \in SEMS \ {r} : u.list[s] = t.list[s]
  <2>1. Fits(t, r, e, n)
    <3>1. e.interested # {} /\ e.sem_value \in Nat /\ e.lock = 1 /\ r \notin OpenSems(t)
      BY <1>1, <1>6
    <3> QED
      BY <1>3, <1>5, <3>1 DEF Fits
  <2>2. r \in SEMS /\ u = WithSem(t, r, e, n)
    BY <1>1, <1>4
  <2> QED
    BY ONLY TableInv(t), <2>1, <2>2, SlotChange
<1> QED
  BY <1>1, <1>6, <1>7

(* sem_get finds an open semaphore.                                        *)
LEMMA FoundIsOpen ==
  ASSUME NEW t, TableInv(t), NEW name \in Names, SemGet(t, name) # NO_SEM
  PROVE  SemGet(t, name) \in OpenSems(t)
<1> DEFINE found == Matching(t, name)
<1>1. found # {} /\ found \subseteq Nat
  BY DEF SemGet, Matching, SEMS
<1>2. SemGet(t, name) = Min(found)
  BY <1>1 DEF SemGet
<1>3. SemGet(t, name) \in found
  <2> HIDE DEF found
  <2> QED  BY <1>1, <1>2, MinOfNaturals
<1>4. \A s \in found : s \in SEMS /\ t.list[s].name # NO_NAME
  BY SemAssumption DEF Matching
<1> QED
  BY <1>3, <1>4 DEF TableInv, OpenSems

(* What the calls keep of every slot that was open: its value, its queue   *)
(* and its users; and of every slot that stays closed.                     *)
Undisturbed(t, u) ==
    \A s \in SEMS :
        /\ u.list[s].waiting = t.list[s].waiting
        /\ s \in OpenSems(t) \/ s \notin OpenSems(u) => u.list[s].sem_value = t.list[s].sem_value
        /\ t.list[s].interested \subseteq u.list[s].interested

LEMMA OpenKeeps ==
  ASSUME NEW t, TableInv(t), NEW p \in Callers, NEW name \in Names, NEW v \in Int
  PROVE  TableInv(OpenSem(t, p, name, v)) /\ Undisturbed(t, OpenSem(t, p, name, v))
<1> DEFINE s == SemGet(t, name)
           u == OpenSem(t, p, name, v)
<1>1. CASE u = t
  BY <1>1 DEF Undisturbed
<1>2. CASE s # NO_SEM /\ u = JoinSem(t, s, p)
  <2>1. s \in SEMS /\ s \in OpenSems(t)
    BY <1>2, FoundIsOpen DEF OpenSems
  <2> HIDE DEF s
  <2> DEFINE a == t.list[s]
             who == a.interested \cup {p}
             e == [a EXCEPT !.interested = who]
  <2>2. /\ t \in SemTables /\ a \in Semaphore(Names, Callers)
        /\ t.active \in Nat /\ t.active <= MAX_OPEN
    BY <2>1 DEF TableInv, SemTables
  <2>3. who \in SUBSET Callers
    BY <2>1, <2>2, SemFields
  <2>4. u = WithSem(t, s, e, t.active)
    BY <1>2 DEF JoinSem
  <2>5. a.interested # {} /\ a.sem_value \in Nat /\ a.lock = 1
    BY <2>1 DEF OpenSems, TableInv
  <2> HIDE DEF a, u, who
  <2>6. /\ e \in Semaphore(Names, Callers) /\ e.sem_value = a.sem_value
        /\ e.interested = who /\ e.lock = a.lock /\ e.waiting = a.waiting
    BY <2>2, <2>3, SharedSem
  <2>7. who # {} /\ a.interested \subseteq who
    BY DEF who
  <2> HIDE DEF e
  <2>8. TableInv(u) /\ u.list[s] = e /\ \A r \in SEMS \ {s} : u.list[r] = t.list[r]
    <3>1. Fits(t, s, e, t.active)
      BY <2>1, <2>2, <2>5, <2>6, <2>7 DEF Fits
    <3> QED
      BY <2>1, <2>4, <3>1, SlotChange
  <2>9. Undisturbed(t, u)
    BY <2>6, <2>7, <2>8 DEF Undisturbed, a
  <2> QED
    BY <2>8, <2>9 DEF u
<1>3. CASE CanCreate(t, v) /\ u = CreateSem(t, p, name, v)
  <2> PICK r : r = Min(SEMS \ OpenSems(t))
    OBVIOUS
  <2> HIDE DEF u
  <2>1. /\ r \in SEMS \ OpenSems(t) /\ TableInv(u)
        /\ \A i \in SEMS \ {r} : u.list[i] = t.list[i]
        /\ u.list[r].interested = {p} /\ u.list[r].waiting = t.list[r].waiting
    BY <1>3, CreateSlot
  <2>2. Undisturbed(t, u)
    BY <2>1 DEF Undisturbed, OpenSems
  <2> QED
    BY <2>1, <2>2 DEF u
<1> QED
  BY <1>1, <1>2, <1>3 DEF OpenSem, OpenedSem

LEMMA CloseKeeps ==
  ASSUME NEW t, TableInv(t), NEW s \in SEMS, NEW p \in Callers
  PROVE  LET u == CloseSem(t, s, p)
         IN  /\ TableInv(u)
             /\ u.list[s].interested = t.list[s].interested \ {p}
             /\ u.list[s].waiting = t.list[s].waiting
             /\ u.list[s].sem_value = IF t.list[s].interested = {p} THEN 0
                                      ELSE t.list[s].sem_value
             /\ \A r \in SEMS \ {s} : u.list[r] = t.list[r]
<1> DEFINE u == CloseSem(t, s, p)
           a == t.list[s]
           who == a.interested \ {p}
<1>1. /\ t \in SemTables /\ a \in Semaphore(Names, Callers) /\ t.active \in Nat
      /\ t.active <= MAX_OPEN /\ a.sem_value \in Nat /\ a.interested \in SUBSET Callers
      /\ a.interested # {} => a.lock = 1
  BY SemFields DEF TableInv, SemTables
<1>2. (s \in OpenSems(t) <=> a.interested # {}) /\ (Interested(t, s, p) <=> p \in a.interested)
  BY DEF OpenSems, Interested
<1>3. CASE p \notin a.interested
  BY <1>1, <1>2, <1>3 DEF CloseSem
<1>4. CASE a.interested = {p}
  <2> PICK v \in Int : v = 0
    OBVIOUS
  <2> PICK w \in SUBSET Callers : w = {}
    OBVIOUS
  <2> DEFINE e == [a EXCEPT !.name = NO_NAME, !.sem_value = v, !.interested = w]
  <2>1. /\ e \in Semaphore(Names, Callers) /\ e.name = NO_NAME /\ e.sem_value = 0
        /\ e.interested = {} /\ e.lock = a.lock /\ e.waiting = a.waiting
    <3>1. a \in Semaphore(Names, Callers) /\ e = [a EXCEPT !.name = NO_NAME, !.sem_value = v, !.interested = w]
      BY <1>1
    <3> HIDE DEF a, u, e
    <3>2. /\ e \in Semaphore(Names, Callers) /\ e.name = NO_NAME /\ e.sem_value = v
          /\ e.interested = w /\ e.lock = a.lock /\ e.waiting = a.waiting
      BY <3>1 DEF Semaphore
    <3> QED
      BY <3>2
  <2>2. u = WithSem(t, s, e, t.active - 1)
    BY <1>2, <1>4 DEF CloseSem
  <2>3. t.active - 1 \in Nat /\ t.active - 1 <= MAX_OPEN
    <3>1. s \in OpenSems(t) /\ IsFiniteSet(OpenSems(t)) /\ t.active = Cardinality(OpenSems(t))
      BY <1>2, <1>4, SetsOfSems DEF TableInv, OpenSems
    <3>2. t.active # 0
      BY <3>1, FS_EmptySet
    <3> QED
      BY <1>1, <3>2, SemTableAssumption
  <2> HIDE DEF e, u, a
  <2>4. TableInv(u) /\ u.list[s] = e /\ \A r \in SEMS \ {s} : u.list[r] = t.list[r]
    <3>1. Fits(t, s, e, t.active - 1)
      BY <1>2, <1>4, <2>1, <2>3 DEF Fits
    <3> QED
      BY <2>2, <3>1, SlotChange
  <2> QED
    BY <1>4, <2>1, <2>4 DEF a, u
<1>5. CASE p \in a.interested /\ a.interested # {p}
  <2> DEFINE e == [a EXCEPT !.interested = who]
  <2>1. who \in SUBSET Callers /\ who # {}
    BY <1>1, <1>5
  <2>2. u = WithSem(t, s, e, t.active)
    BY <1>2, <1>5 DEF CloseSem
  <2> HIDE DEF u, a, who
  <2>3. /\ e \in Semaphore(Names, Callers) /\ e.sem_value = a.sem_value
        /\ e.interested = who /\ e.lock = a.lock /\ e.waiting = a.waiting
    BY <1>1, <2>1, SharedSem
  <2> HIDE DEF e
  <2>4. TableInv(u) /\ u.list[s] = e /\ \A r \in SEMS \ {s} : u.list[r] = t.list[r]
    <3>1. Fits(t, s, e, t.active)
      BY <1>1, <1>2, <1>5, <2>1, <2>3 DEF Fits
    <3> QED
      BY <2>2, <3>1, SlotChange
  <2> QED
    BY <1>5, <2>3, <2>4 DEF a, u, who
<1> QED
  BY <1>3, <1>4, <1>5

(* sem_wait's turns and sem_post: only the queue and the value change.     *)
LEMMA EnqueueKeeps ==
  ASSUME NEW t, TableInv(t), NEW s \in SEMS, NEW p \in Callers,
         NEW u, u = EnqueueSem(t, s, p)
  PROVE  /\ TableInv(u)
         /\ u.list[s].interested = t.list[s].interested
         /\ u.list[s].sem_value = t.list[s].sem_value
         /\ u.list[s].waiting = Append(t.list[s].waiting, p)
         /\ \A r \in SEMS \ {s} : u.list[r] = t.list[r]
<1> DEFINE a == t.list[s]
           queue == Append(a.waiting, p)
           e == [a EXCEPT !.waiting = queue]
<1>1. /\ t \in SemTables /\ a \in Semaphore(Names, Callers) /\ t.active \in Nat
      /\ t.active <= MAX_OPEN /\ a.sem_value \in Nat /\ a.waiting \in Seq(Callers)
      /\ a.interested = {} => a.name = NO_NAME
      /\ a.interested # {} => a.lock = 1
      /\ s \in OpenSems(t) <=> a.interested # {}
  BY SemFields DEF TableInv, SemTables, OpenSems
<1>2. queue \in Seq(Callers)
  BY <1>1
<1>3. u = WithSem(t, s, e, t.active)
  BY DEF EnqueueSem
<1> HIDE DEF a, queue
<1>4. /\ e \in Semaphore(Names, Callers) /\ e.name = a.name /\ e.sem_value = a.sem_value
      /\ e.interested = a.interested /\ e.lock = a.lock /\ e.waiting = queue
  BY <1>1, <1>2, QueuedSem
<1> HIDE DEF e
<1>5. Fits(t, s, e, t.active)
  BY <1>1, <1>4 DEF Fits
<1>6. TableInv(u) /\ u.list[s] = e /\ \A r \in SEMS \ {s} : u.list[r] = t.list[r]
  BY ONLY TableInv(t), s \in SEMS, <1>3, <1>5, SlotChange
<1> QED
  BY <1>4, <1>6 DEF a, queue

LEMMA TakeKeeps ==
  ASSUME NEW t, TableInv(t), NEW s \in SEMS, t.list[s].sem_value > 0,
         NEW u, u = TakeSem(t, s, 1)
  PROVE  /\ TableInv(u)
         /\ u.list[s].interested = t.list[s].interested
         /\ u.list[s].sem_value = t.list[s].sem_value - 1
         /\ u.list[s].waiting = t.list[s].waiting
         /\ \A r \in SEMS \ {s} : u.list[r] = t.list[r]
<1> DEFINE a == t.list[s]
           v == a.sem_value - 1
           e == [a EXCEPT !.sem_value = v]
<1>1. /\ t \in SemTables /\ a \in Semaphore(Names, Callers) /\ t.active \in Nat
      /\ t.active <= MAX_OPEN /\ a.sem_value \in Nat
      /\ a.interested = {} => a.name = NO_NAME
      /\ a.interested # {} => a.lock = 1
      /\ s \in OpenSems(t) <=> a.interested # {}
  BY SemFields DEF TableInv, SemTables, OpenSems
<1>2. v \in Int /\ v \in Nat
  BY <1>1
<1>3. u = WithSem(t, s, e, t.active)
  BY DEF TakeSem
<1> HIDE DEF a, v
<1>4. /\ e \in Semaphore(Names, Callers) /\ e.name = a.name /\ e.sem_value = v
      /\ e.interested = a.interested /\ e.lock = a.lock /\ e.waiting = a.waiting
  BY <1>1, <1>2, ValuedSem
<1> HIDE DEF e
<1>5. Fits(t, s, e, t.active)
  BY <1>1, <1>2, <1>4 DEF Fits
<1>6. TableInv(u) /\ u.list[s] = e /\ \A r \in SEMS \ {s} : u.list[r] = t.list[r]
  BY ONLY TableInv(t), s \in SEMS, <1>3, <1>5, SlotChange
<1> QED
  BY <1>4, <1>6 DEF a, v

LEMMA PostKeeps ==
  ASSUME NEW t, TableInv(t), NEW s \in SEMS, NEW u, u = PostSem(t, s, 1)
  PROVE  /\ TableInv(u)
         /\ u.list[s].interested = t.list[s].interested
         /\ u.list[s].sem_value = t.list[s].sem_value + 1
         /\ u.list[s].waiting = SubSeq(t.list[s].waiting, 2, Len(t.list[s].waiting))
         /\ \A r \in SEMS \ {s} : u.list[r] = t.list[r]
<1> DEFINE a == t.list[s]
           v == a.sem_value + 1
           queue == SubSeq(a.waiting, 2, Len(a.waiting))
           e == [a EXCEPT !.sem_value = v, !.waiting = queue]
<1>1. /\ t \in SemTables /\ a \in Semaphore(Names, Callers) /\ t.active \in Nat
      /\ t.active <= MAX_OPEN /\ a.sem_value \in Nat /\ a.waiting \in Seq(Callers)
      /\ a.interested = {} => a.name = NO_NAME
      /\ a.interested # {} => a.lock = 1
      /\ s \in OpenSems(t) <=> a.interested # {}
  BY SemFields DEF TableInv, SemTables, OpenSems
<1>2. v \in Int /\ v \in Nat
  BY <1>1
<1>3. queue \in Seq(Callers)
  <2>1. \A i \in 2..Len(a.waiting) : a.waiting[i] \in Callers
    BY <1>1, ElementOfSeq
  <2> QED
    BY <1>1, <2>1, LenProperties, SubSeqProperties
<1>4. u = WithSem(t, s, e, t.active)
  BY DEF PostSem
<1> HIDE DEF a, v, queue
<1>5. /\ e \in Semaphore(Names, Callers) /\ e.name = a.name /\ e.sem_value = v
      /\ e.interested = a.interested /\ e.lock = a.lock /\ e.waiting = queue
  BY <1>1, <1>2, <1>3 DEF Semaphore
<1> HIDE DEF e
<1>6. Fits(t, s, e, t.active)
  BY <1>1, <1>2, <1>5 DEF Fits
<1>7. TableInv(u) /\ u.list[s] = e /\ \A r \in SEMS \ {s} : u.list[r] = t.list[r]
  BY ONLY TableInv(t), s \in SEMS, <1>4, <1>6, SlotChange
<1> QED
  BY <1>5, <1>7 DEF a, v, queue

-----------------------------------------------------------------------------
(* The calls.                                                              *)

(* A semaphore somebody waits on is open for the waiter.                   *)
WaitersInside ==
    /\ inWait \in [PIDS -> SEMS \cup {NOT_IN}]
    /\ \A p \in PIDS : inWait[p] # NOT_IN => Interested(sems, inWait[p], p)

SemInv ==
    /\ SchedInv(sched)
    /\ TableInv(sems)
    /\ WaitersInside
    /\ stuck \in BOOLEAN

LEMMA CallerIsStored ==
  ASSUME SchedInv(sched), InSyscall
  PROVE  Current \in Callers
  BY DEF SchedInv, SchedStates, CurrentHasCpu, InSyscall, Current, Callers

(* A caller is not inside sem_wait, unless it has been resumed.            *)
LEMMA CallerIsOutside ==
  ASSUME SemInv, MayCall
  PROVE  /\ Current \in Callers
         /\ Current \in PIDS => inWait[Current] = NOT_IN
  BY CallerIsStored DEF SemInv, MayCall, InSemWait

LEMMA SemOpenStep ==
  ASSUME SemInv, NEW name \in Names, NEW v \in InitValues, SemOpen(name, v)
  PROVE  SemInv'
<1>1. v \in Int /\ Current \in Callers /\ TableInv(sems)
  BY SemAssumption, CallerIsOutside DEF SemOpen, SemInv
<1>2. sems' = OpenSem(sems, Current, name, v) /\ UNCHANGED <<sched, inWait, stuck>>
  BY DEF SemOpen
<1>3. TableInv(sems') /\ Undisturbed(sems, sems')
  BY ONLY <1>1, name \in Names, <1>2, OpenKeeps
<1>4. WaitersInside'
  BY <1>2, <1>3 DEF SemInv, WaitersInside, Interested, Undisturbed
<1> QED
  BY <1>2, <1>3, <1>4 DEF SemInv

LEMMA SemCloseStep ==
  ASSUME SemInv, NEW s \in SemArgs, SemClose(s)
  PROVE  SemInv'
<1>1. s \in SEMS /\ Current \in Callers /\ TableInv(sems)
  BY CallerIsOutside DEF SemClose, SemInv, Grabs, InRange
<1>2. sems' = CloseSem(sems, s, Current) /\ UNCHANGED <<sched, inWait, stuck>>
  BY DEF SemClose
<1>3. /\ TableInv(sems')
      /\ sems'.list[s].interested = sems.list[s].interested \ {Current}
      /\ \A r \in SEMS \ {s} : sems'.list[r] = sems.list[r]
  BY ONLY <1>1, <1>2, CloseKeeps
<1>4. Current \in PIDS => inWait[Current] = NOT_IN
  BY CallerIsOutside DEF SemClose
<1>5. WaitersInside'
  BY <1>2, <1>3, <1>4 DEF SemInv, WaitersInside, Interested
<1> QED
  BY <1>2, <1>3, <1>5 DEF SemInv

(* A turn of sem_wait's loop by a user p of the semaphore.                 *)
LEMMA WaitTurnStep ==
  ASSUME SemInv, NEW s \in SEMS, Current \in Callers, Interested(sems, s, Current),
         WaitTurn(s, Current), UNCHANGED stuck
  PROVE  SemInv'
<1> DEFINE p == Current
<1>1. TableInv(sems) /\ SchedInv(sched) /\ sems.list[s].sem_value \in Nat
  BY DEF SemInv, TableInv
<1>2. CASE Value(s) <= 0 /\ Enqueue(s, Current)
  <2>1. sems' = EnqueueSem(sems, s, p) /\ sched' = YieldCpu(Block(sched, p)) /\ WaitsFor(p, s)
    BY <1>2 DEF Enqueue
  <2>2. /\ TableInv(sems')
        /\ sems'.list[s].interested = sems.list[s].interested
        /\ \A r \in SEMS \ {s} : sems'.list[r] = sems.list[r]
    BY ONLY <1>1, s \in SEMS, Current \in Callers, <2>1, EnqueueKeeps
  <2>3. SchedInv(sched')
    <3>1. p \in Int
      BY DEF Callers, PIDS
    <3>2. SchedInv(Block(sched, p))
      BY <1>1, <3>1, BlockInv
    <3> QED
      BY <2>1, <3>2, YieldInv
  <2>4. WaitersInside'
    BY <2>1, <2>2 DEF SemInv, WaitersInside, WaitsFor, Interested
  <2> QED
    BY <2>2, <2>3, <2>4 DEF SemInv
<1>3. CASE ~(Value(s) <= 0) /\ Take(s, Current)
  <2>1. sems' = TakeSem(sems, s, 1) /\ sched' = sched /\ WaitsFor(p, NOT_IN)
    BY <1>3 DEF Take
  <2>2. sems.list[s].sem_value > 0
    BY <1>1, <1>3 DEF Value
  <2>3. /\ TableInv(sems')
        /\ sems'.list[s].interested = sems.list[s].interested
        /\ \A r \in SEMS \ {s} : sems'.list[r] = sems.list[r]
    BY ONLY <1>1, s \in SEMS, <2>1, <2>2, TakeKeeps
  <2>4. WaitersInside'
    BY <2>1, <2>3 DEF SemInv, WaitersInside, WaitsFor, Interested
  <2> QED
    BY <1>1, <2>1, <2>3, <2>4 DEF SemInv
<1> QED
  BY <1>2, <1>3 DEF WaitTurn

LEMMA SemWaitStep ==
  ASSUME SemInv, NEW s \in SemArgs, SemWait(s)
  PROVE  SemInv'
<1>1. /\ s \in SEMS /\ Current \in Callers /\ Interested(sems, s, Current)
      /\ WaitTurn(s, Current) /\ UNCHANGED stuck
  BY CallerIsOutside DEF SemWait, Grabs, InRange
<1> QED
  BY <1>1, WaitTurnStep

LEMMA ResumeStep ==
  ASSUME SemInv, Resume
  PROVE  SemInv'
<1>1. /\ inWait[Current] \in SEMS /\ Current \in Callers
      /\ Interested(sems, inWait[Current], Current)
      /\ WaitTurn(inWait[Current], Current) /\ UNCHANGED stuck
  BY DEF Resume, InSemWait, SemInv, WaitersInside, Callers, Grabs, InRange
<1> QED
  BY <1>1, WaitTurnStep

LEMMA SemPostStep ==
  ASSUME SemInv, NEW s \in SemArgs, SemPost(s)
  PROVE  SemInv'
<1>1. s \in SEMS /\ TableInv(sems) /\ SchedInv(sched)
  BY DEF SemPost, SemInv, Grabs, InRange
<1>2. sems' = PostSem(sems, s, 1) /\ UNCHANGED <<inWait, stuck>>
  BY DEF SemPost
<1>3. /\ TableInv(sems')
      /\ sems'.list[s].interested = sems.list[s].interested
      /\ \A r \in SEMS \ {s} : sems'.list[r] = sems.list[r]
  BY ONLY <1>1, <1>2, PostKeeps
<1>4. WaitersInside'
  BY <1>2, <1>3 DEF SemInv, WaitersInside, Interested
<1>5. SchedInv(sched')
  <2>1. CASE Queue(s) = <<>>
    BY <1>1, <2>1 DEF SemPost
  <2>2. CASE Queue(s) # <<>>
    <3>1. Queue(s) \in Seq(Callers)
      BY <1>1, SemFields DEF TableInv, Queue
    <3>2. Head(Queue(s)) \in Callers
      BY <2>2, <3>1, HeadTailProperties
    <3>3. Head(Queue(s)) \in Int
      BY <3>2 DEF Callers, PIDS
    <3> QED
      BY <1>1, <2>2, <3>3, UnblockInv DEF SemPost
  <2> QED
    BY <2>1, <2>2
<1> QED
  BY <1>2, <1>3, <1>4, <1>5 DEF SemInv

(* The free slot that create_process takes.                                *)
LEMMA FirstFreeSlot ==
  ASSUME FreeSlots # {}
  PROVE  Min(FreeSlots) \in PIDS /\ sched.rsp[Min(FreeSlots)] = NULL
<1>1. FreeSlots \subseteq Nat
  BY DEF FreeSlots, PIDS
<1>2. Min(FreeSlots) \in FreeSlots
  BY <1>1, MinOfNaturals
<1> QED
  BY <1>2 DEF FreeSlots

LEMMA SystemStepStep ==
  ASSUME SemInv, SystemStep
  PROVE  SemInv'
<1>1. SchedInv(sched) /\ UNCHANGED <<sems, inWait, stuck>>
  BY DEF SemInv, SystemStep
<1>2. SchedInv(sched')
  <2>1. CASE Tick
    BY <1>1, <2>1, SwitchInv DEF Tick
  <2>2. ASSUME NEW prio \in PriorityArgs, FreeSlots # {}, Create(Min(FreeSlots), prio)
        PROVE  SchedInv(sched')
    <3> DEFINE p == Min(FreeSlots)
    <3>1. p \in PIDS /\ sched.rsp[p] = NULL /\ sched.currentPID # NO_PROC /\ prio \in Int
      BY <2>2, FirstFreeSlot, PriorityAssumption DEF Create, PIDS
    <3>2. sched' = ProcessWasCreated(sched, p, prio)
      BY <2>2 DEF Create
    <3> HIDE DEF p
    <3> QED
      BY <1>1, <3>1, <3>2, CreatedInv
  <2>3. ASSUME NEW p \in SpuriousArgs, Wake(p) PROVE SchedInv(sched')
    <3>1. p \in Int
      BY SemAssumption
    <3> QED
      BY <1>1, <2>3, <3>1, UnblockInv DEF Wake
  <2> QED
    BY <2>1, <2>2, <2>3 DEF SystemStep, Others
<1> QED
  BY <1>1, <1>2 DEF SemInv, WaitersInside

LEMMA DieStep ==
  ASSUME SemInv, Die
  PROVE  SemInv'
<1>1. SchedInv(sched) /\ UNCHANGED <<sems, stuck>>
  BY DEF SemInv, Die
<1>2. SchedInv(sched')
  <2>1. ASSUME NEW p \in PIDS, Kill({p}) PROVE SchedInv(sched')
    BY <1>1, <2>1, KilledInv DEF Kill
  <2>2. CASE Exit
    <3> DEFINE dead == {sched.currentPID} \cap (PIDS \ {0})
               t    == ProcessWasKilled(sched, dead)
    <3>1. dead \in SUBSET PIDS
      OBVIOUS
    <3>2. SchedInv(t)
      BY <1>1, <3>1, KilledInv
    <3>3. sched' = YieldCpu(t)
      BY <2>2 DEF Exit
    <3> HIDE DEF t
    <3> QED
      BY <3>2, <3>3, YieldInv
  <2> QED
    BY <2>1, <2>2 DEF Die
<1>3. WaitersInside'
  BY <1>1 DEF Die, SemInv, WaitersInside
<1> QED
  BY <1>1, <1>2, <1>3 DEF SemInv

LEMMA SemInitInv == SemInit => SemInv
<1> SUFFICES ASSUME SemInit PROVE SemInv
  OBVIOUS
<1>1. SchedInv(sched)
  BY InitInv DEF SemInit
<1>2. sems = NoSemaphores /\ inWait = [p \in PIDS |-> NOT_IN] /\ stuck = FALSE
  BY DEF SemInit
<1>3. TableInv(sems)
  <2> DEFINE blank == [name |-> NO_NAME, sem_value |-> 0, lock |-> 0, interested |-> {},
                       waiting |-> <<>>]
  <2>1. blank \in Semaphore(Names, Callers)
    <3>1. <<>> \in Seq(Callers)
      OBVIOUS
    <3>2. {} \in SUBSET Callers
      OBVIOUS
    <3> QED
      BY <3>1, <3>2 DEF Semaphore
  <2>2. sems = [list |-> [s \in SEMS |-> blank], active |-> 0]
    BY <1>2 DEF NoSemaphores
  <2>3. blank.interested = {} /\ blank.name = NO_NAME /\ blank.sem_value = 0
    OBVIOUS
  <2> HIDE DEF blank
  <2>4. sems \in SemTables /\ sems.active = 0 /\ \A s \in SEMS : sems.list[s] = blank
    BY <2>1, <2>2 DEF SemTables
  <2>5. OpenSems(sems) = {}
    BY <2>3, <2>4 DEF OpenSems
  <2> QED
    BY <2>3, <2>4, <2>5, FS_EmptySet, SemTableAssumption DEF TableInv
<1> QED
  BY <1>1, <1>2, <1>3 DEF SemInv, WaitersInside

(* Spinning changes nothing but the flag that says so.                     *)
LEMMA SemStep == SemInv /\ [SemNext]_semVars => SemInv'
<1> SUFFICES ASSUME SemInv, [SemNext]_semVars PROVE SemInv'
  OBVIOUS
<1>1. ASSUME NEW s \in SemArgs, SpinForever(s) PROVE SemInv'
  BY <1>1 DEF SpinForever, SemInv, WaitersInside
<1>2. CASE UNCHANGED semVars
  BY <1>2 DEF semVars, SemInv, WaitersInside
<1> QED
  BY <1>1, <1>2, SemOpenStep, SemCloseStep, SemWaitStep, SemPostStep, ResumeStep,
     SystemStepStep, DieStep DEF SemNext

-----------------------------------------------------------------------------
(* As long as nobody dies, whoever is on the CPU is a live process.        *)

LEMMA UnblockRuns ==
  ASSUME NEW s, SchedInv(s), CurrentRuns(s), NEW p \in Int
  PROVE  CurrentRuns(Unblock(s, p))
  BY DEF SchedInv, SchedStates, CurrentRuns, Unblock

LEMMA CreatedRuns ==
  ASSUME NEW s, SchedInv(s), CurrentRuns(s), NEW p \in PIDS, s.rsp[p] = NULL, NEW prio \in Int
  PROVE  CurrentRuns(ProcessWasCreated(s, p, prio))
<1>1. s.currentPID # p
  BY DEF SchedInv, CurrentHasCpu, Alive
<1> QED
  BY <1>1, CreatedKeeps DEF CurrentRuns

(* A turn that blocks ends in a switch.                                    *)
LEMMA EnqueueRuns ==
  ASSUME SemInv, NEW s, Current \in Callers, Enqueue(s, Current)
  PROVE  CurrentRuns(sched')
<1>1. Current \in Int
  BY DEF Callers, PIDS
<1>2. SchedInv(Block(sched, Current))
  BY <1>1, BlockInv DEF SemInv
<1> QED
  BY <1>2, YieldRuns DEF Enqueue

(* The caller of a call that the process on the CPU makes.                 *)
LEMMA CallerIsAlive ==
  ASSUME SemInv, CurrentRuns(sched), InSyscall
  PROVE  Current \in PIDS /\ sched.status[Current] = "RUNNING" /\ sched.rsp[Current] # NULL
  BY DEF SemInv, SchedInv, SchedStates, CurrentHasCpu, CurrentRuns, InSyscall, Current, Alive

(* What a post does to the scheduler.                                      *)
LEMMA PostWakes ==
  ASSUME SemInv, NEW s \in SemArgs, SemPost(s)
  PROVE  /\ s \in SEMS /\ Queue(s) \in Seq(Callers)
         /\ Queue(s) = <<>> => sched' = sched
         /\ Queue(s) # <<>> => /\ Head(Queue(s)) \in Callers /\ Head(Queue(s)) \in Int
                               /\ sched' = Unblock(sched, Head(Queue(s)))
<1>1. s \in SEMS /\ TableInv(sems)
  BY DEF SemPost, SemInv, Grabs, InRange
<1>2. Queue(s) \in Seq(Callers)
  BY <1>1, SemFields DEF TableInv, Queue
<1>3. Queue(s) # <<>> => Head(Queue(s)) \in Callers
  BY <1>2, HeadTailProperties
<1> QED
  BY <1>1, <1>2, <1>3 DEF SemPost, Callers, PIDS

LEMMA RunsStep ==
  ASSUME ~Deaths, SemInv, CurrentRuns(sched), [SemNext]_semVars
  PROVE  CurrentRuns(sched')
<1>1. SchedInv(sched)
  BY DEF SemInv
<1>2. CASE UNCHANGED sched
  BY <1>2
<1>3. ASSUME NEW s, Current \in Callers, WaitTurn(s, Current) PROVE CurrentRuns(sched')
  BY <1>3, EnqueueRuns DEF WaitTurn, Take
<1>4. ASSUME NEW s \in SemArgs, SemWait(s) PROVE CurrentRuns(sched')
  BY <1>3, <1>4, CallerIsOutside DEF SemWait
<1>5. CASE Resume
  BY <1>3, <1>5 DEF Resume, InSemWait, Callers
<1>6. ASSUME NEW s \in SemArgs, SemPost(s) PROVE CurrentRuns(sched')
  BY <1>1, <1>6, PostWakes, UnblockRuns
<1>7. CASE SystemStep
  <2>1. CASE Tick
    BY <1>1, <2>1, SwitchRuns DEF Tick
  <2>2. ASSUME NEW prio \in PriorityArgs, FreeSlots # {}, Create(Min(FreeSlots), prio)
        PROVE  CurrentRuns(sched')
    <3>1. Min(FreeSlots) \in PIDS /\ sched.rsp[Min(FreeSlots)] = NULL /\ prio \in Int
      BY <2>2, FirstFreeSlot, PriorityAssumption
    <3> QED
      BY <1>1, <2>2, <3>1, CreatedRuns DEF Create
  <2>3. ASSUME NEW p \in SpuriousArgs, Wake(p) PROVE CurrentRuns(sched')
    BY <1>1, <2>3, UnblockRuns, SemAssumption DEF Wake
  <2> QED
    BY <1>7, <2>1, <2>2, <2>3 DEF SystemStep, Others
<1>8. CASE Die
  BY <1>8 DEF Die
<1> QED
  BY <1>2, <1>4, <1>5, <1>6, <1>7, <1>8 DEF SemNext, semVars, SemOpen, SemClose, SpinForever

-----------------------------------------------------------------------------
(* Sleeping and waking, when only sem_post wakes.                          *)

(* The queue of s holds processes, each once: those that sleep for s.       *)
Sleeps(p, s) == inWait[p] = s /\ sched.status[p] = "BLOCKED"

QueuesAreRight ==
    \A s \in SEMS : /\ Once(Queue(s))
                    /\ \A x : InQueue(Queue(s), x) => x \in PIDS
                    /\ \A p \in PIDS : InQueue(Queue(s), p) <=> Sleeps(p, s)

(* The strengthening of QueueIsTheSleepers and NoLostWakeup: a process in   *)
(* sem_wait is alive, so its slot is not given away while it sleeps.       *)
QuietInv ==
    /\ SemInv
    /\ CurrentRuns(sched)
    /\ \A p \in PIDS : inWait[p] # NOT_IN => sched.rsp[p] # NULL
    /\ QueuesAreRight
    /\ NoLostWakeup

LEMMA RightQueuesSleep == QueuesAreRight => QueueIsTheSleepers
  BY DEF QueuesAreRight, QueueIsTheSleepers, Sleeps, InQueue, Once

LEMMA WokenByQueue ==
  ASSUME NEW s
  PROVE  Woken(s) = {p \in PIDS : inWait[p] = s /\ ~InQueue(Queue(s), p)}
  BY DEF Woken, InQueue

(* A step that moves nobody in or out of a queue or of sem_wait, and       *)
(* raises no value somebody waits for.                                     *)
LEMMA CalmQueues ==
  ASSUME QuietInv, SemInv', CurrentRuns(sched'), UNCHANGED inWait,
         \A s \in SEMS : /\ Queue(s)' = Queue(s)
                         /\ Queue(s) # <<>> => Value(s)' = Value(s),
         \A p \in PIDS : /\ inWait[p] # NOT_IN => sched'.rsp[p] # NULL
                         /\ inWait[p] # NOT_IN =>
                               (sched'.status[p] = "BLOCKED" <=> sched.status[p] = "BLOCKED")
  PROVE  QuietInv'
<1>1. \A s \in SEMS, p \in PIDS : Sleeps(p, s)' <=> Sleeps(p, s)
  BY DEF Sleeps, SEMS
<1>2. QueuesAreRight'
  BY <1>1 DEF QuietInv, QueuesAreRight
<1>3. NoLostWakeup'
  BY DEF QuietInv, NoLostWakeup, Woken
<1> QED
  BY <1>2, <1>3 DEF QuietInv

LEMMA OpenQuiet ==
  ASSUME QuietInv, SemInv', CurrentRuns(sched'),
         NEW name \in Names, NEW v \in InitValues, SemOpen(name, v)
  PROVE  QuietInv'
<1>1. v \in Int /\ Current \in Callers /\ TableInv(sems)
  BY SemAssumption, CallerIsOutside DEF SemOpen, SemInv, QuietInv
<1>2. sems' = OpenSem(sems, Current, name, v) /\ UNCHANGED <<sched, inWait>>
  BY DEF SemOpen
<1>3. Undisturbed(sems, sems')
  BY ONLY <1>1, name \in Names, <1>2, OpenKeeps
<1>4. ASSUME NEW s \in SEMS, Queue(s) # <<>> PROVE s \in OpenSems(sems)
  <2>1. Queue(s) \in Seq(Callers)
    BY <1>1, SemFields DEF TableInv, Queue
  <2>2. InQueue(Queue(s), Head(Queue(s)))
    BY <1>4, <2>1, LeavesQueue
  <2> QED
    BY <2>2 DEF QuietInv, QueuesAreRight, Sleeps, SemInv, WaitersInside, Interested, OpenSems, SEMS
<1>5. \A s \in SEMS : /\ Queue(s)' = Queue(s)
                      /\ Queue(s) # <<>> => Value(s)' = Value(s)
  BY <1>3, <1>4 DEF Undisturbed, Queue, Value
<1>6. \A p \in PIDS : inWait[p] # NOT_IN => sched'.rsp[p] # NULL
  BY <1>2 DEF QuietInv
<1> QED
  BY <1>2, <1>5, <1>6, CalmQueues

LEMMA CloseQuiet ==
  ASSUME QuietInv, SemInv', CurrentRuns(sched'), NEW s \in SemArgs, SemClose(s)
  PROVE  QuietInv'
<1>1. s \in SEMS /\ Current \in Callers /\ TableInv(sems)
  BY CallerIsOutside DEF SemClose, SemInv, Grabs, InRange, QuietInv
<1>2. sems' = CloseSem(sems, s, Current) /\ UNCHANGED <<sched, inWait>>
  BY DEF SemClose
<1>3. /\ sems'.list[s].waiting = sems.list[s].waiting
      /\ sems'.list[s].sem_value = IF sems.list[s].interested = {Current} THEN 0
                                   ELSE sems.list[s].sem_value
      /\ \A r \in SEMS \ {s} : sems'.list[r] = sems.list[r]
  BY ONLY <1>1, <1>2, CloseKeeps
<1>4. Current \in PIDS => inWait[Current] = NOT_IN
  BY CallerIsOutside DEF SemClose, QuietInv
<1>5. ASSUME Queue(s) # <<>> PROVE sems.list[s].interested # {Current}
  <2>1. Queue(s) \in Seq(Callers)
    BY <1>1, SemFields DEF TableInv, Queue
  <2>2. InQueue(Queue(s), Head(Queue(s)))
    BY <1>5, <2>1, LeavesQueue
  <2> DEFINE p == Head(Queue(s))
  <2>3. p \in PIDS /\ inWait[p] = s
    BY <1>1, <2>2 DEF QuietInv, QueuesAreRight, Sleeps
  <2>4. p \in sems.list[s].interested /\ inWait[p] # NOT_IN
    BY <1>1, <2>3 DEF QuietInv, SemInv, WaitersInside, Interested, SEMS
  <2> QED
    BY <1>4, <2>3, <2>4
<1>6. \A r \in SEMS : /\ Queue(r)' = Queue(r)
                      /\ Queue(r) # <<>> => Value(r)' = Value(r)
  BY <1>3, <1>5 DEF Queue, Value
<1>7. \A p \in PIDS : inWait[p] # NOT_IN => sched'.rsp[p] # NULL
  BY <1>2 DEF QuietInv
<1> QED
  BY <1>2, <1>6, <1>7, CalmQueues

LEMMA SystemQuiet ==
  ASSUME SpuriousArgs = {}, QuietInv, SemInv', CurrentRuns(sched'), SystemStep
  PROVE  QuietInv'
<1>1. SchedInv(sched) /\ UNCHANGED <<sems, inWait>>
  BY DEF QuietInv, SemInv, SystemStep
<1>2. \A p \in PIDS : inWait[p] # NOT_IN =>
          /\ sched'.rsp[p] # NULL
          /\ sched'.status[p] = "BLOCKED" <=> sched.status[p] = "BLOCKED"
  <2>1. CASE Tick
    BY <1>1, <2>1, SwitchKeeps DEF Tick, SameStacks, SameAwake, QuietInv
  <2>2. ASSUME NEW prio \in PriorityArgs, FreeSlots # {}, Create(Min(FreeSlots), prio)
        PROVE  \A p \in PIDS : inWait[p] # NOT_IN =>
                  /\ sched'.rsp[p] # NULL
                  /\ sched'.status[p] = "BLOCKED" <=> sched.status[p] = "BLOCKED"
    <3> DEFINE n == Min(FreeSlots)
    <3>1. n \in PIDS /\ sched.rsp[n] = NULL /\ prio \in Int
      BY <2>2, FirstFreeSlot, PriorityAssumption
    <3>2. sched' = ProcessWasCreated(sched, n, prio)
      BY <2>2 DEF Create
    <3> HIDE DEF n
    <3>3. inWait[n] = NOT_IN
      BY <3>1 DEF QuietInv
    <3> QED
      BY <1>1, <3>1, <3>2, <3>3, CreatedKeeps DEF QuietInv
  <2> QED
    BY <2>1, <2>2 DEF SystemStep, Others
<1>3. \A s \in SEMS : /\ Queue(s)' = Queue(s)
                      /\ Queue(s) # <<>> => Value(s)' = Value(s)
  BY <1>1 DEF Queue, Value
<1> QED
  BY <1>1, <1>2, <1>3, CalmQueues

(* A step that changes slot s only and moves p only, in or out of sem_wait *)
(* on s.                                                                   *)
OnlySlot(s, p) ==
    /\ \A r \in SEMS \ {s} : Queue(r)' = Queue(r) /\ Value(r)' = Value(r)
    /\ inWait[p] \in {s, NOT_IN} /\ inWait'[p] \in {s, NOT_IN}
    /\ \A q \in PIDS \ {p} : inWait'[q] = inWait[q]
    /\ \A q \in PIDS : inWait'[q] # NOT_IN => sched'.rsp[q] # NULL
    /\ \A q \in PIDS : inWait[q] \notin {s, NOT_IN} =>
           (sched'.status[q] = "BLOCKED" <=> sched.status[q] = "BLOCKED")

(* The slot is left as it should be.                                       *)
SlotIsRight(s) ==
    /\ Once(Queue(s))
    /\ \A x : InQueue(Queue(s), x) => x \in PIDS
    /\ \A q \in PIDS : InQueue(Queue(s), q) <=> Sleeps(q, s)
    /\ Queue(s) # <<>> => Value(s) <= Cardinality(Woken(s))

LEMMA OneQueue ==
  ASSUME QuietInv, SemInv', CurrentRuns(sched'), NEW s \in SEMS, NEW p \in PIDS,
         OnlySlot(s, p), SlotIsRight(s)'
  PROVE  QuietInv'
<1> USE DEF OnlySlot, SlotIsRight
<1>1. ASSUME NEW r \in SEMS \ {s} PROVE /\ \A q \in PIDS : Sleeps(q, r)' <=> Sleeps(q, r)
                                        /\ Woken(r)' = Woken(r)
  <2>1. r # NOT_IN
    BY DEF SEMS
  <2>2. \A q \in PIDS : inWait'[q] = r <=> inWait[q] = r
    BY <2>1
  <2>3. \A q \in PIDS : inWait[q] = r =>
            (sched'.status[q] = "BLOCKED" <=> sched.status[q] = "BLOCKED")
    BY <2>1
  <2>4. Woken(r)' = {q \in PIDS : inWait'[q] = r /\ ~InQueue(Queue(r)', q)}
    BY DEF Woken, InQueue
  <2>5. Woken(r)' = Woken(r)
    BY <2>2, <2>4, WokenByQueue
  <2> QED
    BY <2>2, <2>3, <2>5 DEF Sleeps
<1>2. QueuesAreRight'
  BY <1>1 DEF QuietInv, QueuesAreRight
<1>3. NoLostWakeup'
  BY <1>1 DEF QuietInv, NoLostWakeup
<1> QED
  BY <1>2, <1>3 DEF QuietInv

LEMMA EnqueueQuiet ==
  ASSUME QuietInv, SemInv', CurrentRuns(sched'), InSyscall, NEW s \in SEMS,
         inWait[Current] \in {s, NOT_IN}, Value(s) <= 0, Enqueue(s, Current)
  PROVE  QuietInv'
<1> DEFINE p == Current
           q == Queue(s)
<1>1. /\ TableInv(sems) /\ SchedInv(sched) /\ p \in PIDS /\ p \in Callers /\ p \in Int
      /\ sched.status[p] = "RUNNING" /\ sched.rsp[p] # NULL
  BY CallerIsAlive DEF QuietInv, SemInv, Callers, PIDS
<1>2. sems' = EnqueueSem(sems, s, p) /\ sched' = YieldCpu(Block(sched, p)) /\ WaitsFor(p, s)
  BY DEF Enqueue
<1>3. /\ sems'.list[s].waiting = Append(sems.list[s].waiting, p)
      /\ sems'.list[s].sem_value = sems.list[s].sem_value
      /\ \A r \in SEMS \ {s} : sems'.list[r] = sems.list[r]
  BY ONLY <1>1, s \in SEMS, <1>2, EnqueueKeeps
<1>4. SameStacks(sched, sched') /\ sched'.status[p] = "BLOCKED"
        /\ \A x \in PIDS \ {p} : sched'.status[x] = "BLOCKED" <=> sched.status[x] = "BLOCKED"
  <2> DEFINE b == Block(sched, p)
  <2>1. SchedInv(b)
    BY <1>1, BlockInv
  <2>2. /\ SameStacks(sched, b) /\ b.status[p] = "BLOCKED"
        /\ \A x \in PIDS \ {p} : b.status[x] = sched.status[x]
    BY <1>1, BlockKeeps DEF Alive
  <2> HIDE DEF b
  <2>3. SameStacks(b, YieldCpu(b)) /\ SameAwake(b, YieldCpu(b))
    BY <2>1, YieldKeeps
  <2> QED
    BY <1>1, <1>2, <2>2, <2>3 DEF SameStacks, SameAwake, b
<1>5. q \in Seq(Callers) /\ Queue(s)' = Append(q, p)
  BY <1>1, <1>3, SemFields DEF TableInv, Queue
<1>6. ~InQueue(q, p) /\ Once(q) /\ \A x : InQueue(q, x) => x \in PIDS
  BY <1>1 DEF QuietInv, QueuesAreRight, Sleeps
<1>7. /\ \A x : InQueue(Queue(s)', x) <=> InQueue(q, x) \/ x = p
      /\ Once(Queue(s)')
  <2> HIDE DEF q
  <2>1. q \in Seq(Callers) /\ p \in Callers /\ Queue(s)' = Append(q, p)
    BY <1>1, <1>5
  <2>2. /\ \A x : InQueue(Queue(s)', x) <=> InQueue(q, x) \/ x = p
        /\ Once(q) /\ ~InQueue(q, p) => Once(Queue(s)')
    BY ONLY <2>1, JoinsQueue
  <2> QED
    BY <1>6, <2>2
<1>8. inWait'[p] = s /\ \A x \in PIDS \ {p} : inWait'[x] = inWait[x]
  BY <1>1, <1>2 DEF WaitsFor
<1>9. \A x \in PIDS : InQueue(Queue(s)', x) <=> Sleeps(x, s)'
  BY <1>4, <1>7, <1>8 DEF QuietInv, QueuesAreRight, Sleeps
<1>10. Value(s)' <= Cardinality(Woken(s)')
  <2>1. Value(s)' = 0
    BY <1>1, <1>3 DEF Value, TableInv
  <2>2. Woken(s)' \in SUBSET PIDS
    BY DEF Woken
  <2>3. Cardinality(Woken(s)') \in Nat
    BY <2>2, SetsOfPids, FS_CardinalityType
  <2> QED
    BY <2>1, <2>3
<1>11. \A x \in PIDS : inWait'[x] # NOT_IN => sched'.rsp[x] # NULL
  BY <1>1, <1>4, <1>8 DEF QuietInv, SameStacks
<1>12. \A r \in SEMS \ {s} : Queue(r)' = Queue(r) /\ Value(r)' = Value(r)
  BY <1>3 DEF Queue, Value
<1>13. OnlySlot(s, p)
  BY <1>1, <1>4, <1>8, <1>11, <1>12 DEF OnlySlot
<1>14. SlotIsRight(s)'
  BY <1>1, <1>6, <1>7, <1>9, <1>10 DEF SlotIsRight
<1> QED
  BY <1>1, <1>13, <1>14, OneQueue

LEMMA TakeQuiet ==
  ASSUME QuietInv, SemInv', CurrentRuns(sched'), InSyscall, NEW s \in SEMS,
         inWait[Current] \in {s, NOT_IN}, ~(Value(s) <= 0), Take(s, Current)
  PROVE  QuietInv'
<1> DEFINE p == Current
           q == Queue(s)
<1>1. TableInv(sems) /\ p \in PIDS /\ sched.status[p] = "RUNNING"
  BY CallerIsAlive DEF QuietInv, SemInv
<1>2. sems' = TakeSem(sems, s, 1) /\ sched' = sched /\ WaitsFor(p, NOT_IN)
  BY DEF Take
<1>3. Value(s) \in Nat /\ sems.list[s].sem_value > 0
  BY <1>1 DEF Value, TableInv
<1>4. /\ sems'.list[s].waiting = sems.list[s].waiting
      /\ sems'.list[s].sem_value = sems.list[s].sem_value - 1
      /\ \A r \in SEMS \ {s} : sems'.list[r] = sems.list[r]
  BY ONLY <1>1, s \in SEMS, <1>2, <1>3, TakeKeeps
<1>5. Queue(s)' = q /\ Value(s)' = Value(s) - 1
  BY <1>4 DEF Queue, Value
<1>6. /\ inWait'[p] = NOT_IN /\ s # NOT_IN
      /\ \A x \in PIDS \ {p} : inWait'[x] = inWait[x]
  BY <1>1, <1>2 DEF WaitsFor, SEMS
<1>7. ~InQueue(q, p)
  BY <1>1 DEF QuietInv, QueuesAreRight, Sleeps
<1>8. OnlySlot(s, p)
  BY <1>1, <1>2, <1>4, <1>6 DEF OnlySlot, QuietInv, Queue, Value
<1>9. q # <<>> => Value(s)' <= Cardinality(Woken(s)')
  <2>1. Woken(s) \in SUBSET PIDS
    BY DEF Woken
  <2>2. IsFiniteSet(Woken(s)) /\ Cardinality(Woken(s)) \in Nat
    BY <2>1, SetsOfPids, FS_CardinalityType
  <2>3. Woken(s) = {x \in PIDS : inWait[x] = s /\ ~InQueue(q, x)}
    BY WokenByQueue
  <2>4. Woken(s)' = {x \in PIDS : inWait'[x] = s /\ ~InQueue(q, x)}
    BY <1>5 DEF Woken, InQueue
  <2> HIDE DEF q
  <2>5. Woken(s)' = Woken(s) \ {p}
    BY <1>1, <1>6, <2>3, <2>4
  <2>6. Cardinality(Woken(s)') >= Cardinality(Woken(s)) - 1
    <3>1. Cardinality(Woken(s) \ {p}) = IF p \in Woken(s) THEN Cardinality(Woken(s)) - 1
                                        ELSE Cardinality(Woken(s))
      BY <2>2, FS_RemoveElement
    <3>2. Cardinality(Woken(s)') = Cardinality(Woken(s) \ {p})
      BY <2>5
    <3> QED
      BY <2>2, <3>1, <3>2
  <2>7. q # <<>> => Value(s) <= Cardinality(Woken(s))
    BY DEF QuietInv, NoLostWakeup, q
  <2>8. Cardinality(Woken(s)') \in Nat
    BY <2>2, <2>5, FS_RemoveElement, FS_CardinalityType
  <2> QED
    BY <1>3, <1>5, <2>2, <2>6, <2>7, <2>8
<1>10. SlotIsRight(s)'
  <2>1. \A x \in PIDS : InQueue(q, x) <=> Sleeps(x, s)'
    BY <1>1, <1>2, <1>6, <1>7 DEF QuietInv, QueuesAreRight, Sleeps
  <2>2. Once(q) /\ \A x : InQueue(q, x) => x \in PIDS
    BY DEF QuietInv, QueuesAreRight
  <2> QED
    BY <1>5, <1>9, <2>1, <2>2 DEF SlotIsRight
<1> QED
  BY <1>1, <1>8, <1>10, OneQueue

LEMMA PostQuiet ==
  ASSUME QuietInv, SemInv', CurrentRuns(sched'), NEW s \in SemArgs, SemPost(s)
  PROVE  QuietInv'
<1> DEFINE q == Queue(s)
<1>1. s \in SEMS /\ TableInv(sems) /\ SchedInv(sched) /\ q \in Seq(Callers)
  BY PostWakes DEF QuietInv, SemInv
<1>2. sems' = PostSem(sems, s, 1) /\ UNCHANGED inWait
  BY DEF SemPost
<1>3. /\ sems'.list[s].waiting = SubSeq(sems.list[s].waiting, 2, Len(sems.list[s].waiting))
      /\ sems'.list[s].sem_value = sems.list[s].sem_value + 1
      /\ \A r \in SEMS \ {s} : sems'.list[r] = sems.list[r]
  BY ONLY <1>1, <1>2, PostKeeps
<1>4. /\ Queue(s)' = SubSeq(q, 2, Len(q)) /\ Value(s)' = Value(s) + 1
      /\ \A r \in SEMS \ {s} : Queue(r)' = Queue(r) /\ Value(r)' = Value(r)
  BY <1>3 DEF Queue, Value
<1>5. CASE q = <<>>
  <2>1. sched' = sched
    BY <1>5, PostWakes DEF QuietInv
  <2>2. Queue(s)' = q
    <3> HIDE DEF q
    <3> QED  BY <1>1, <1>4, <1>5, LeavesQueue
  <2> QED
    BY <1>2, <1>4, <1>5, <2>1, <2>2, CalmQueues DEF QuietInv
<1>6. CASE q # <<>>
  <2> DEFINE p == Head(q)
  <2>1. p \in Int /\ sched' = Unblock(sched, p)
    BY <1>6, PostWakes DEF QuietInv
  <2>2. /\ InQueue(q, p)
        /\ Once(q) => Once(Queue(s)') /\ \A x : InQueue(Queue(s)', x) <=> InQueue(q, x) /\ x # p
    <3> HIDE DEF q
    <3>1. q \in Seq(Callers) /\ Queue(s)' = SubSeq(q, 2, Len(q))
      BY <1>1, <1>4
    <3> QED
      BY ONLY <1>6, <3>1, LeavesQueue
  <2>3. Once(q) /\ \A x : InQueue(q, x) => x \in PIDS
    BY <1>1 DEF QuietInv, QueuesAreRight
  <2>4. \A x \in PIDS : InQueue(q, x) <=> Sleeps(x, s)
    BY <1>1 DEF QuietInv, QueuesAreRight
  <2> HIDE DEF p, q
  <2>5. p \in PIDS /\ inWait[p] = s /\ s # NOT_IN /\ sched.rsp[p] # NULL
    BY <1>1, <2>2, <2>3, <2>4 DEF Sleeps, QuietInv, SEMS
  <2>6. /\ SameStacks(sched, sched') /\ sched'.status[p] # "BLOCKED"
        /\ \A x \in PIDS \ {p} : sched'.status[x] = sched.status[x]
    BY <1>1, <2>1, <2>5, UnblockKeeps DEF Alive, Awake
  <2>7. OnlySlot(s, p)
    BY <1>2, <1>4, <2>5, <2>6 DEF OnlySlot, QuietInv, SameStacks
  <2>8. \A x \in PIDS : InQueue(Queue(s)', x) <=> Sleeps(x, s)'
    BY <1>2, <2>2, <2>3, <2>4, <2>6 DEF Sleeps
  <2>9. Value(s)' <= Cardinality(Woken(s)')
    <3>1. Woken(s) \in SUBSET PIDS
      BY DEF Woken
    <3>2. IsFiniteSet(Woken(s)) /\ Cardinality(Woken(s)) \in Nat
      BY <3>1, SetsOfPids, FS_CardinalityType
    <3>3. Woken(s) = {x \in PIDS : inWait[x] = s /\ ~InQueue(q, x)}
      BY WokenByQueue DEF q
    <3>4. Woken(s)' = {x \in PIDS : inWait'[x] = s /\ ~InQueue(Queue(s)', x)}
      BY DEF Woken, InQueue
    <3>5. Woken(s)' = Woken(s) \cup {p} /\ p \notin Woken(s)
      BY <1>2, <2>2, <2>3, <2>5, <3>3, <3>4
    <3>6. Cardinality(Woken(s)') = Cardinality(Woken(s)) + 1
      BY <3>2, <3>5, FS_AddElement
    <3>7. Value(s) <= Cardinality(Woken(s))
      BY <1>1, <1>6 DEF QuietInv, NoLostWakeup, q
    <3>8. Value(s) \in Nat
      BY <1>1 DEF TableInv, Value
    <3> QED
      BY <1>4, <3>2, <3>6, <3>7, <3>8
  <2>10. SlotIsRight(s)'
    BY <2>2, <2>3, <2>8, <2>9 DEF SlotIsRight
  <2> QED
    BY <1>1, <2>5, <2>7, <2>10, OneQueue
<1> QED
  BY <1>5, <1>6

LEMMA QuietSteps == ~Deaths /\ SpuriousArgs = {} /\ QuietInv /\ [SemNext]_semVars => QuietInv'
<1> SUFFICES ASSUME ~Deaths, SpuriousArgs = {}, QuietInv, [SemNext]_semVars PROVE QuietInv'
  OBVIOUS
<1>1. SemInv /\ SemInv' /\ CurrentRuns(sched')
  BY SemStep, RunsStep DEF QuietInv
<1>2. ASSUME UNCHANGED <<sched, sems, inWait>> PROVE QuietInv'
  BY <1>1, <1>2, CalmQueues DEF QuietInv, Queue, Value
<1>3. ASSUME NEW s \in SEMS, InSyscall, inWait[Current] \in {s, NOT_IN}, WaitTurn(s, Current)
      PROVE  QuietInv'
  BY <1>1, <1>3, EnqueueQuiet, TakeQuiet DEF WaitTurn
<1>4. ASSUME NEW s \in SemArgs, SemWait(s) PROVE QuietInv'
  <2>1. s \in SEMS /\ InSyscall /\ inWait[Current] = NOT_IN /\ WaitTurn(s, Current)
    BY <1>1, <1>4, CallerIsOutside, CallerIsAlive DEF SemWait, Grabs, InRange, MayCall, QuietInv
  <2> QED
    BY <1>3, <2>1
<1>5. CASE Resume
  <2>1. inWait[Current] \in SEMS /\ WaitTurn(inWait[Current], Current) /\ Current \in PIDS
    BY <1>5 DEF Resume, InSemWait, Grabs, InRange
  <2>2. InSyscall
    BY <1>1, <2>1 DEF SemInv, SchedInv, CurrentHasCpu, InSyscall, Current, PIDS
  <2> QED
    BY <1>3, <2>1, <2>2
<1>6. CASE Die
  BY <1>6 DEF Die
<1> QED
  BY <1>1, <1>2, <1>4, <1>5, <1>6, OpenQuiet, CloseQuiet, PostQuiet, SystemQuiet
  DEF SemNext, semVars, SpinForever

-----------------------------------------------------------------------------
(* The first slot is a counting semaphore: every step is one of its steps, *)
(* or changes nothing that its users see.                                  *)

CountingStep == [Counting!SNext]_(Counting!svars)

Waiters == {p \in PIDS : inWait[p] = 0}

LEMMA FirstSlot == 0 \in SEMS /\ NOT_IN # 0
  BY SemTableAssumption DEF SEMS

LEMMA Stutters ==
  ASSUME sems'.list[0] = sems.list[0], Waiters' = Waiters
  PROVE  CountingStep
  BY DEF CountingStep, Counting!svars, Waiters

(* The steps of the counting semaphore, in terms of the table.             *)
LEMMA AsksAndPasses ==
  ASSUME NEW p \in PIDS, sems.list[0].interested # {},
         sems'.list[0].interested = sems.list[0].interested,
         \/ /\ sems.list[0].sem_value > 0
            /\ sems'.list[0].sem_value = sems.list[0].sem_value - 1
            /\ Waiters' = Waiters \ {p}
         \/ /\ sems.list[0].sem_value = 0
            /\ sems'.list[0].sem_value = sems.list[0].sem_value
            /\ Waiters' = Waiters \cup {p}
  PROVE  CountingStep
<1>1. (sems'.list[0].interested # {}) = (sems.list[0].interested # {})
  OBVIOUS
<1>2. CASE sems.list[0].sem_value > 0 /\ p \in Waiters
  <2>1. Waiters' = Waiters \ {p}
    BY <1>2
  <2>2. sems'.list[0].sem_value = sems.list[0].sem_value - 1
    BY <1>2
  <2>3. Counting!Passed(p)
    BY <1>1, <1>2, <2>1, <2>2, Zenon DEF Counting!Passed, Waiters
  <2> QED
    BY <2>3 DEF CountingStep, Counting!SNext
<1>3. CASE sems.list[0].sem_value > 0 /\ p \notin Waiters
  <2>1. Waiters' = Waiters
    BY <1>3
  <2>2. sems'.list[0].sem_value = sems.list[0].sem_value - 1
    BY <1>3
  <2>3. Counting!Asked(p)
    BY <1>1, <1>3, <2>1, <2>2, Zenon DEF Counting!Asked, Waiters
  <2> QED
    BY <2>3 DEF CountingStep, Counting!SNext
<1>4. CASE sems.list[0].sem_value = 0 /\ p \notin Waiters
  <2>1. Waiters' = Waiters \cup {p}
    BY <1>4
  <2>2. sems'.list[0].sem_value = sems.list[0].sem_value
    BY <1>4
  <2>3. Counting!Asked(p)
    BY <1>1, <1>4, <2>1, <2>2, Zenon DEF Counting!Asked, Waiters
  <2> QED
    BY <2>3 DEF CountingStep, Counting!SNext
<1>5. CASE sems.list[0].sem_value = 0 /\ p \in Waiters
  <2>1. Waiters' = Waiters
    BY <1>5
  <2> QED
    BY <1>1, <1>5, <2>1, Zenon DEF CountingStep, Counting!svars, Waiters
<1> QED
  BY <1>2, <1>3, <1>4, <1>5

LEMMA OpenCounts ==
  ASSUME SemInv, NEW name \in Names, NEW v \in InitValues, SemOpen(name, v)
  PROVE  CountingStep
<1>1. v \in Int /\ Current \in Callers /\ TableInv(sems)
  BY SemAssumption, CallerIsOutside DEF SemOpen, SemInv
<1>2. sems' = OpenSem(sems, Current, name, v) /\ UNCHANGED inWait
  BY DEF SemOpen
<1>3. TableInv(sems') /\ Undisturbed(sems, sems')
  BY ONLY <1>1, name \in Names, <1>2, OpenKeeps
<1>4. /\ sems'.list[0].sem_value \in Nat
      /\ sems.list[0].interested # {} => sems'.list[0].interested # {}
      /\ \/ sems'.list[0].sem_value = sems.list[0].sem_value
         \/ sems.list[0].interested = {} /\ sems'.list[0].interested # {}
  BY <1>3, FirstSlot DEF TableInv, Undisturbed, OpenSems
<1> QED
  BY <1>2, <1>4 DEF CountingStep, Counting!svars, Counting!SNext, Counting!Opened

LEMMA CloseCounts ==
  ASSUME SemInv, NEW s \in SemArgs, SemClose(s)
  PROVE  CountingStep
<1>1. s \in SEMS /\ Current \in Callers /\ TableInv(sems)
  BY CallerIsOutside DEF SemClose, SemInv, Grabs, InRange
<1>2. sems' = CloseSem(sems, s, Current) /\ UNCHANGED inWait
  BY DEF SemClose
<1>3. /\ sems'.list[s].interested = sems.list[s].interested \ {Current}
      /\ sems'.list[s].sem_value = IF sems.list[s].interested = {Current} THEN 0
                                   ELSE sems.list[s].sem_value
      /\ \A r \in SEMS \ {s} : sems'.list[r] = sems.list[r]
  BY ONLY <1>1, <1>2, CloseKeeps
<1>4. CASE s # 0
  BY <1>2, <1>3, <1>4, FirstSlot, Stutters DEF Waiters
<1>5. CASE s = 0 /\ sems.list[0].interested = {Current}
  <2>1. Current \in PIDS => inWait[Current] = NOT_IN
    BY CallerIsOutside DEF SemClose
  <2>2. \A p \in PIDS : inWait[p] # 0
    BY <1>5, <2>1, FirstSlot DEF SemInv, WaitersInside, Interested
  <2>3. Counting!Closed
    BY <1>2, <1>3, <1>5, <2>2 DEF Counting!Closed
  <2> QED
    BY <2>3 DEF CountingStep, Counting!SNext
<1>6. CASE s = 0 /\ sems.list[0].interested # {Current}
  BY <1>2, <1>3, <1>6 DEF CountingStep, Counting!svars
<1> QED
  BY <1>4, <1>5, <1>6

LEMMA WaitTurnCounts ==
  ASSUME SemInv, NEW s \in SEMS, Current \in PIDS, Interested(sems, s, Current),
         inWait[Current] \in {s, NOT_IN}, WaitTurn(s, Current)
  PROVE  CountingStep
<1> DEFINE p == Current
<1>1. TableInv(sems) /\ SchedInv(sched) /\ sems.list[s].sem_value \in Nat /\ p \in Callers
  BY DEF SemInv, TableInv, Callers
<1>2. \A x \in PIDS \ {p} : inWait'[x] = inWait[x]
  BY DEF WaitTurn, Enqueue, Take, WaitsFor
<1>3. CASE Value(s) <= 0 /\ Enqueue(s, Current)
  <2>1. sems' = EnqueueSem(sems, s, p) /\ inWait'[p] = s
    BY <1>3 DEF Enqueue, WaitsFor
  <2>2. /\ sems'.list[s].interested = sems.list[s].interested
        /\ sems'.list[s].sem_value = sems.list[s].sem_value
        /\ \A r \in SEMS \ {s} : sems'.list[r] = sems.list[r]
    BY ONLY <1>1, s \in SEMS, <2>1, EnqueueKeeps
  <2>3. CASE s # 0
    <3>1. Waiters' = Waiters
      BY <1>2, <2>1, <2>3, FirstSlot DEF Waiters
    <3> QED
      BY <2>2, <2>3, <3>1, FirstSlot, Stutters
  <2>4. CASE s = 0
    <3>1. sems.list[0].sem_value = 0 /\ sems.list[0].interested # {}
      BY <1>1, <1>3, <2>4 DEF Value, Interested
    <3>2. Waiters' = Waiters \cup {p}
      BY <1>2, <2>1, <2>4 DEF Waiters
    <3> QED
      BY <2>2, <2>4, <3>1, <3>2, AsksAndPasses
  <2> QED
    BY <2>3, <2>4
<1>4. CASE ~(Value(s) <= 0) /\ Take(s, Current)
  <2>1. sems' = TakeSem(sems, s, 1) /\ inWait'[p] = NOT_IN
    BY <1>4 DEF Take, WaitsFor
  <2>2. sems.list[s].sem_value > 0
    BY <1>1, <1>4 DEF Value
  <2>3. /\ sems'.list[s].interested = sems.list[s].interested
        /\ sems'.list[s].sem_value = sems.list[s].sem_value - 1
        /\ \A r \in SEMS \ {s} : sems'.list[r] = sems.list[r]
    BY ONLY <1>1, s \in SEMS, <2>1, <2>2, TakeKeeps
  <2>4. CASE s # 0
    <3>1. Waiters' = Waiters
      BY <1>2, <2>1, <2>4, FirstSlot DEF Waiters
    <3> QED
      BY <2>3, <2>4, <3>1, FirstSlot, Stutters
  <2>5. CASE s = 0
    <3>1. Waiters' = Waiters \ {p} /\ sems.list[0].interested # {}
      BY <1>2, <2>1, <2>5, FirstSlot DEF Waiters, Interested
    <3> QED
      BY <2>2, <2>3, <2>5, <3>1, AsksAndPasses
  <2> QED
    BY <2>4, <2>5
<1> QED
  BY <1>3, <1>4 DEF WaitTurn

LEMMA PostCounts ==
  ASSUME SemInv, NEW s \in SemArgs, SemPost(s)
  PROVE  CountingStep
<1>1. s \in SEMS /\ TableInv(sems)
  BY DEF SemPost, SemInv, Grabs, InRange
<1>2. sems' = PostSem(sems, s, 1) /\ UNCHANGED inWait /\ Interested(sems, s, Current)
  BY DEF SemPost
<1>3. /\ sems'.list[s].interested = sems.list[s].interested
      /\ sems'.list[s].sem_value = sems.list[s].sem_value + 1
      /\ \A r \in SEMS \ {s} : sems'.list[r] = sems.list[r]
  BY ONLY <1>1, <1>2, PostKeeps
<1>4. CASE s # 0
  BY <1>2, <1>3, <1>4, FirstSlot, Stutters DEF Waiters
<1>5. CASE s = 0
  <2>1. Counting!Posted
    BY <1>2, <1>3, <1>5 DEF Counting!Posted, Interested
  <2> QED
    BY <2>1 DEF CountingStep, Counting!SNext
<1> QED
  BY <1>4, <1>5

LEMMA StepCounts ==
  ASSUME ~Deaths, SemInv, CurrentRuns(sched), [SemNext]_semVars
  PROVE  CountingStep
<1>1. CASE UNCHANGED <<sems, inWait>>
  BY <1>1, Stutters DEF Waiters
<1>2. ASSUME NEW s \in SemArgs, SemWait(s) PROVE CountingStep
  <2>1. /\ s \in SEMS /\ Current \in PIDS /\ inWait[Current] = NOT_IN
        /\ Interested(sems, s, Current) /\ WaitTurn(s, Current)
    BY <1>2, CallerIsOutside, CallerIsAlive DEF SemWait, Grabs, InRange, MayCall
  <2> QED
    BY <2>1, WaitTurnCounts
<1>3. CASE Resume
  <2>1. /\ Current \in PIDS /\ inWait[Current] \in SEMS /\ WaitTurn(inWait[Current], Current)
        /\ Interested(sems, inWait[Current], Current)
    BY <1>3 DEF Resume, InSemWait, Grabs, InRange, SemInv, WaitersInside
  <2> QED
    BY <2>1, WaitTurnCounts
<1>4. CASE Die
  BY <1>4 DEF Die
<1> QED
  BY <1>1, <1>2, <1>3, <1>4, OpenCounts, CloseCounts, PostCounts
  DEF SemNext, semVars, SpinForever, SystemStep

-----------------------------------------------------------------------------
(* The theorems.                                                           *)

(* SemInv is an inductive invariant of the semaphores over the scheduler   *)
(* (sem_open, sem_close, sem_wait, sem_post, and the switches, births,     *)
(* wake-ups and deaths around them), whoever calls what.                   *)
THEOREM SemInvariance == SemSpec => []SemInv
  BY SemInitInv, SemStep, PTL DEF SemSpec

(* The table keeps its types, and no permit is taken that is not there:    *)
(* sem_value never becomes negative, whoever wakes or kills whom.          *)
THEOREM PermitsAreThere == SemSpec => []SemTypeOK
<1>1. ASSUME SemInv PROVE SemTypeOK
  <2>1. /\ sched \in SchedStates /\ sems \in SemTables /\ \A s \in SEMS : Value(s) \in Nat
        /\ sems.active = Cardinality(OpenSems(sems))
    BY <1>1 DEF SemInv, SchedInv, TableInv, Value
  <2>2. sems.active \in 0..MAX_SEMAPHORES
    BY <2>1, SetsOfSems DEF OpenSems
  <2> QED
    BY <1>1, <2>1, <2>2 DEF SemTypeOK, TypeOK, SemTables, SemInv, WaitersInside
<1> QED
  BY <1>1, SemInvariance, PTL

(* sem_open and sem_close count right and reuse only free slots, and no    *)
(* semaphore is closed under a process that waits for it.                  *)
THEOREM SlotsStaySound == SemSpec => []SlotsSound
<1>1. SemInv => SlotsSound
  BY SemAssumption DEF SemInv, TableInv, WaitersInside, SlotsSound
<1> QED
  BY <1>1, SemInvariance, PTL

(* Callers that use only semaphores they have open never meet a lock that  *)
(* was not initialised, so none of them spins with interrupts masked.      *)
THEOREM CarefulCallersDoNotSpin ==
  ASSUME ~Strays
  PROVE  SemSpec => []NobodySpins
<1>1. ASSUME SemInv, NEW s \in SemArgs PROVE ~SpinForever(s)
  BY <1>1 DEF SpinForever, Spins, InRange, Interested, SemInv, TableInv
<1>2. ASSUME SemInv, NobodySpins, [SemNext]_semVars PROVE NobodySpins'
  BY <1>1, <1>2 DEF NobodySpins, SemNext, semVars, SemOpen, SemClose, SemWait, SemPost, Resume,
                    SystemStep, Die
<1>3. SemInit => NobodySpins
  BY DEF SemInit, NobodySpins
<1> QED
  BY <1>2, <1>3, SemInvariance, PTL DEF SemSpec

(* As long as nobody dies, the process in a call is alive and RUNNING.     *)
THEOREM CallersRun ==
  ASSUME ~Deaths
  PROVE  SemSpec => []CurrentRuns(sched)
<1>1. SemInit => CurrentRuns(sched)
  BY DEF SemInit, Init, InitScheduler, ProcessWasCreated, CurrentRuns, PIDS
<1>2. SemInv /\ CurrentRuns(sched) /\ [SemNext]_semVars => CurrentRuns(sched)'
  BY RunsStep
<1> QED
  BY <1>1, <1>2, SemInvariance, PTL DEF SemSpec

(* The invariant of sleeping and waking, while sem_post alone wakes and    *)
(* nobody dies.                                                            *)
THEOREM QuietInvariance ==
  ASSUME ~Deaths, SpuriousArgs = {}
  PROVE  SemSpec => []QuietInv
<1>1. ASSUME SemInit PROVE QuietInv
  <2>1. SemInv /\ CurrentRuns(sched)
    BY <1>1, SemInitInv DEF SemInit, Init, InitScheduler, ProcessWasCreated, CurrentRuns, PIDS
  <2>2. \A p \in PIDS : inWait[p] = NOT_IN
    BY <1>1 DEF SemInit
  <2>3. \A s \in SEMS : Queue(s) = <<>> /\ s # NOT_IN
    BY <1>1 DEF SemInit, NoSemaphores, Queue, SEMS
  <2>4. QueuesAreRight
    BY <2>2, <2>3 DEF QueuesAreRight, Once, InQueue, Sleeps
  <2>5. NoLostWakeup
    BY <2>3 DEF NoLostWakeup
  <2> QED
    BY <2>1, <2>2, <2>4, <2>5 DEF QuietInv
<1> QED
  BY <1>1, QuietSteps, PTL DEF SemSpec

(* The waiting array of a semaphore (sem_wait, sem_post) holds exactly the *)
(* processes that sleep for it, each once, so it cannot overflow.          *)
THEOREM QueuesAreSleepers ==
  ASSUME ~Deaths, SpuriousArgs = {}
  PROVE  SemSpec => []QueueIsTheSleepers
<1>1. QuietInv => QueueIsTheSleepers
  BY RightQueuesSleep DEF QuietInv
<1> QED
  BY <1>1, QuietInvariance, PTL

(* No post is lost: for every permit there is a woken process, as long as  *)
(* others still sleep.                                                     *)
THEOREM WakeupsArrive ==
  ASSUME ~Deaths, SpuriousArgs = {}
  PROVE  SemSpec => []NoLostWakeup
<1>1. QuietInv => NoLostWakeup
  BY DEF QuietInv
<1> QED
  BY <1>1, QuietInvariance, PTL

(* ImplementsCounting without its fairness, which is left to TLC.          *)
ImplementsSafely == Counting!SSafety

(* What sem_open, sem_close, sem_wait and sem_post do to a slot, with the  *)
(* queue, the locks, the scheduler and wake-ups from elsewhere, is what    *)
(* the safety part of CountingSemaphore allows, as long as nobody dies.    *)
THEOREM IsCountingSemaphore ==
  ASSUME ~Deaths
  PROVE  SemSpec => ImplementsSafely
<1>1. ASSUME SemInit PROVE Counting!SInit
  <2>1. sems.list[0].interested = {} /\ sems.list[0].sem_value = 0
    BY <1>1, FirstSlot DEF SemInit, NoSemaphores
  <2>2. Waiters = {}
    BY <1>1, FirstSlot DEF SemInit, Waiters
  <2>3. (sems.list[0].interested # {}) = FALSE
    BY <2>1
  <2> QED
    BY <2>1, <2>2, <2>3, Zenon DEF Counting!SInit, Waiters
<1>2. SemInv /\ CurrentRuns(sched) /\ [SemNext]_semVars => [Counting!SNext]_(Counting!svars)
  BY StepCounts DEF CountingStep
<1> QED
  BY <1>1, <1>2, SemInvariance, CallersRun, PTL DEF SemSpec, ImplementsSafely, Counting!SSafety

=============================================================================
