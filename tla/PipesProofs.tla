------------------------------ MODULE PipesProofs ------------------------------
(***************************************************************************)
(* Proofs about the pipes: for any number of processes and pipes, of any   *)
(* size, and transfers of any length that block in the middle, every byte  *)
(* comes out once and in order, the two semaphores count the bytes and the *)
(* free places, and who has a pipe open keeps it, as long as sem_get sees  *)
(* every open semaphore; and that it does when there is one pipe.  Then    *)
(* the same pipes under the shell, whose processes are killed, born again  *)
(* with the pid of a dead one, and left in the background.                 *)
(***************************************************************************)
EXTENDS Shell, DataLemmas

USE DEF NO_SEM, NO_PIPE

PipeNames == {SemName(kind, i) : kind \in {"semread", "semwrite"}, i \in SLOTS}

PipeSems == Semaphore(PipeNames, Procs)

SemTables == [list : [SEMS -> PipeSems], active : Int]

KernelStates ==
    [ pipeList : [SLOTS -> PipeRecord], active_pipes : 0..MAX_PIPES, sems : SemTables,
      asleep : SUBSET Procs ]

-----------------------------------------------------------------------------
(* Names.                                                                  *)
LEMMA NamesApart ==
  /\ \A a, b, i, j : SemName(a, i) = SemName(b, j) => a = b /\ i = j
  /\ \A a, i : SemName(a, i) # NO_NAME
<1>1. ASSUME NEW a, NEW b, NEW i, NEW j, SemName(a, i) = SemName(b, j) PROVE a = b /\ i = j
  BY <1>1 DEF SemName
<1>2. ASSUME NEW a, NEW i PROVE SemName(a, i) # NO_NAME
  BY DEF SemName, NO_NAME
<1> QED
  BY <1>1, <1>2

LEMMA PipeName ==
  ASSUME NEW i \in SLOTS
  PROVE  SemName("semread", i) \in PipeNames /\ SemName("semwrite", i) \in PipeNames
BY DEF PipeNames

-----------------------------------------------------------------------------
(* The table of semaphores: each call changes one slot s of it.            *)

(* u is t with e in slot s.                                                *)
Puts(t, u, s, e) ==
    /\ u \in SemTables /\ e \in PipeSems /\ u.list[s] = e
    /\ \A r \in SEMS \ {s} : u.list[r] = t.list[r]

LEMMA SemFields ==
  ASSUME NEW e \in PipeSems
  PROVE  /\ e.name \in PipeNames \cup {NO_NAME} /\ e.sem_value \in Int
         /\ e.interested \in SUBSET Procs /\ e.waiting \in Seq(Procs)
BY DEF PipeSems, Semaphore

LEMMA TableOfSems ==
  ASSUME NEW t \in SemTables
  PROVE  t.active \in Int /\ \A s \in SEMS : t.list[s] \in PipeSems
BY DEF SemTables

LEMMA PutSem ==
  ASSUME NEW t \in SemTables, NEW s \in SEMS, NEW e \in PipeSems, NEW n \in Int,
         NEW u, u = WithSem(t, s, e, n)
  PROVE  Puts(t, u, s, e) /\ u.active = n
<1>1. t.list \in [SEMS -> PipeSems]
  BY DEF SemTables
<1>2. u = [list |-> [t.list EXCEPT ![s] = e], active |-> n]
  BY DEF WithSem
<1> QED
  BY <1>1, <1>2 DEF SemTables, Puts

(* sem_open of a name that nobody uses fails and changes nothing, or makes *)
(* a semaphore of the first free slot.                                     *)
Opened(t, u, r, p, name, v) ==
    \/ r = NO_SEM /\ u = t
    \/ /\ r \in SEMS /\ t.list[r].interested = {} /\ u.active = t.active + 1
       /\ r = Min(SEMS \ OpenSems(t))
       /\ \E e : /\ Puts(t, u, r, e) /\ e.name = name /\ e.sem_value = v
                 /\ e.interested = {p}

LEMMA NewName ==
  ASSUME NEW t \in SemTables, NEW p \in Procs, NEW name \in PipeNames, NEW v \in Nat,
         \A s \in SEMS : t.list[s].name # name,
         NEW r, r = OpenedSem(t, p, name, v), NEW u, u = OpenSem(t, p, name, v)
  PROVE  Opened(t, u, r, p, name, v)
<1>1. SemGet(t, name) = NO_SEM
  BY DEF SemGet, Matching
<1>2. CASE ~CanCreate(t, v)
  BY <1>1, <1>2 DEF OpenedSem, OpenSem, Opened
<1>3. CASE CanCreate(t, v)
  <2>1. r = Min(SEMS \ OpenSems(t))
    BY <1>1, <1>3 DEF OpenedSem
  <2>2. SEMS \ OpenSems(t) # {} /\ SEMS \ OpenSems(t) \subseteq Nat
    BY <1>3 DEF CanCreate, OpenSems, SEMS
  <2>3. r \in SEMS /\ r \notin OpenSems(t)
    BY <2>1, <2>2, MinOfNaturals
  <2>4. t.list[r].interested = {}
    BY <2>3 DEF OpenSems
  <2> DEFINE e == [ name |-> name, sem_value |-> v, lock |-> 1, interested |-> {p},
                    waiting |-> t.list[r].waiting ]
  <2>5. t.list[r].waiting \in Seq(Procs)
    BY <2>3, TableOfSems, SemFields
  <2>6. e \in PipeSems
    BY <2>5 DEF PipeSems, Semaphore
  <2>7. e.name = name /\ e.sem_value = v /\ e.interested = {p}
    OBVIOUS
  <2>8. u = WithSem(t, r, e, t.active + 1)
    <3>1. r # NO_SEM
      BY <2>3 DEF SEMS
    <3> QED
      BY <1>1, <1>3, <2>1, <3>1 DEF OpenSem, CreateSem
  <2> HIDE DEF e
  <2>9. t.active + 1 \in Int
    BY TableOfSems
  <2> PICK n \in Int : n = t.active + 1
    BY <2>9
  <2>10. Puts(t, u, r, e) /\ u.active = n
    BY <2>3, <2>6, <2>8, PutSem
  <2> QED
    BY <2>1, <2>3, <2>4, <2>7, <2>10 DEF Opened
<1> QED
  BY <1>2, <1>3

(* sem_open of a semaphore r that sem_get finds.                           *)
LEMMA KnownName ==
  ASSUME NEW t \in SemTables, NEW p \in Procs, NEW name \in PipeNames, NEW v \in Nat,
         NEW r \in SEMS, t.list[r].name = name, r < t.active,
         \A s \in SEMS : t.list[s].name = name => s = r, CanJoin(t, r, p)
  PROVE  /\ OpenedSem(t, p, name, v) = r
         /\ LET u == OpenSem(t, p, name, v)
            IN  /\ u.active = t.active
                /\ \E e : /\ Puts(t, u, r, e) /\ e.name = name
                          /\ e.sem_value = t.list[r].sem_value
                          /\ e.interested = t.list[r].interested \cup {p}
<1> DEFINE u == OpenSem(t, p, name, v)
           e == [t.list[r] EXCEPT !.interested = t.list[r].interested \cup {p}]
<1>1. SemGet(t, name) = r
  <2>1. Matching(t, name) = {r} /\ {r} \subseteq Nat /\ {r} # {}
    BY DEF Matching, SEMS
  <2>2. Min({r}) = r
    BY <2>1, MinOfNaturals
  <2> QED
    BY <2>1, <2>2 DEF SemGet
<1>2. r # NO_SEM /\ CanJoin(t, r, p)
  BY DEF SEMS
<1>3. OpenedSem(t, p, name, v) = r
  BY <1>1, <1>2 DEF OpenedSem
<1>4. u = WithSem(t, r, e, t.active)
  BY <1>1, <1>2, <1>3 DEF OpenSem, JoinSem
<1>5. t.list[r] \in PipeSems /\ t.active \in Int
  BY TableOfSems
<1>6. /\ e \in PipeSems /\ e.name = name /\ e.sem_value = t.list[r].sem_value
      /\ e.interested = t.list[r].interested \cup {p}
  <2> PICK who \in SUBSET Procs : who = t.list[r].interested \cup {p}
    BY <1>5, SemFields
  <2>1. e = [t.list[r] EXCEPT !.interested = who]
    OBVIOUS
  <2> HIDE DEF e
  <2> QED
    BY <1>5, <2>1 DEF PipeSems, Semaphore
<1> HIDE DEF u, e
<1>7. Puts(t, u, r, e) /\ u.active = t.active
  BY <1>4, <1>5, <1>6, PutSem
<1> QED
  BY <1>3, <1>6, <1>7 DEF u

(* sem_close by a user: the last one gives up the name.                    *)
Without(t, u, s, p) ==
    \E e : /\ Puts(t, u, s, e) /\ e.interested = t.list[s].interested \ {p}
          /\ IF t.list[s].interested = {p} THEN e.name = NO_NAME /\ u.active = t.active - 1
             ELSE e.name = t.list[s].name /\ e.sem_value = t.list[s].sem_value
                  /\ u.active = t.active

LEMMA Closes ==
  ASSUME NEW t \in SemTables, NEW p \in Procs, NEW s \in SEMS, p \in t.list[s].interested,
         NEW u, u = CloseSem(t, s, p)
  PROVE  Without(t, u, s, p)
<1> DEFINE a == t.list[s]
<1>1. a \in PipeSems /\ t.active \in Int /\ t.active - 1 \in Int
  BY TableOfSems
<1>2. CASE a.interested = {p}
  <2> PICK none \in SUBSET Procs : none = {}
    OBVIOUS
  <2> PICK zero \in Int : zero = 0
    OBVIOUS
  <2> DEFINE e == [a EXCEPT !.name = NO_NAME, !.sem_value = zero, !.interested = none]
  <2>1. u = WithSem(t, s, e, t.active - 1)
    BY <1>2 DEF CloseSem, Interested
  <2> HIDE DEF a
  <2>2. e \in PipeSems /\ e.name = NO_NAME /\ e.interested = none
    BY <1>1 DEF PipeSems, Semaphore
  <2> HIDE DEF e
  <2> PICK n \in Int : n = t.active - 1
    BY <1>1
  <2>3. Puts(t, u, s, e) /\ u.active = n
    BY <2>1, <2>2, PutSem
  <2>4. e.interested = a.interested \ {p}
    BY <1>2, <2>2
  <2> QED
    BY <1>2, <2>2, <2>3, <2>4 DEF a, Without
<1>3. CASE a.interested # {p}
  <2> PICK who \in SUBSET Procs : who = a.interested \ {p}
    BY <1>1, SemFields
  <2> DEFINE e == [a EXCEPT !.interested = who]
  <2>1. u = WithSem(t, s, e, t.active)
    BY <1>3 DEF CloseSem, Interested
  <2> HIDE DEF a
  <2>2. e \in PipeSems /\ e.name = a.name /\ e.interested = who /\ e.sem_value = a.sem_value
    BY <1>1 DEF PipeSems, Semaphore
  <2> HIDE DEF e
  <2>3. Puts(t, u, s, e) /\ u.active = t.active
    BY <1>1, <2>1, <2>2, PutSem
  <2> QED
    BY <1>3, <2>2, <2>3 DEF a, Without
<1> QED
  BY <1>2, <1>3

(* sem_wait and sem_post change the value and the queue.                   *)
Turns(t, u, s, v) ==
    \E e : /\ Puts(t, u, s, e) /\ e.name = t.list[s].name /\ e.interested = t.list[s].interested
          /\ e.sem_value = v /\ u.active = t.active

LEMMA Takes ==
  ASSUME NEW t \in SemTables, NEW s \in SEMS, NEW n \in Int, NEW u, u = TakeSem(t, s, n)
  PROVE  Turns(t, u, s, t.list[s].sem_value - n)
<1> DEFINE a == t.list[s]
<1>1. a \in PipeSems /\ t.active \in Int
  BY TableOfSems
<1>2. PICK v \in Int : v = a.sem_value - n
  BY <1>1, SemFields
<1> DEFINE e == [a EXCEPT !.sem_value = v]
<1>3. u = WithSem(t, s, e, t.active)
  BY <1>2 DEF TakeSem
<1> HIDE DEF a
<1>4. /\ e \in PipeSems /\ e.name = a.name /\ e.interested = a.interested /\ e.sem_value = v
  BY <1>1 DEF PipeSems, Semaphore
<1> HIDE DEF e
<1>5. Puts(t, u, s, e) /\ u.active = t.active
  BY <1>1, <1>3, <1>4, PutSem
<1> QED
  BY <1>2, <1>4, <1>5 DEF Turns, a

LEMMA Posts ==
  ASSUME NEW t \in SemTables, NEW s \in SEMS, NEW n \in Nat, NEW u, u = PostSem(t, s, n)
  PROVE  Turns(t, u, s, t.list[s].sem_value + n)
<1> DEFINE a == t.list[s]
<1>1. a \in PipeSems /\ t.active \in Int
  BY TableOfSems
<1>2. PICK v \in Int : v = a.sem_value + n
  BY <1>1, SemFields
<1>3. PICK queue \in Seq(Procs) : queue = SubSeq(a.waiting, n + 1, Len(a.waiting))
  <2> DEFINE w == a.waiting
  <2>1. w \in Seq(Procs)
    BY <1>1, SemFields
  <2> HIDE DEF w
  <2>2. SubSeq(w, n + 1, Len(w)) \in Seq(Procs)
    BY <2>1
  <2> QED
    BY <2>2 DEF w
<1> DEFINE e == [a EXCEPT !.sem_value = v, !.waiting = queue]
<1>4. u = WithSem(t, s, e, t.active)
  BY <1>2, <1>3 DEF PostSem
<1> HIDE DEF a
<1>5. /\ e \in PipeSems /\ e.name = a.name /\ e.interested = a.interested /\ e.sem_value = v
  BY <1>1 DEF PipeSems, Semaphore
<1> HIDE DEF e
<1>6. Puts(t, u, s, e) /\ u.active = t.active
  BY <1>1, <1>4, <1>5, PutSem
<1> QED
  BY <1>2, <1>5, <1>6 DEF Turns, a

LEMMA Enqueues ==
  ASSUME NEW t \in SemTables, NEW s \in SEMS, NEW p \in Procs, NEW u, u = EnqueueSem(t, s, p)
  PROVE  Turns(t, u, s, t.list[s].sem_value)
<1> DEFINE a == t.list[s]
<1>1. a \in PipeSems /\ t.active \in Int
  BY TableOfSems
<1>2. PICK queue \in Seq(Procs) : queue = Append(a.waiting, p)
  <2>1. \A w \in Seq(Procs) : Append(w, p) \in Seq(Procs)
    OBVIOUS
  <2> QED
    BY <1>1, <2>1, SemFields
<1> DEFINE e == [a EXCEPT !.waiting = queue]
<1>3. u = WithSem(t, s, e, t.active)
  BY <1>2 DEF EnqueueSem
<1> HIDE DEF a
<1>4. /\ e \in PipeSems /\ e.name = a.name /\ e.interested = a.interested
      /\ e.sem_value = a.sem_value
  BY <1>1 DEF PipeSems, Semaphore
<1> HIDE DEF e
<1>5. Puts(t, u, s, e) /\ u.active = t.active
  BY <1>1, <1>3, <1>4, PutSem
<1> QED
  BY <1>4, <1>5 DEF Turns, a

-----------------------------------------------------------------------------
(* The ring.                                                               *)
LEMMA Wrap ==
  ASSUME NEW m \in Nat, m > 0, NEW a \in Nat, a < 2 * m
  PROVE  a % m = IF a < m THEN a ELSE a - m
OBVIOUS

(* The fields of a pipe that a transfer leaves alone.                      *)
SamePipe(m, pipe) ==
    /\ m.claimed = pipe.claimed /\ m.read_sem = pipe.read_sem /\ m.write_sem = pipe.write_sem
    /\ m.interested = pipe.interested /\ m.eof = pipe.eof

LEMMA PipeFields ==
  ASSUME NEW pipe \in PipeRecord
  PROVE  /\ pipe.read_pos \in Nat /\ pipe.read_pos < PIPE_SIZE
         /\ pipe.write_pos \in Nat /\ pipe.write_pos < PIPE_SIZE
         /\ pipe.amount \in Nat /\ pipe.amount < WORD
         /\ pipe.stored \in Nat /\ pipe.stored < BYTES
         /\ pipe.taken \in Nat /\ pipe.taken < BYTES
         /\ pipe.pipe \in [PLACES -> 0..BYTES - 1]
         /\ pipe.read_sem \in SEMS /\ pipe.write_sem \in SEMS /\ pipe.interested \in Nat
         /\ PIPE_SIZE \in Nat /\ PIPE_SIZE > 0 /\ WORD \in Nat /\ WORD > PIPE_SIZE
         /\ BYTES \in Nat /\ BYTES = PIPE_SIZE + 1
<1>1. /\ pipe.read_pos \in PLACES /\ pipe.write_pos \in PLACES /\ pipe.amount \in 0..WORD - 1
      /\ pipe.stored \in 0..BYTES - 1 /\ pipe.taken \in 0..BYTES - 1
      /\ pipe.pipe \in [PLACES -> 0..BYTES - 1]
      /\ pipe.read_sem \in SEMS /\ pipe.write_sem \in SEMS /\ pipe.interested \in Nat
  BY DEF PipeRecord
<1>2. /\ PIPE_SIZE \in Nat /\ PIPE_SIZE > 0 /\ WORD \in Nat /\ WORD > PIPE_SIZE
      /\ BYTES \in Nat /\ BYTES = PIPE_SIZE + 1
  BY PipeAssumption DEF BYTES
<1>3. \A m \in Nat : \A i \in 0..m - 1 : i \in Nat /\ i < m
  OBVIOUS
<1>4. /\ pipe.read_pos \in Nat /\ pipe.read_pos < PIPE_SIZE
      /\ pipe.write_pos \in Nat /\ pipe.write_pos < PIPE_SIZE
  BY <1>1, <1>2, <1>3 DEF PLACES
<1>5. /\ pipe.amount \in Nat /\ pipe.amount < WORD
      /\ pipe.stored \in Nat /\ pipe.stored < BYTES
      /\ pipe.taken \in Nat /\ pipe.taken < BYTES
  BY <1>1, <1>2, <1>3
<1> QED
  BY <1>1, <1>2, <1>4, <1>5

LEMMA BytesRead ==
  ASSUME NEW pipe \in PipeRecord, InOrder(pipe), NEW n \in Nat, n <= pipe.amount,
         NEW m, m = MoveBytes(pipe, "read", n)
  PROVE  m \in PipeRecord /\ InOrder(m) /\ SamePipe(m, pipe) /\ m.amount = pipe.amount - n
<1> DEFINE P == PIPE_SIZE
           B == BYTES
           r == pipe.read_pos
           a == pipe.amount
           t == pipe.taken
<1>1. /\ r \in Nat /\ r < P /\ a \in Nat /\ a <= P /\ t \in Nat /\ t < B /\ a < WORD
      /\ P \in Nat /\ P > 0 /\ B \in Nat /\ B > 0 /\ B = P + 1 /\ WORD \in Nat /\ WORD > P
      /\ WORD > 0 /\ n <= a
  BY PipeFields DEF InOrder
<1> DEFINE r2 == (r + n) % P
           a2 == (a - n + WORD) % WORD
           t2 == (t + n) % B
<1>2. /\ r2 = IF r + n < P THEN r + n ELSE r + n - P
      /\ a2 = a - n
      /\ t2 = IF t + n < B THEN t + n ELSE t + n - B
  <2> HIDE DEF P, B, r, a, t
  <2>1. /\ r + n \in Nat /\ r + n < 2 * P /\ t + n \in Nat /\ t + n < 2 * B
        /\ a - n + WORD \in Nat /\ a - n + WORD < 2 * WORD /\ ~(a - n + WORD < WORD)
        /\ a - n + WORD - WORD = a - n
    BY <1>1
  <2>2. r2 = IF r + n < P THEN r + n ELSE r + n - P
    BY <1>1, <2>1, Wrap
  <2>3. a2 = a - n
    BY <1>1, <2>1, Wrap
  <2>4. t2 = IF t + n < B THEN t + n ELSE t + n - B
    BY <1>1, <2>1, Wrap
  <2> QED
    BY <2>2, <2>3, <2>4
<1>4. m = [pipe EXCEPT !.read_pos = r2, !.amount = a2, !.taken = t2]
  BY DEF MoveBytes
<1> HIDE DEF r2, a2, t2
<1>3. /\ r2 \in Nat /\ r2 < P /\ a2 \in Nat /\ a2 <= P /\ a2 < WORD /\ t2 \in Nat /\ t2 < B
      /\ r2 \in PLACES /\ a2 \in 0..WORD - 1 /\ t2 \in 0..B - 1
  <2> HIDE DEF P, B, r, a, t
  <2>1. /\ r2 \in Nat /\ r2 < P /\ a2 \in Nat /\ a2 <= P /\ a2 < WORD /\ t2 \in Nat /\ t2 < B
    BY <1>1, <1>2
  <2>2. r2 \in 0..P - 1 /\ a2 \in 0..WORD - 1 /\ t2 \in 0..B - 1
    BY <1>1, <2>1
  <2> QED
    BY <2>1, <2>2 DEF PLACES, P
<1>5. /\ m \in PipeRecord /\ SamePipe(m, pipe)
      /\ m.read_pos = r2 /\ m.amount = a2 /\ m.taken = t2
      /\ m.write_pos = pipe.write_pos /\ m.stored = pipe.stored /\ m.pipe = pipe.pipe
  BY <1>3, <1>4 DEF PipeRecord, SamePipe
<1>6. InOrder(m)
  <2>1. /\ pipe.stored = IF t + a < B THEN t + a ELSE t + a - B
        /\ pipe.write_pos = IF r + a < P THEN r + a ELSE r + a - P
    <3>1. pipe.stored = (t + a) % B /\ pipe.write_pos = (r + a) % P
      BY DEF InOrder
    <3> HIDE DEF P, B, r, a, t
    <3>2. t + a \in Nat /\ t + a < 2 * B /\ r + a \in Nat /\ r + a < 2 * P
      BY <1>1
    <3> QED
      BY <1>1, <3>1, <3>2, Wrap
  <2>2. ASSUME NEW i \in 0..P - 1, i < a
        PROVE  pipe.pipe[IF r + i < P THEN r + i ELSE r + i - P] = IF t + i < B THEN t + i ELSE t + i - B
    <3>1. pipe.pipe[(r + i) % P] = (t + i) % B
      BY <2>2 DEF InOrder
    <3> HIDE DEF P, B, r, a, t
    <3>2. t + i \in Nat /\ t + i < 2 * B /\ r + i \in Nat /\ r + i < 2 * P
      BY <1>1, <2>2
    <3> QED
      BY <1>1, <3>1, <3>2, Wrap
  <2>3. pipe.stored = (t2 + a2) % B /\ pipe.write_pos = (r2 + a2) % P
    <3> HIDE DEF P, B, r, a, t
    <3>1. /\ t2 \in Nat /\ a2 \in Nat /\ r2 \in Nat
          /\ t2 + a2 \in Nat /\ t2 + a2 < 2 * B /\ r2 + a2 \in Nat /\ r2 + a2 < 2 * P
      BY <1>1, <1>3
    <3>2. /\ (t2 + a2) % B = IF t2 + a2 < B THEN t2 + a2 ELSE t2 + a2 - B
          /\ (r2 + a2) % P = IF r2 + a2 < P THEN r2 + a2 ELSE r2 + a2 - P
      BY <1>1, <3>1, Wrap
    <3> QED
      BY <1>1, <1>2, <2>1, <3>1, <3>2
  <2>4. ASSUME NEW i \in 0..P - 1, i < a2 PROVE pipe.pipe[(r2 + i) % P] = (t2 + i) % B
    <3> HIDE DEF P, B, r, a, t
    <3>1. /\ i \in Nat /\ t2 \in Nat /\ a2 \in Nat /\ r2 \in Nat /\ i + n \in 0..P - 1 /\ i + n < a
          /\ t2 + i \in Nat /\ t2 + i < 2 * B /\ r2 + i \in Nat /\ r2 + i < 2 * P
      BY <1>1, <1>2, <1>3, <2>4
    <3>2. /\ (t2 + i) % B = IF t2 + i < B THEN t2 + i ELSE t2 + i - B
          /\ (r2 + i) % P = IF r2 + i < P THEN r2 + i ELSE r2 + i - P
      BY <1>1, <3>1, Wrap
    <3>3. /\ (t2 + i) % B = IF t + (i + n) < B THEN t + (i + n) ELSE t + (i + n) - B
          /\ (r2 + i) % P = IF r + (i + n) < P THEN r + (i + n) ELSE r + (i + n) - P
      BY <1>1, <1>2, <3>1, <3>2
    <3> QED
      BY <2>2, <3>1, <3>3
  <2>5. a2 <= P
    BY <1>1, <1>2
  <2> QED
    BY <1>5, <2>3, <2>4, <2>5 DEF InOrder
<1> QED
  BY <1>2, <1>5, <1>6

(* What a write of n bytes, which fit, leaves in place x of the ring.      *)
LEMMA ByteWritten ==
  ASSUME NEW pipe \in PipeRecord, NEW n \in Nat, n <= PIPE_SIZE, NEW x \in PLACES,
         NEW o, o = IF x >= pipe.write_pos THEN x - pipe.write_pos
                    ELSE x - pipe.write_pos + PIPE_SIZE
  PROVE  /\ o \in Nat /\ o < PIPE_SIZE
         /\ MoveBytes(pipe, "write", n).pipe[x] =
               IF o < n THEN (pipe.stored + o) % BYTES ELSE pipe.pipe[x]
<1> DEFINE P == PIPE_SIZE
           w == pipe.write_pos
           s == pipe.stored
           b == [y \in PLACES |->
                   LET i == (y - w + P) % P
                       last == i + P * ((n - 1 - i) \div P)
                   IN  IF i < n THEN (s + last) % BYTES ELSE pipe.pipe[y]]
<1>1. /\ P \in Nat /\ P > 0 /\ w \in Nat /\ w < P /\ x \in Nat /\ x < P
  <2>1. x \in 0..PIPE_SIZE - 1
    BY DEF PLACES
  <2> QED
    BY <2>1, PipeFields
<1>2. MoveBytes(pipe, "write", n).pipe = b
  <2>1. MoveBytes(pipe, "write", n) =
          [pipe EXCEPT !.write_pos = (@ + n) % P, !.amount = (@ + n) % WORD,
                       !.stored = (@ + n) % BYTES, !.pipe = b]
    BY DEF MoveBytes
  <2> HIDE DEF b
  <2> QED
    BY <2>1 DEF PipeRecord
<1>3. o \in Nat /\ o < P
  <2> HIDE DEF P
  <2> QED
    BY <1>1 DEF P
<1>4. (x - w + P) % P = o
  <2>1. o = IF x >= w THEN x - w ELSE x - w + P
    OBVIOUS
  <2> HIDE DEF P, w
  <2>2. x - w + P \in Nat /\ x - w + P < 2 * P
    BY <1>1
  <2>3. (x - w + P) % P = IF x - w + P < P THEN x - w + P ELSE x - w + P - P
    BY <1>1, <2>2, Wrap
  <2> QED
    BY <1>1, <2>1, <2>3
<1>5. ASSUME o < n PROVE o + P * ((n - 1 - o) \div P) = o
  <2>1. n <= P
    OBVIOUS
  <2> HIDE DEF P
  <2>2. n - 1 - o \in Nat /\ n - 1 - o < P
    BY <1>1, <1>3, <1>5, <2>1
  <2>3. ASSUME NEW j \in Nat, j < P PROVE j \div P = 0
    BY <1>1, <2>3
  <2>4. (n - 1 - o) \div P = 0
    BY <2>2, <2>3
  <2> QED
    BY <1>1, <1>3, <2>4
<1>6. b[x] = LET i == (x - w + P) % P
                 last == i + P * ((n - 1 - i) \div P)
             IN  IF i < n THEN (s + last) % BYTES ELSE pipe.pipe[x]
  OBVIOUS
<1>7. b[x] = IF o < n THEN (s + (o + P * ((n - 1 - o) \div P))) % BYTES ELSE pipe.pipe[x]
  BY <1>4, <1>6
<1> HIDE DEF b
<1> QED
  BY <1>2, <1>3, <1>5, <1>7

LEMMA BytesWritten ==
  ASSUME NEW pipe \in PipeRecord, InOrder(pipe), NEW n \in Nat, n <= PIPE_SIZE - pipe.amount,
         NEW m, m = MoveBytes(pipe, "write", n)
  PROVE  m \in PipeRecord /\ InOrder(m) /\ SamePipe(m, pipe) /\ m.amount = pipe.amount + n
<1> DEFINE P == PIPE_SIZE
           B == BYTES
           r == pipe.read_pos
           w == pipe.write_pos
           a == pipe.amount
           t == pipe.taken
           s == pipe.stored
<1>1. /\ r \in Nat /\ r < P /\ a \in Nat /\ a <= P /\ t \in Nat /\ t < B /\ a < WORD
      /\ w \in Nat /\ w < P /\ s \in Nat /\ s < B
      /\ P \in Nat /\ P > 0 /\ B \in Nat /\ B > 0 /\ B = P + 1 /\ WORD \in Nat /\ WORD > P
      /\ WORD > 0 /\ n <= P - a
  BY PipeFields DEF InOrder
<1> DEFINE w2 == (w + n) % P
           a2 == (a + n) % WORD
           s2 == (s + n) % B
           b == m.pipe
<1>2. /\ w2 = IF w + n < P THEN w + n ELSE w + n - P
      /\ a2 = a + n
      /\ s2 = IF s + n < B THEN s + n ELSE s + n - B
  <2> HIDE DEF P, B, w, a, s
  <2>1. /\ w + n \in Nat /\ w + n < 2 * P /\ s + n \in Nat /\ s + n < 2 * B
        /\ a + n \in Nat /\ a + n < WORD /\ a + n < 2 * WORD
    BY <1>1
  <2>2. w2 = IF w + n < P THEN w + n ELSE w + n - P
    BY <1>1, <2>1, Wrap
  <2>3. a2 = a + n
    BY <1>1, <2>1, Wrap
  <2>4. s2 = IF s + n < B THEN s + n ELSE s + n - B
    BY <1>1, <2>1, Wrap
  <2> QED
    BY <2>2, <2>3, <2>4
<1>3. /\ w2 \in Nat /\ w2 < P /\ a2 \in Nat /\ a2 <= P /\ a2 < WORD /\ s2 \in Nat /\ s2 < B
      /\ w2 \in PLACES /\ a2 \in 0..WORD - 1 /\ s2 \in 0..B - 1
  <2> HIDE DEF P, B, w, a, s, w2, a2, s2
  <2>1. /\ w2 \in Nat /\ w2 < P /\ a2 \in Nat /\ a2 <= P /\ a2 < WORD /\ s2 \in Nat /\ s2 < B
    BY <1>1, <1>2
  <2>2. w2 \in 0..P - 1 /\ a2 \in 0..WORD - 1 /\ s2 \in 0..B - 1
    BY <1>1, <2>1
  <2> QED
    BY <2>1, <2>2 DEF PLACES, P
<1>4. \A x \in PLACES : \A o :
         o = (IF x >= w THEN x - w ELSE x - w + P) =>
            /\ o \in Nat /\ o < P
            /\ b[x] = IF o < n THEN (s + o) % B ELSE pipe.pipe[x]
  <2>1. n <= PIPE_SIZE
    BY <1>1
  <2> QED
    BY <2>1, ByteWritten
<1>5. \A j \in Nat : j % B \in 0..B - 1
  <2> HIDE DEF B
  <2> QED
    BY <1>1
<1>6. PICK c \in [PLACES -> 0..B - 1] : m = [pipe EXCEPT !.write_pos = w2, !.amount = a2, !.stored = s2, !.pipe = c]
  <2> DEFINE f == [x \in PLACES |->
                     LET i == (x - w + P) % P
                         last == i + P * ((n - 1 - i) \div P)
                     IN  IF i < n THEN (s + last) % B ELSE pipe.pipe[x]]
  <2>1. m = [pipe EXCEPT !.write_pos = w2, !.amount = a2, !.stored = s2, !.pipe = f]
    BY DEF MoveBytes
  <2>2. m.pipe = f
    <3> HIDE DEF f, w2, a2, s2
    <3> QED
      BY <2>1 DEF PipeRecord
  <2>3. f \in [PLACES -> 0..B - 1]
    <3>1. ASSUME NEW x \in PLACES PROVE f[x] \in 0..B - 1
      <4>1. PICK o : o = IF x >= w THEN x - w ELSE x - w + P
        OBVIOUS
      <4>2. o \in Nat /\ f[x] = IF o < n THEN (s + o) % B ELSE pipe.pipe[x]
        <5> HIDE DEF f
        <5> QED
          BY <1>4, <2>2, <4>1
      <4>3. pipe.pipe[x] \in 0..B - 1
        BY PipeFields
      <4> HIDE DEF f, B, s
      <4>4. s + o \in Nat
        BY <1>1, <4>2
      <4> QED
        BY <1>5, <4>2, <4>3, <4>4
    <3>2. f = [x \in PLACES |-> f[x]]
      OBVIOUS
    <3> HIDE DEF f
    <3> QED
      BY <3>1, <3>2
  <2> HIDE DEF f, w2, a2, s2
  <2> QED
    BY <2>1, <2>3
<1> HIDE DEF w2, a2, s2
<1>7. /\ m \in PipeRecord /\ SamePipe(m, pipe)
      /\ m.write_pos = w2 /\ m.amount = a2 /\ m.stored = s2 /\ m.pipe = c
      /\ m.read_pos = pipe.read_pos /\ m.taken = pipe.taken
  BY <1>3, <1>6 DEF PipeRecord, SamePipe
<1>8. InOrder(m)
  <2>1. /\ s = IF t + a < B THEN t + a ELSE t + a - B
        /\ w = IF r + a < P THEN r + a ELSE r + a - P
    <3>1. s = (t + a) % B /\ w = (r + a) % P
      BY DEF InOrder
    <3> HIDE DEF P, B, r, a, t, w, s
    <3>2. t + a \in Nat /\ t + a < 2 * B /\ r + a \in Nat /\ r + a < 2 * P
      BY <1>1
    <3> QED
      BY <1>1, <3>1, <3>2, Wrap
  <2>2. s2 = (t + a2) % B /\ w2 = (r + a2) % P
    <3> HIDE DEF P, B, r, a, t, w, s
    <3>1. t + a2 \in Nat /\ t + a2 < 2 * B /\ r + a2 \in Nat /\ r + a2 < 2 * P
      BY <1>1, <1>3
    <3>2. (t + a2) % B = IF t + a2 < B THEN t + a2 ELSE t + a2 - B
      BY <1>1, <1>3, <3>1, Wrap
    <3>3. (r + a2) % P = IF r + a2 < P THEN r + a2 ELSE r + a2 - P
      BY <1>1, <1>3, <3>1, Wrap
    <3> QED
      BY <1>1, <1>2, <2>1, <3>1, <3>2, <3>3
  <2>3. ASSUME NEW i \in 0..P - 1, i < a2 PROVE b[(r + i) % P] = (t + i) % B
    <3>0. pipe.pipe[(r + i) % P] = (t + i) % B \/ ~(i < a)
      BY <2>3 DEF InOrder
    <3>1. PICK x : x = (r + i) % P
      OBVIOUS
    <3>2. PICK o : o = IF x >= w THEN x - w ELSE x - w + P
      OBVIOUS
    <3> HIDE DEF P, B, r, a, t, w, s, b
    <3>3. /\ i \in Nat /\ i < P /\ t + i \in Nat /\ t + i < 2 * B
          /\ r + i \in Nat /\ r + i < 2 * P
      BY <1>1, <2>3
    <3>4. x = IF r + i < P THEN r + i ELSE r + i - P
      BY <1>1, <3>1, <3>3, Wrap
    <3>5. x \in Nat /\ x < P
      BY <1>1, <3>3, <3>4
    <3>6. x \in PLACES
      <4>1. x \in 0..P - 1
        BY <1>1, <3>5
      <4> QED
        BY <4>1 DEF PLACES, P
    <3>7. o \in Nat /\ b[x] = IF o < n THEN (s + o) % B ELSE pipe.pipe[x]
      BY <1>4, <3>2, <3>6
    <3>8. CASE i < a
      <4>1. ~(o < n)
        BY <1>1, <2>1, <3>2, <3>3, <3>4, <3>8
      <4> QED
        BY <3>0, <3>1, <3>7, <3>8, <4>1
    <3>9. CASE ~(i < a)
      <4>1. o = i - a /\ o < n
        BY <1>1, <1>2, <2>1, <2>3, <3>2, <3>3, <3>4, <3>9
      <4>2. s + o \in Nat /\ s + o < 2 * B
        BY <1>1, <3>3, <4>1, <3>7
      <4>3. (s + o) % B = IF s + o < B THEN s + o ELSE s + o - B
        BY <1>1, <3>7, <4>2, Wrap
      <4>4. (t + i) % B = IF t + i < B THEN t + i ELSE t + i - B
        BY <1>1, <3>3, Wrap
      <4>5. (s + o) % B = (t + i) % B
        BY <1>1, <2>1, <3>3, <4>1, <4>3, <4>4
      <4> QED
        BY <3>1, <3>7, <4>1, <4>5
    <3> QED
      BY <3>8, <3>9
  <2> QED
    BY <1>3, <1>7, <2>2, <2>3 DEF InOrder
<1> QED
  BY <1>2, <1>7, <1>8

-----------------------------------------------------------------------------
(* The kernel k when each pipe i is open for the processes U[i].           *)
IsNameOf(name, i) == name = SemName("semread", i) \/ name = SemName("semwrite", i)

UserSets == [SLOTS -> SUBSET Procs]

InUse(U) == {i \in SLOTS : U[i] # {}}

(* A pipe that H has open: it and its semaphores are kept for exactly H,   *)
(* the semaphores count its bytes and free places, the bytes are in order. *)
PipeOK(k, i, H) ==
    LET pipe  == Pipe(k, i)
        read  == k.sems.list[pipe.read_sem]
        write == k.sems.list[pipe.write_sem]
    IN  /\ pipe.claimed /\ pipe.interested = Cardinality(H)
        /\ read.name = SemName("semread", i) /\ write.name = SemName("semwrite", i)
        /\ read.interested = H /\ write.interested = H
        /\ read.sem_value = pipe.amount /\ write.sem_value = PIPE_SIZE - pipe.amount
        /\ InOrder(pipe)

(* A semaphore without users has no name; one with the name of a pipe      *)
(* belongs to a claimed slot, and to the pipe in it if that is open.       *)
SemOK(k, U, s) ==
    LET sem == k.sems.list[s]
    IN  /\ sem.interested = {} => sem.name = NO_NAME
        /\ \A i \in SLOTS : IsNameOf(sem.name, i) => Pipe(k, i).claimed
        /\ \A i \in InUse(U) :
              /\ sem.name = SemName("semread", i) => s = Pipe(k, i).read_sem
              /\ sem.name = SemName("semwrite", i) => s = Pipe(k, i).write_sem

KernelOK(k, U) ==
    /\ k \in KernelStates /\ U \in UserSets
    /\ \A s \in SEMS : SemOK(k, U, s)
    /\ \A i \in InUse(U) : PipeOK(k, i, U[i])
    /\ k.active_pipes = Cardinality(InUse(U))

LEMMA KernelFields ==
  ASSUME NEW k \in KernelStates
  PROVE  /\ k.sems \in SemTables /\ k.asleep \in SUBSET Procs /\ k.active_pipes \in 0..MAX_PIPES
         /\ k.pipeList \in [SLOTS -> PipeRecord]
         /\ \A i \in SLOTS : Pipe(k, i) \in PipeRecord /\ Pipe(k, i).read_sem \in SEMS
                             /\ Pipe(k, i).write_sem \in SEMS
<1>1. /\ k.sems \in SemTables /\ k.asleep \in SUBSET Procs /\ k.active_pipes \in 0..MAX_PIPES
      /\ k.pipeList \in [SLOTS -> PipeRecord]
  BY DEF KernelStates
<1>2. \A i \in SLOTS : Pipe(k, i) \in PipeRecord
  BY <1>1 DEF Pipe
<1> QED
  BY <1>1, <1>2, PipeFields

(* A kernel of which pipe i and the other parts are replaced.              *)
With(k, i, e, n, u, A) ==
    [ pipeList |-> [k.pipeList EXCEPT ![i] = e], active_pipes |-> n, sems |-> u, asleep |-> A ]

LEMMA KernelWith ==
  ASSUME NEW k \in KernelStates, NEW i \in SLOTS, NEW e \in PipeRecord,
         NEW n \in 0..MAX_PIPES, NEW u \in SemTables, NEW A \in SUBSET Procs,
         NEW m, m = With(k, i, e, n, u, A)
  PROVE  /\ m \in KernelStates /\ m.sems = u /\ m.active_pipes = n /\ m.asleep = A
         /\ Pipe(m, i) = e /\ \A j \in SLOTS \ {i} : Pipe(m, j) = Pipe(k, j)
<1> DEFINE b == [k.pipeList EXCEPT ![i] = e]
<1>1. k.pipeList \in [SLOTS -> PipeRecord]
  BY KernelFields
<1>2. /\ b \in [SLOTS -> PipeRecord] /\ b[i] = e
      /\ \A j \in SLOTS \ {i} : b[j] = k.pipeList[j]
  BY <1>1
<1>3. m = [pipeList |-> b, active_pipes |-> n, sems |-> u, asleep |-> A]
  BY DEF With
<1> HIDE DEF b
<1> QED
  BY <1>2, <1>3 DEF KernelStates, Pipe

(* What is done to pipe i and to its semaphores leaves the others alone.   *)
OthersSame(k, m, i) ==
    /\ \A j \in SLOTS \ {i} : Pipe(m, j) = Pipe(k, j)
    /\ \A s \in SEMS :
          \/ m.sems.list[s] = k.sems.list[s]
          \/ LET old == k.sems.list[s].name
                 new == m.sems.list[s].name
             IN  /\ IsNameOf(old, i) \/ old = NO_NAME
                 /\ IsNameOf(new, i) \/ new = NO_NAME

(* What KernelOK says of pipe i, which H has open, and of its semaphores.   *)
OneOK(m, i, H) ==
    /\ \A s \in SEMS : m.sems.list[s].interested = {} => m.sems.list[s].name = NO_NAME
    /\ \A s \in SEMS : IsNameOf(m.sems.list[s].name, i) => Pipe(m, i).claimed
    /\ H # {} => PipeOK(m, i, H)
    /\ H # {} => \A s \in SEMS :
          /\ m.sems.list[s].name = SemName("semread", i) => s = Pipe(m, i).read_sem
          /\ m.sems.list[s].name = SemName("semwrite", i) => s = Pipe(m, i).write_sem

(* If the rest is the same, that is enough.                                *)
LEMMA OnlyPipe ==
  ASSUME NEW k, NEW U, KernelOK(k, U), NEW i \in SLOTS, NEW m \in KernelStates,
         NEW V \in UserSets, \A j \in SLOTS \ {i} : V[j] = U[j],
         OthersSame(k, m, i), OneOK(m, i, V[i]),
         m.active_pipes = Cardinality(InUse(V))
  PROVE  KernelOK(m, V)
<1>1. \A j \in SLOTS \ {i} : j \in InUse(V) <=> j \in InUse(U)
  BY DEF InUse
<1>2. ASSUME NEW j \in InUse(V), j # i PROVE PipeOK(m, j, V[j])
  <2>1. j \in SLOTS /\ PipeOK(k, j, U[j]) /\ V[j] = U[j] /\ Pipe(m, j) = Pipe(k, j)
    BY <1>1, <1>2 DEF KernelOK, InUse, OthersSame
  <2>2. Pipe(k, j).read_sem \in SEMS /\ Pipe(k, j).write_sem \in SEMS
    BY <2>1, KernelFields DEF KernelOK
  <2>3. ASSUME NEW s \in SEMS, IsNameOf(k.sems.list[s].name, j)
        PROVE  m.sems.list[s] = k.sems.list[s]
    BY <1>2, <2>3, NamesApart DEF OthersSame, IsNameOf
  <2>4. /\ m.sems.list[Pipe(k, j).read_sem] = k.sems.list[Pipe(k, j).read_sem]
        /\ m.sems.list[Pipe(k, j).write_sem] = k.sems.list[Pipe(k, j).write_sem]
    BY <2>1, <2>2, <2>3 DEF PipeOK, IsNameOf
  <2> QED
    BY <2>1, <2>4 DEF PipeOK
<1>3. ASSUME NEW s \in SEMS PROVE SemOK(m, V, s)
  <2>1. SemOK(k, U, s)
    BY DEF KernelOK
  <2>2. ASSUME NEW j \in SLOTS, j # i
        PROVE  /\ IsNameOf(m.sems.list[s].name, j) => Pipe(m, j).claimed
               /\ j \in InUse(V) =>
                    /\ m.sems.list[s].name = SemName("semread", j) => s = Pipe(m, j).read_sem
                    /\ m.sems.list[s].name = SemName("semwrite", j) => s = Pipe(m, j).write_sem
    <3>1. Pipe(m, j) = Pipe(k, j) /\ (j \in InUse(V) <=> j \in InUse(U))
      BY <1>1, <2>2 DEF OthersSame
    <3>2. CASE m.sems.list[s] = k.sems.list[s]
      BY <2>1, <3>1, <3>2 DEF SemOK
    <3>3. CASE IsNameOf(m.sems.list[s].name, i) \/ m.sems.list[s].name = NO_NAME
      BY <2>2, <3>3, NamesApart DEF IsNameOf
    <3> QED
      BY <3>2, <3>3 DEF OthersSame
  <2>3. \A j \in InUse(V) : j \in SLOTS /\ V[j] # {}
    BY DEF InUse
  <2> QED
    BY <2>2, <2>3 DEF SemOK, OneOK
<1>4. \A j \in InUse(V) : PipeOK(m, j, V[j])
  BY <1>2 DEF InUse, OneOK
<1> QED
  BY <1>3, <1>4 DEF KernelOK

(* Two semaphores changed, one after the other.                            *)
LEMMA TwoPuts ==
  ASSUME NEW t, NEW u, NEW v, NEW r, NEW s, r # s, r \in SEMS, s \in SEMS,
         NEW e, Puts(t, u, r, e), NEW f, Puts(u, v, s, f)
  PROVE  /\ v \in SemTables /\ v.list[r] = e /\ v.list[s] = f
         /\ \A q \in SEMS : q # r /\ q # s => v.list[q] = t.list[q]
BY DEF Puts

-----------------------------------------------------------------------------
(* Transfers.                                                              *)

(* Who has what open stays, and how many semaphores there are.             *)
SameOpen(k, m) ==
    /\ m.sems.active = k.sems.active /\ OpenSems(m.sems) = OpenSems(k.sems)
    /\ Claimed(m) = Claimed(k)

LEMMA UsedPipe ==
  ASSUME NEW k, NEW U, KernelOK(k, U), NEW i \in SLOTS, U[i] # {}
  PROVE  /\ k \in KernelStates /\ k.sems \in SemTables /\ Pipe(k, i) \in PipeRecord
         /\ PipeOK(k, i, U[i]) /\ i \in InUse(U)
         /\ Pipe(k, i).read_sem \in SEMS /\ Pipe(k, i).write_sem \in SEMS
         /\ Pipe(k, i).read_sem # Pipe(k, i).write_sem
         /\ U[i] \in SUBSET Procs
<1>1. /\ k \in KernelStates /\ PipeOK(k, i, U[i]) /\ U[i] \in SUBSET Procs /\ i \in InUse(U)
  BY DEF KernelOK, InUse, UserSets
<1>2. Pipe(k, i).read_sem # Pipe(k, i).write_sem
  BY <1>1, NamesApart DEF PipeOK
<1> QED
  BY <1>1, <1>2, KernelFields

(* Bytes of pipe i are moved, or someone joins a queue of it.              *)
(* Everything but the bytes of pipe i and the values of its semaphores.    *)
SameButBytes(k, m, i) ==
  /\ \A j \in SLOTS \ {i} : Pipe(m, j) = Pipe(k, j)
  /\ m.active_pipes = k.active_pipes /\ m.sems.active = k.sems.active
  /\ \A s \in SEMS : /\ m.sems.list[s].name = k.sems.list[s].name
                     /\ m.sems.list[s].interested = k.sems.list[s].interested
                     /\ \/ s = Pipe(k, i).read_sem \/ s = Pipe(k, i).write_sem
                        \/ m.sems.list[s] = k.sems.list[s]

LEMMA SameUsers ==
  ASSUME NEW k, NEW U, KernelOK(k, U), NEW i \in SLOTS, U[i] # {}, NEW m \in KernelStates,
         SamePipe(Pipe(m, i), Pipe(k, i)), InOrder(Pipe(m, i)),
         SameButBytes(k, m, i),
         m.sems.list[Pipe(k, i).read_sem].sem_value = Pipe(m, i).amount,
         m.sems.list[Pipe(k, i).write_sem].sem_value = PIPE_SIZE - Pipe(m, i).amount
  PROVE  KernelOK(m, U) /\ SameOpen(k, m)
<1> USE DEF SameButBytes
<1>1. /\ PipeOK(k, i, U[i]) /\ Pipe(k, i).read_sem \in SEMS /\ Pipe(k, i).write_sem \in SEMS
      /\ i \in InUse(U)
  BY UsedPipe
<1>2. OthersSame(k, m, i)
  <2>1. /\ IsNameOf(k.sems.list[Pipe(k, i).read_sem].name, i)
        /\ IsNameOf(k.sems.list[Pipe(k, i).write_sem].name, i)
    BY <1>1 DEF PipeOK, IsNameOf
  <2> QED
    BY <2>1 DEF OthersSame
<1>3. PipeOK(m, i, U[i])
  BY <1>1 DEF PipeOK, SamePipe
<1>4. /\ \A s \in SEMS : m.sems.list[s].interested = {} => m.sems.list[s].name = NO_NAME
      /\ \A s \in SEMS : IsNameOf(m.sems.list[s].name, i) => Pipe(m, i).claimed
      /\ \A s \in SEMS :
            /\ m.sems.list[s].name = SemName("semread", i) => s = Pipe(m, i).read_sem
            /\ m.sems.list[s].name = SemName("semwrite", i) => s = Pipe(m, i).write_sem
  BY <1>1 DEF KernelOK, SemOK, SamePipe
<1>5. U \in UserSets /\ m.active_pipes = Cardinality(InUse(U))
  BY DEF KernelOK
<1>6. KernelOK(m, U)
  <2>1. OneOK(m, i, U[i])
    BY <1>3, <1>4 DEF OneOK
  <2> QED
    BY <1>2, <1>5, <2>1, OnlyPipe
<1>7. SameOpen(k, m)
  <2>1. OpenSems(m.sems) = OpenSems(k.sems)
    BY DEF OpenSems
  <2>2. \A j \in SLOTS : Pipe(m, j).claimed = Pipe(k, j).claimed
    BY DEF SamePipe
  <2>3. Claimed(m) = Claimed(k)
    BY <2>2 DEF Claimed
  <2> QED
    BY <2>1, <2>3 DEF SameOpen
<1> QED
  BY <1>6, <1>7

LEMMA MoveKeeps ==
  ASSUME NEW k, NEW U, KernelOK(k, U), NEW i \in SLOTS, NEW p \in U[i],
         NEW c, c.pos = i, c.kind \in {"read", "write"}, NEW n \in Nat,
         n <= k.sems.list[WaitSem(k, c)].sem_value,
         NEW m, m = Move(k, p, c, n)
  PROVE  KernelOK(m, U) /\ SameOpen(k, m)
<1> DEFINE pipe == Pipe(k, i)
           s == WaitSem(k, c)
           r == PostsTo(k, c)
           t == TakeSem(k.sems, s, n)
           u == PostSem(t, r, n)
           e == MoveBytes(pipe, c.kind, n)
           A == k.asleep \ WokenBy(t, r, n)
<1>1. /\ k \in KernelStates /\ k.sems \in SemTables /\ pipe \in PipeRecord
      /\ PipeOK(k, i, U[i]) /\ pipe.read_sem \in SEMS /\ pipe.write_sem \in SEMS
      /\ pipe.read_sem # pipe.write_sem
  BY UsedPipe
<1>2. /\ s \in SEMS /\ r \in SEMS /\ s # r
      /\ c.kind = "read" => s = pipe.read_sem /\ r = pipe.write_sem
      /\ c.kind = "write" => s = pipe.write_sem /\ r = pipe.read_sem
  BY <1>1 DEF WaitSem, PostsTo
<1>3. p \in k.sems.list[s].interested /\ p \in k.sems.list[r].interested
  BY <1>1, <1>2 DEF PipeOK
<1>4. Turns(k.sems, t, s, k.sems.list[s].sem_value - n)
  BY <1>1, <1>2, Takes
<1>5. t \in SemTables /\ t.list[r] = k.sems.list[r]
  BY <1>2, <1>4 DEF Turns, Puts
<1>6. Turns(t, u, r, k.sems.list[r].sem_value + n)
  BY <1>2, <1>5, Posts
<1>7. m = [[k EXCEPT !.sems = u, !.asleep = A] EXCEPT !.pipeList[i] = e]
  <2>1. Interested(k.sems, s, p) /\ Interested(t, r, p)
    BY <1>3, <1>5 DEF Interested
  <2>2. MovePermits(k, p, c, n) = [k EXCEPT !.sems = u, !.asleep = A]
    BY <2>1 DEF MovePermits
  <2>3. m = [[k EXCEPT !.sems = u, !.asleep = A] EXCEPT !.pipeList[i] = MoveBytes(@, c.kind, n)]
    BY <2>2 DEF Move
  <2>4. [k EXCEPT !.sems = u, !.asleep = A].pipeList[i] = pipe
    BY <1>1 DEF KernelStates, Pipe
  <2> HIDE DEF u, A, pipe
  <2> QED
    BY <2>3, <2>4
<1>8. e \in PipeRecord /\ InOrder(e) /\ SamePipe(e, pipe)
      /\ e.amount = IF c.kind = "read" THEN pipe.amount - n ELSE pipe.amount + n
  <2>1. InOrder(pipe)
    BY <1>1 DEF PipeOK
  <2>2. CASE c.kind = "read"
    <3>1. n <= pipe.amount
      BY <1>1, <1>2, <2>2 DEF PipeOK
    <3> QED
      BY <1>1, <2>1, <2>2, <3>1, BytesRead
  <2>3. CASE c.kind = "write"
    <3>1. n <= PIPE_SIZE - pipe.amount
      BY <1>1, <1>2, <2>3 DEF PipeOK
    <3> QED
      BY <1>1, <2>1, <2>3, <3>1, BytesWritten
  <2> QED
    BY <2>2, <2>3
<1>9. u \in SemTables /\ A \in SUBSET Procs
  BY <1>1, <1>6 DEF Turns, Puts, KernelStates
<1> HIDE DEF u, e, A, t
<1>10. /\ m \in KernelStates /\ m.sems = u /\ m.active_pipes = k.active_pipes
       /\ Pipe(m, i) = e /\ \A j \in SLOTS \ {i} : Pipe(m, j) = Pipe(k, j)
  <2>1. m = With(k, i, e, k.active_pipes, u, A)
    BY <1>1, <1>7 DEF KernelStates, With
  <2> QED
    BY <1>1, <1>8, <1>9, <2>1, KernelFields, KernelWith
<1>11. /\ \A q \in SEMS : /\ u.list[q].name = k.sems.list[q].name
                          /\ u.list[q].interested = k.sems.list[q].interested
                          /\ q = s \/ q = r \/ u.list[q] = k.sems.list[q]
       /\ u.list[s].sem_value = k.sems.list[s].sem_value - n
       /\ u.list[r].sem_value = k.sems.list[r].sem_value + n
       /\ u.active = k.sems.active
  BY <1>2, <1>4, <1>5, <1>6 DEF Turns, Puts
<1>12. /\ u.list[pipe.read_sem].sem_value = e.amount
       /\ u.list[pipe.write_sem].sem_value = PIPE_SIZE - e.amount
  <2>1. pipe.amount \in Nat /\ PIPE_SIZE \in Nat
    BY <1>1, PipeFields
  <2>2. /\ k.sems.list[pipe.read_sem].sem_value = pipe.amount
        /\ k.sems.list[pipe.write_sem].sem_value = PIPE_SIZE - pipe.amount
    BY <1>1 DEF PipeOK
  <2> HIDE DEF s, r
  <2>3. CASE c.kind = "read"
    BY <1>2, <1>8, <1>11, <2>1, <2>2, <2>3
  <2>4. CASE c.kind = "write"
    BY <1>2, <1>8, <1>11, <2>1, <2>2, <2>4
  <2> QED
    BY <2>3, <2>4
<1>13. \A q \in SEMS : q = pipe.read_sem \/ q = pipe.write_sem \/ u.list[q] = k.sems.list[q]
  BY <1>2, <1>11
<1>14. U[i] # {}
  OBVIOUS
<1> HIDE DEF s, r
<1> QED
  <2>1. SameButBytes(k, m, i)
    BY <1>10, <1>11, <1>13 DEF SameButBytes
  <2>2. /\ m \in KernelStates /\ SamePipe(Pipe(m, i), Pipe(k, i)) /\ InOrder(Pipe(m, i))
        /\ m.sems.list[Pipe(k, i).read_sem].sem_value = Pipe(m, i).amount
        /\ m.sems.list[Pipe(k, i).write_sem].sem_value = PIPE_SIZE - Pipe(m, i).amount
    BY <1>8, <1>10, <1>12
  <2> QED
    BY <1>14, <2>1, <2>2, SameUsers

(* Joining the queue of the semaphore a transfer waits for.                *)
LEMMA SleepKeeps ==
  ASSUME NEW k, NEW U, KernelOK(k, U), NEW i \in SLOTS, NEW p \in U[i],
         NEW c, c.pos = i, c.kind \in {"read", "write"},
         NEW m, m = Sleep(k, p, c)
  PROVE  KernelOK(m, U) /\ SameOpen(k, m)
<1> DEFINE pipe == Pipe(k, i)
           s == WaitSem(k, c)
           u == EnqueueSem(k.sems, s, p)
           A == k.asleep \cup {p}
<1>1. /\ k \in KernelStates /\ k.sems \in SemTables /\ pipe \in PipeRecord
      /\ PipeOK(k, i, U[i]) /\ pipe.read_sem \in SEMS /\ pipe.write_sem \in SEMS
      /\ p \in Procs
  BY UsedPipe
<1>2. s \in SEMS /\ (s = pipe.read_sem \/ s = pipe.write_sem)
  BY <1>1 DEF WaitSem
<1>3. Turns(k.sems, u, s, k.sems.list[s].sem_value)
  BY <1>1, <1>2, Enqueues
<1>4. m = [k EXCEPT !.sems = u, !.asleep = A]
  BY DEF Sleep
<1>5. u \in SemTables /\ A \in SUBSET Procs
  BY <1>1, <1>3 DEF Turns, Puts, KernelStates
<1> HIDE DEF u, A
<1>6. /\ m \in KernelStates /\ m.sems = u /\ m.active_pipes = k.active_pipes
      /\ m.pipeList = k.pipeList
  BY <1>1, <1>4, <1>5 DEF KernelStates
<1>7. \A j \in SLOTS : Pipe(m, j) = Pipe(k, j)
  BY <1>6 DEF Pipe
<1>8. /\ \A q \in SEMS : /\ u.list[q].name = k.sems.list[q].name
                         /\ u.list[q].interested = k.sems.list[q].interested
                         /\ u.list[q].sem_value = k.sems.list[q].sem_value
                         /\ q = s \/ u.list[q] = k.sems.list[q]
      /\ u.active = k.sems.active
  BY <1>2, <1>3 DEF Turns, Puts
<1>9. SamePipe(Pipe(m, i), Pipe(k, i)) /\ InOrder(Pipe(m, i))
  BY <1>1, <1>7 DEF SamePipe, PipeOK
<1>10. /\ u.list[pipe.read_sem].sem_value = Pipe(m, i).amount
       /\ u.list[pipe.write_sem].sem_value = PIPE_SIZE - Pipe(m, i).amount
  BY <1>1, <1>7, <1>8 DEF PipeOK
<1>11. \A q \in SEMS : q = pipe.read_sem \/ q = pipe.write_sem \/ u.list[q] = k.sems.list[q]
  BY <1>2, <1>8
<1>12. U[i] # {}
  OBVIOUS
<1> HIDE DEF s
<1> QED
  <2>1. SameButBytes(k, m, i)
    BY <1>6, <1>7, <1>8, <1>11 DEF SameButBytes
  <2>2. /\ m.sems.list[Pipe(k, i).read_sem].sem_value = Pipe(m, i).amount
        /\ m.sems.list[Pipe(k, i).write_sem].sem_value = PIPE_SIZE - Pipe(m, i).amount
    BY <1>6, <1>10
  <2> QED
    BY <1>6, <1>9, <1>12, <2>1, <2>2, SameUsers

(* How many permits the caller of a transfer finds.                        *)
LEMMA PermitsAreBytes ==
  ASSUME NEW k, NEW U, KernelOK(k, U), NEW i \in SLOTS, NEW p \in U[i],
         NEW c, c.pos = i, c.kind \in {"read", "write"}
  PROVE  /\ WaitSem(k, c) \in SEMS
         /\ Permits(k, p, c) \in Nat
         /\ Permits(k, p, c) = k.sems.list[WaitSem(k, c)].sem_value
<1> DEFINE pipe == Pipe(k, i)
           s == WaitSem(k, c)
           v == k.sems.list[s].sem_value
<1>1. /\ pipe \in PipeRecord /\ PipeOK(k, i, U[i])
      /\ pipe.read_sem \in SEMS /\ pipe.write_sem \in SEMS
  BY UsedPipe
<1>2. s \in SEMS /\ Interested(k.sems, s, p)
  BY <1>1 DEF WaitSem, PipeOK, Interested
<1>3. v \in Nat
  <2>1. pipe.amount \in Nat /\ PIPE_SIZE - pipe.amount \in Nat
    BY <1>1, PipeFields DEF PipeOK, InOrder
  <2> QED
    BY <1>1, <2>1 DEF WaitSem, PipeOK
<1>4. Permits(k, p, c) = Max({0, v})
  BY <1>2 DEF Permits
<1> HIDE DEF v
<1>5. Max({0, v}) = v
  <2>1. {0, v} \subseteq 0..v /\ {0, v} # {}
    BY <1>3
  <2>2. Max({0, v}) \in {0, v} /\ \A y \in {0, v} : y <= Max({0, v})
    BY <1>3, <2>1, MaxOfNaturals
  <2> QED
    BY <1>3, <2>2
<1> QED
  BY <1>2, <1>3, <1>4, <1>5 DEF v

(* A transfer moves no more bytes than it has permits for, or has left.    *)
LEMMA MovesFit ==
  ASSUME NEW k, NEW U, KernelOK(k, U), NEW i \in SLOTS, NEW p \in U[i],
         NEW c, c.pos = i, c.kind \in {"read", "write"}, c.left \in Nat \ {0},
         NEW owed \in {0, 1}, owed = 1 => Permits(k, p, c) # 0,
         NEW n, n = Moves(k, p, c, owed)
  PROVE  n \in Nat /\ n <= c.left /\ n <= Permits(k, p, c)
<1> DEFINE v == Permits(k, p, c)
           T == {c.left, v} \cup IF c.kind = "read" /\ Pipe(k, i).eof THEN {Pipe(k, i).amount} ELSE {}
           some == Min(T)
<1>1. v \in Nat /\ c.left \in Nat /\ c.left > 0
  BY PermitsAreBytes
<1>2. some \in Nat /\ some <= c.left /\ some <= v
  <2>1. Pipe(k, i).amount \in Nat
    BY UsedPipe, PipeFields
  <2> HIDE DEF v
  <2>2. T \subseteq Nat /\ T # {} /\ c.left \in T /\ v \in T
    BY <1>1, <2>1
  <2> HIDE DEF T
  <2>3. Min(T) \in T /\ \A y \in T : Min(T) <= y
    BY <2>2, MinOfNaturals
  <2> QED
    BY <2>2, <2>3
<1>3. n = Max({owed, some})
  BY DEF Moves
<1>4. owed = 1 => v # 0
  OBVIOUS
<1> HIDE DEF v, some
<1>5. owed \in Nat /\ owed <= c.left /\ owed <= v
  BY <1>1, <1>4
<1>6. n \in {owed, some}
  <2>1. {owed, some} \subseteq 0..c.left /\ {owed, some} # {}
    BY <1>1, <1>2, <1>5
  <2> QED
    BY <1>1, <1>3, <2>1, MaxOfNaturals
<1> QED
  BY <1>2, <1>5, <1>6 DEF v

Calls == [kind : {"none", "read", "write"}, pos : SLOTS \cup {NO_PIPE}, left : Nat,
          syscall : BOOLEAN]

(* A call r of a process that has pipe i open.                             *)
CallOK(r, i) ==
    /\ r \in Calls
    /\ r.kind # "none" => r.pos = i /\ r.left # 0 /\ r.syscall = FALSE

(* The loop of a transfer keeps pipe and users.                            *)
LEMMA AdvanceKeeps ==
  ASSUME NEW k, NEW U, KernelOK(k, U), NEW i \in SLOTS, NEW p \in U[i],
         NEW c, CallOK(c, i), c.kind # "none",
         NEW owed \in {0, 1}, owed = 1 => Permits(k, p, c) # 0,
         NEW r, r = Advance(k, p, c, owed)
  PROVE  KernelOK(r.kernel, U) /\ SameOpen(k, r.kernel) /\ CallOK(r.call, i)
<1> DEFINE n == Moves(k, p, c, owed)
           moved == Move(k, p, c, n)
           rest == [c EXCEPT !.left = c.left - n]
           done == rest.left = 0 \/ (c.kind = "read" /\ AtEof(Pipe(moved, i)))
<1>1. c.kind \in {"read", "write"} /\ c.pos = i /\ c.left \in Nat \ {0} /\ c.syscall = FALSE
  BY DEF CallOK, Calls
<1>2. n \in Nat /\ n <= c.left /\ n <= k.sems.list[WaitSem(k, c)].sem_value
  BY <1>1, MovesFit, PermitsAreBytes
<1> HIDE DEF n
<1>3. KernelOK(moved, U) /\ SameOpen(k, moved)
  BY <1>1, <1>2, MoveKeeps
<1> HIDE DEF moved
<1>4. rest = Transfer(c.kind, i, c.left - n, FALSE) /\ c.left - n \in Nat
  <2>1. c.left - n \in Nat
    BY <1>1, <1>2
  <2>2. PICK a, b, d, s, l : /\ c = [kind |-> a, pos |-> b, left |-> d, syscall |-> s]
                            /\ l = c.left - n
    BY DEF CallOK, Calls
  <2>3. [c EXCEPT !.left = l] = [kind |-> a, pos |-> b, left |-> l, syscall |-> s]
    BY <2>2
  <2>4. c.kind = a /\ b = i /\ s = FALSE
    BY <1>1, <2>2
  <2> QED
    BY <2>1, <2>2, <2>3, <2>4 DEF Transfer
<1>5. CASE ~done
  <2>1. r = [kernel |-> Sleep(moved, p, c), call |-> rest]
    BY <1>1, <1>5 DEF Advance, n, moved
  <2>2. KernelOK(r.kernel, U) /\ SameOpen(moved, r.kernel)
    BY <1>1, <1>3, <2>1, SleepKeeps
  <2>3. SameOpen(k, r.kernel)
    BY <1>3, <2>2 DEF SameOpen
  <2>4. CallOK(r.call, i)
    <3>1. rest.left # 0
      BY <1>5
    <3> HIDE DEF rest
    <3> QED
      BY <1>1, <1>4, <2>1, <3>1 DEF CallOK, Transfer, Calls
  <2> QED
    BY <2>2, <2>3, <2>4
<1>6. CASE done
  <2>1. r = [kernel |-> moved, call |-> NoCall]
    BY <1>1, <1>6 DEF Advance, n, moved
  <2>2. CallOK(NoCall, i)
    BY DEF NoCall, CallOK, Calls
  <2> QED
    BY <1>3, <2>1, <2>2
<1> QED
  BY <1>5, <1>6

LEMMA GoOnKeeps ==
  ASSUME NEW k, NEW U, KernelOK(k, U), NEW i \in SLOTS, NEW p \in U[i],
         NEW c, CallOK(c, i), c.kind # "none",
         NEW r, r = GoOn(k, p, c)
  PROVE  KernelOK(r.kernel, U) /\ SameOpen(k, r.kernel) /\ CallOK(r.call, i)
<1>1. CASE Permits(k, p, c) = 0
  <2>1. r = [kernel |-> Sleep(k, p, c), call |-> c]
    BY <1>1 DEF GoOn
  <2>2. KernelOK(r.kernel, U) /\ SameOpen(k, r.kernel)
    BY <2>1, SleepKeeps DEF CallOK, Calls
  <2> QED
    BY <2>1, <2>2
<1>2. CASE Permits(k, p, c) # 0
  <2>1. r = Advance(k, p, c, 1)
    BY <1>2 DEF GoOn
  <2> PICK owed \in {0, 1} : owed = 1
    OBVIOUS
  <2> QED
    BY <1>2, <2>1, AdvanceKeeps
<1> QED
  BY <1>1, <1>2

-----------------------------------------------------------------------------
(* close_pipe.                                                             *)
LEMMA FiniteUsers ==
  ASSUME NEW U \in UserSets
  PROVE  IsFiniteSet(InUse(U)) /\ \A i \in SLOTS : IsFiniteSet(U[i])
<1>1. IsFiniteSet(SLOTS)
  BY PipeAssumption, FS_Interval DEF SLOTS
<1>2. InUse(U) \subseteq SLOTS /\ \A i \in SLOTS : U[i] \subseteq Procs
  BY DEF InUse, UserSets
<1> QED
  BY <1>1, <1>2, ProcsAssumption, FS_Subset

LEMMA FreeIsPipe ==
  ASSUME NEW eof \in BOOLEAN
  PROVE  /\ [FreePipe EXCEPT !.eof = eof] \in PipeRecord /\ FreePipe \in PipeRecord
         /\ [FreePipe EXCEPT !.eof = eof].claimed = FALSE /\ FreePipe.claimed = FALSE
<1>1. 0 \in SEMS /\ 0 \in PLACES /\ 0 \in 0..WORD - 1 /\ 0 \in 0..BYTES - 1 /\ 0 \in Nat
  BY SemTableAssumption, PipeAssumption DEF SEMS, PLACES, BYTES
<1>2. [x \in PLACES |-> 0] \in [PLACES -> 0..BYTES - 1]
  BY <1>1
<1> PICK z \in 0..BYTES - 1 : z = 0
  BY <1>1
<1> DEFINE b == [x \in PLACES |-> z]
<1>3. FreePipe =
        [ claimed |-> FALSE, read_sem |-> z, write_sem |-> z, read_pos |-> z, write_pos |-> z,
          amount |-> z, eof |-> FALSE, interested |-> z, pipe |-> b,
          stored |-> z, taken |-> z ]
  BY DEF FreePipe
<1>4. b \in [PLACES -> 0..BYTES - 1]
  OBVIOUS
<1>5. z \in SEMS /\ z \in PLACES /\ z \in 0..WORD - 1 /\ z \in Nat
  BY <1>1
<1> HIDE DEF b
<1> QED
  BY <1>3, <1>4, <1>5 DEF PipeRecord

(* A name of pipe i belongs to one of its two semaphores.                  *)
LEMMA OwnNames ==
  ASSUME NEW k, NEW U, KernelOK(k, U), NEW i \in InUse(U)
  PROVE  \A s \in SEMS :
            /\ k.sems.list[s].name = SemName("semread", i) => s = Pipe(k, i).read_sem
            /\ k.sems.list[s].name = SemName("semwrite", i) => s = Pipe(k, i).write_sem
            /\ k.sems.list[s].interested = {} => k.sems.list[s].name = NO_NAME
BY DEF KernelOK, SemOK

(* Closing pipe i frees its semaphores when nobody is left in V[i].        *)
Closed(k, m, i, V) ==
    /\ V[i] # {} => SameOpen(k, m)
    /\ V[i] = {} => /\ ~Pipe(m, i).claimed /\ m.sems.active = k.sems.active - 2
                    /\ OpenSems(m.sems) =
                         OpenSems(k.sems) \ {Pipe(k, i).read_sem, Pipe(k, i).write_sem}

LEMMA CloseKeeps ==
  ASSUME NEW k, NEW U, KernelOK(k, U), NEW i \in SLOTS, NEW p \in U[i],
         NEW V, V = [U EXCEPT ![i] = U[i] \ {p}], NEW m, m = ClosePipe(k, p, i)
  PROVE  KernelOK(m, V) /\ Closed(k, m, i, V)
<1> DEFINE pipe == Pipe(k, i)
           x == pipe.read_sem
           y == pipe.write_sem
           t == CloseSem(k.sems, x, p)
           w == CloseSem(t, y, p)
           H == U[i]
<1>1. /\ k \in KernelStates /\ k.sems \in SemTables /\ pipe \in PipeRecord
      /\ PipeOK(k, i, H) /\ i \in InUse(U) /\ x \in SEMS /\ y \in SEMS /\ x # y
      /\ H \in SUBSET Procs
  BY UsedPipe
<1>2. /\ k.sems.list[x].interested = H /\ k.sems.list[y].interested = H
      /\ k.sems.list[x].name = SemName("semread", i)
      /\ k.sems.list[y].name = SemName("semwrite", i)
      /\ k.sems.list[x].sem_value = pipe.amount
      /\ k.sems.list[y].sem_value = PIPE_SIZE - pipe.amount
      /\ pipe.interested = Cardinality(H) /\ pipe.claimed /\ InOrder(pipe)
  BY <1>1 DEF PipeOK
<1>3. /\ V \in UserSets /\ V[i] = H \ {p} /\ \A j \in SLOTS \ {i} : V[j] = U[j]
      /\ U \in UserSets
  BY DEF KernelOK, UserSets
<1>4. k.sems.active \in Int
  BY <1>1, TableOfSems
<1>5. PICK e : /\ Puts(k.sems, t, x, e) /\ e.interested = H \ {p}
               /\ IF H = {p} THEN e.name = NO_NAME /\ t.active = k.sems.active - 1
                  ELSE e.name = k.sems.list[x].name
                       /\ e.sem_value = k.sems.list[x].sem_value
                       /\ t.active = k.sems.active
  <2>1. p \in k.sems.list[x].interested /\ p \in Procs
    BY <1>1, <1>2
  <2>2. Without(k.sems, t, x, p)
    BY <1>1, <2>1, Closes
  <2> QED
    BY <2>2, <1>2 DEF Without
<1> HIDE DEF t
<1>6. t \in SemTables /\ t.list[y] = k.sems.list[y]
  BY <1>1, <1>5 DEF Puts
<1>7. PICK f : /\ Puts(t, w, y, f) /\ f.interested = H \ {p}
               /\ IF H = {p} THEN f.name = NO_NAME /\ w.active = t.active - 1
                  ELSE f.name = k.sems.list[y].name
                       /\ f.sem_value = k.sems.list[y].sem_value
                       /\ w.active = t.active
  <2>1. p \in t.list[y].interested
    BY <1>2, <1>6
  <2>2. t.list[y].interested = H /\ t.list[y].name = k.sems.list[y].name
        /\ t.list[y].sem_value = k.sems.list[y].sem_value
    BY <1>2, <1>6
  <2>3. w = CloseSem(t, y, p) /\ y \in SEMS
    BY <1>1
  <2>4. p \in Procs
    BY <1>1
  <2> HIDE DEF H, x, y, w
  <2>5. Without(t, w, y, p)
    BY <1>6, <2>1, <2>3, <2>4, Closes
  <2> QED
    BY <2>2, <2>5 DEF Without
<1> HIDE DEF w
<1>8. /\ w \in SemTables /\ w.list[x] = e /\ w.list[y] = f
      /\ \A q \in SEMS : q # x /\ q # y => w.list[q] = k.sems.list[q]
  BY <1>1, <1>5, <1>7 DEF Puts
<1>9. \A s \in SEMS :
        /\ k.sems.list[s].name = SemName("semread", i) => s = x
        /\ k.sems.list[s].name = SemName("semwrite", i) => s = y
        /\ k.sems.list[s].interested = {} => k.sems.list[s].name = NO_NAME
  BY <1>1, OwnNames
<1>10. /\ k.asleep \in SUBSET Procs /\ k.active_pipes \in 0..MAX_PIPES
       /\ k.active_pipes = Cardinality(InUse(U)) /\ IsFiniteSet(InUse(U)) /\ IsFiniteSet(H)
  BY <1>1, <1>3, KernelFields, FiniteUsers DEF KernelOK
<1>11. CASE H = {p}
  <2>1. pipe.interested = 1
    BY <1>2, <1>11, FS_Singleton
  <2> PICK eof \in BOOLEAN : eof = pipe.eof
    BY <1>1 DEF PipeRecord
  <2> DEFINE free == [FreePipe EXCEPT !.eof = eof]
  <2>2. /\ InUse(V) = InUse(U) \ {i} /\ V[i] = {}
    BY <1>3, <1>11 DEF InUse
  <2>3. /\ Cardinality(InUse(V)) = k.active_pipes - 1 /\ k.active_pipes - 1 \in 0..MAX_PIPES
    <3>1. /\ Cardinality(InUse(U) \ {i}) = IF i \in InUse(U) THEN Cardinality(InUse(U)) - 1
                                           ELSE Cardinality(InUse(U))
          /\ IsFiniteSet(InUse(U) \ {i})
      BY <1>10, FS_RemoveElement
    <3>2. Cardinality(InUse(U) \ {i}) \in Nat
      BY <3>1, FS_CardinalityType
    <3>3. Cardinality(InUse(V)) = k.active_pipes - 1
      BY <1>1, <1>10, <2>2, <3>1
    <3>4. k.active_pipes - 1 \in Nat
      BY <2>2, <3>2, <3>3
    <3> QED
      BY <1>10, <3>3, <3>4, PipeAssumption
  <2>4. m = With(k, i, free, k.active_pipes - 1, w, k.asleep)
    <3>1. m = [k EXCEPT !.sems = w, !.pipeList[i] = free, !.active_pipes = k.active_pipes - 1]
      BY <2>1 DEF ClosePipe, w, t
    <3> HIDE DEF free
    <3> QED
      BY <1>1, <3>1 DEF KernelStates, With
  <2>5. free \in PipeRecord /\ free.claimed = FALSE
    BY FreeIsPipe
  <2> HIDE DEF free
  <2> PICK n \in 0..MAX_PIPES : n = k.active_pipes - 1
    BY <2>3
  <2>6. /\ m \in KernelStates /\ m.sems = w /\ m.active_pipes = n
        /\ Pipe(m, i) = free /\ \A j \in SLOTS \ {i} : Pipe(m, j) = Pipe(k, j)
    BY <1>1, <1>8, <1>10, <2>4, <2>5, KernelWith
  <2>7. e.name = NO_NAME /\ f.name = NO_NAME /\ e.interested = {} /\ f.interested = {}
    BY <1>5, <1>7, <1>11
  <2>8. OthersSame(k, m, i)
    BY <1>2, <1>8, <2>6, <2>7 DEF OthersSame, IsNameOf
  <2>9. /\ \A s \in SEMS : m.sems.list[s].interested = {} => m.sems.list[s].name = NO_NAME
        /\ \A s \in SEMS : ~IsNameOf(m.sems.list[s].name, i)
    BY <1>8, <1>9, <2>6, <2>7, NamesApart DEF IsNameOf
  <2>10. KernelOK(m, V)
    <3>1. /\ V[i] = {} /\ m.active_pipes = Cardinality(InUse(V))
          /\ \A s \in SEMS : IsNameOf(m.sems.list[s].name, i) => Pipe(m, i).claimed
      BY <2>2, <2>3, <2>6, <2>9
    <3> HIDE DEF pipe, x, y, H
    <3> QED
      <4>1. OneOK(m, i, V[i])
        BY <2>9, <3>1 DEF OneOK
      <4>2. m \in KernelStates /\ m.active_pipes = Cardinality(InUse(V))
        BY <2>6, <3>1
      <4> QED
        BY <1>3, <2>8, <4>1, <4>2, OnlyPipe
  <2>11. m.sems.active = k.sems.active - 2
    BY <1>4, <1>5, <1>7, <1>11, <2>6
  <2>12. OpenSems(m.sems) = OpenSems(k.sems) \ {x, y}
    BY <1>8, <2>6, <2>7 DEF OpenSems
  <2> QED
    BY <2>2, <2>5, <2>6, <2>10, <2>11, <2>12 DEF Closed
<1>12. CASE H # {p}
  <2>1. H \ {p} # {} /\ p \in H
    BY <1>12
  <2>2. Cardinality(H) \in Nat /\ Cardinality(H) # 1 /\ Cardinality(H) # 0
        /\ Cardinality(H \ {p}) = Cardinality(H) - 1 /\ Cardinality(H) - 1 \in Nat
    <3>1. IsFiniteSet(H \ {p}) /\ Cardinality(H \ {p}) = Cardinality(H) - 1
      BY <1>10, <2>1, FS_RemoveElement
    <3>2. Cardinality(H) \in Nat /\ Cardinality(H \ {p}) \in Nat /\ Cardinality(H \ {p}) # 0
      BY <1>10, <2>1, <3>1, FS_CardinalityType, FS_EmptySet
    <3> QED
      BY <3>1, <3>2
  <2> PICK c \in Nat : c = pipe.interested - 1
    BY <1>2, <2>2
  <2> DEFINE left == [pipe EXCEPT !.interested = c]
  <2>3. InUse(V) = InUse(U) /\ V[i] # {}
    BY <1>1, <1>3, <2>1 DEF InUse
  <2>4. m = With(k, i, left, k.active_pipes, w, k.asleep)
    <3>1. pipe.interested # 1
      BY <1>2, <2>2
    <3>2. m = [k EXCEPT !.sems = w, !.pipeList[i].interested = @ - 1]
      BY <3>1 DEF ClosePipe, w, t
    <3>3. m = [k EXCEPT !.sems = w, !.pipeList[i] = left]
      BY <3>2 DEF Pipe
    <3> HIDE DEF left
    <3> QED
      BY <1>1, <3>3 DEF KernelStates, With
  <2>5. /\ left \in PipeRecord /\ left.interested = c
        /\ left.claimed = pipe.claimed /\ left.read_sem = x /\ left.write_sem = y
        /\ left.amount = pipe.amount /\ InOrder(left)
    <3> HIDE DEF pipe
    <3>1. /\ left \in PipeRecord /\ left.interested = c
          /\ left.claimed = pipe.claimed /\ left.read_sem = pipe.read_sem
          /\ left.write_sem = pipe.write_sem /\ left.read_pos = pipe.read_pos
          /\ left.write_pos = pipe.write_pos /\ left.amount = pipe.amount
          /\ left.stored = pipe.stored /\ left.taken = pipe.taken /\ left.pipe = pipe.pipe
      BY <1>1 DEF PipeRecord
    <3> HIDE DEF left
    <3> QED
      BY <1>2, <3>1 DEF InOrder
  <2> HIDE DEF left
  <2>6. /\ m \in KernelStates /\ m.sems = w /\ m.active_pipes = k.active_pipes
        /\ Pipe(m, i) = left /\ \A j \in SLOTS \ {i} : Pipe(m, j) = Pipe(k, j)
    BY <1>1, <1>8, <1>10, <2>4, <2>5, KernelWith
  <2>7. /\ e.name = SemName("semread", i) /\ f.name = SemName("semwrite", i)
        /\ e.interested = H \ {p} /\ f.interested = H \ {p}
        /\ e.sem_value = pipe.amount /\ f.sem_value = PIPE_SIZE - pipe.amount
        /\ w.active = k.sems.active
    BY <1>2, <1>5, <1>7, <1>12
  <2>8. OthersSame(k, m, i)
    BY <1>2, <1>8, <2>6, <2>7 DEF OthersSame, IsNameOf
  <2>9. \A s \in SEMS :
          /\ m.sems.list[s].interested = {} => m.sems.list[s].name = NO_NAME
          /\ m.sems.list[s].name = SemName("semread", i) => s = x
          /\ m.sems.list[s].name = SemName("semwrite", i) => s = y
    BY <1>8, <1>9, <2>1, <2>6, <2>7, NamesApart
  <2>10. PipeOK(m, i, V[i])
    <3>1. Pipe(m, i).claimed /\ Pipe(m, i).interested = Cardinality(V[i])
      <4>1. Pipe(m, i).claimed
        BY <1>2, <2>5, <2>6
      <4>2. Pipe(m, i).interested = Cardinality(V[i])
        BY <1>2, <1>3, <2>2, <2>5, <2>6
      <4> QED
        BY <4>1, <4>2
    <3>2. /\ Pipe(m, i).read_sem = x /\ Pipe(m, i).write_sem = y
          /\ Pipe(m, i).amount = pipe.amount /\ InOrder(Pipe(m, i))
      BY <2>5, <2>6
    <3>3. /\ m.sems.list[x].name = SemName("semread", i)
          /\ m.sems.list[y].name = SemName("semwrite", i)
          /\ m.sems.list[x].interested = V[i] /\ m.sems.list[y].interested = V[i]
          /\ m.sems.list[x].sem_value = pipe.amount
          /\ m.sems.list[y].sem_value = PIPE_SIZE - pipe.amount
      BY <1>3, <1>8, <2>6, <2>7
    <3> HIDE DEF pipe, x, y, H
    <3> QED
      BY <3>1, <3>2, <3>3 DEF PipeOK
  <2>11. KernelOK(m, V)
    <3>1. m.active_pipes = Cardinality(InUse(V)) /\ Pipe(m, i).claimed
      BY <1>2, <1>10, <2>3, <2>5, <2>6
    <3>2. \A s \in SEMS :
            /\ m.sems.list[s].name = SemName("semread", i) => s = Pipe(m, i).read_sem
            /\ m.sems.list[s].name = SemName("semwrite", i) => s = Pipe(m, i).write_sem
      BY <2>5, <2>6, <2>9
    <3> QED
      <4>1. \A s \in SEMS : IsNameOf(m.sems.list[s].name, i) => Pipe(m, i).claimed
        BY <3>1
      <4> HIDE DEF pipe, x, y, H
      <4> QED
        <5>1. OneOK(m, i, V[i])
          BY <2>9, <2>10, <3>2, <4>1 DEF OneOK
        <5> QED
          BY <1>3, <2>6, <2>8, <3>1, <5>1, OnlyPipe
  <2>12. SameOpen(k, m)
    <3>1. \A s \in SEMS : m.sems.list[s].interested = {} <=> k.sems.list[s].interested = {}
      BY <1>2, <1>8, <2>1, <2>6, <2>7
    <3>2. OpenSems(m.sems) = OpenSems(k.sems)
      BY <3>1 DEF OpenSems
    <3>3. \A j \in SLOTS : Pipe(m, j).claimed = Pipe(k, j).claimed
      BY <2>5, <2>6
    <3>4. Claimed(m) = Claimed(k)
      BY <3>3 DEF Claimed
    <3> QED
      BY <2>6, <2>7, <3>2, <3>4 DEF SameOpen
  <2> QED
    BY <2>3, <2>11, <2>12 DEF Closed
<1> QED
  BY <1>11, <1>12

-----------------------------------------------------------------------------
(* open_pipe of an existing pipe: sem_get finds both semaphores of it, and *)
(* there is room for as many users as there are processes.                 *)
LEMMA RoomForOne ==
  ASSUME NEW H \in SUBSET Procs, NEW p \in Procs, p \notin H
  PROVE  /\ IsFiniteSet(H) /\ Cardinality(H) \in Nat /\ Cardinality(H) < MAX_OPEN
         /\ Cardinality(H \cup {p}) = Cardinality(H) + 1
<1>1. IsFiniteSet(H)
  BY ProcsAssumption, FS_Subset
<1>2. IsFiniteSet(H \cup {p}) /\ Cardinality(H \cup {p}) = Cardinality(H) + 1
  BY <1>1, FS_AddElement
<1>3. H \cup {p} \subseteq Procs
  OBVIOUS
<1>4. Cardinality(H \cup {p}) <= Cardinality(Procs)
  BY <1>3, ProcsAssumption, FS_Subset
<1>5. Cardinality(H) \in Nat /\ Cardinality(Procs) \in Nat /\ MAX_OPEN \in Nat
  BY <1>1, ProcsAssumption, SemTableAssumption, FS_CardinalityType
<1> QED
  BY <1>1, <1>2, <1>4, <1>5, ProcsAssumption

LEMMA JoinKeeps ==
  ASSUME NEW k, NEW U, KernelOK(k, U), NEW i \in SLOTS, U[i] # {}, NEW p \in Procs,
         p \notin U[i], InSight(k),
         NEW V, V = [U EXCEPT ![i] = U[i] \cup {p}], NEW m, m = JoinPipe(k, p, i)
  PROVE  KernelOK(m, V) /\ SameOpen(k, m)
<1> DEFINE pipe == Pipe(k, i)
           x == pipe.read_sem
           y == pipe.write_sem
           t == OpenSem(k.sems, p, SemName("semread", i), 1)
           w == OpenSem(t, p, SemName("semwrite", i), 1)
           H == U[i]
<1>1. /\ k \in KernelStates /\ k.sems \in SemTables /\ pipe \in PipeRecord
      /\ PipeOK(k, i, H) /\ i \in InUse(U) /\ x \in SEMS /\ y \in SEMS /\ x # y
      /\ H \in SUBSET Procs
  BY UsedPipe
<1>2. /\ k.sems.list[x].interested = H /\ k.sems.list[y].interested = H
      /\ k.sems.list[x].name = SemName("semread", i)
      /\ k.sems.list[y].name = SemName("semwrite", i)
      /\ k.sems.list[x].sem_value = pipe.amount
      /\ k.sems.list[y].sem_value = PIPE_SIZE - pipe.amount
      /\ pipe.interested = Cardinality(H) /\ pipe.claimed /\ InOrder(pipe)
  BY <1>1 DEF PipeOK
<1>3. /\ V \in UserSets /\ V[i] = H \cup {p} /\ \A j \in SLOTS \ {i} : V[j] = U[j]
      /\ U \in UserSets
  BY DEF KernelOK, UserSets
<1>4. x < k.sems.active /\ y < k.sems.active
  <2>1. x \in OpenSems(k.sems) /\ y \in OpenSems(k.sems)
    BY <1>1, <1>2 DEF OpenSems
  <2>2. x \in 0..k.sems.active - 1 /\ y \in 0..k.sems.active - 1
    BY <2>1 DEF InSight
  <2>3. k.sems.active \in Int
    BY <1>1, TableOfSems
  <2> HIDE DEF x, y
  <2> QED
    BY <2>2, <2>3
<1>5. /\ Cardinality(H) \in Nat /\ Cardinality(H) < MAX_OPEN
      /\ Cardinality(H \cup {p}) = Cardinality(H) + 1
  BY <1>1, RoomForOne
<1>6. \A s \in SEMS :
        /\ k.sems.list[s].name = SemName("semread", i) => s = x
        /\ k.sems.list[s].name = SemName("semwrite", i) => s = y
        /\ k.sems.list[s].interested = {} => k.sems.list[s].name = NO_NAME
  BY <1>1, OwnNames
<1> DEFINE n == SemName("semread", i)
           o == SemName("semwrite", i)
<1>7. n \in PipeNames /\ o \in PipeNames /\ n # o
  BY PipeName, NamesApart
<1>8. /\ OpenedSem(k.sems, p, n, 1) = x
      /\ t.active = k.sems.active
      /\ \E e : /\ Puts(k.sems, t, x, e) /\ e.name = n
                /\ e.sem_value = k.sems.list[x].sem_value
                /\ e.interested = k.sems.list[x].interested \cup {p}
  <2>1. /\ k.sems.list[x].name = n /\ CanJoin(k.sems, x, p)
        /\ \A s \in SEMS : k.sems.list[s].name = n => s = x
    BY <1>2, <1>5, <1>6 DEF CanJoin
  <2>2. t = OpenSem(k.sems, p, n, 1)
    OBVIOUS
  <2> HIDE DEF n, x, y, H, t, pipe
  <2> QED
    BY <1>1, <1>4, <1>7, <2>1, <2>2, KnownName
<1> HIDE DEF t
<1>9. PICK e : /\ Puts(k.sems, t, x, e) /\ e.name = n /\ e.sem_value = pipe.amount
               /\ e.interested = H \cup {p}
  BY <1>2, <1>8
<1>10. t \in SemTables /\ t.list[y] = k.sems.list[y]
  BY <1>1, <1>9 DEF Puts
<1>11. \A s \in SEMS : t.list[s].name = o => s = y
  <2>1. \A s \in SEMS : s # x => t.list[s] = k.sems.list[s]
    BY <1>9 DEF Puts
  <2>2. t.list[x].name = n
    BY <1>9 DEF Puts
  <2> QED
    BY <1>6, <1>7, <2>1, <2>2
<1>12. /\ OpenedSem(t, p, o, 1) = y
       /\ w.active = t.active
       /\ \E f : /\ Puts(t, w, y, f) /\ f.name = o
                 /\ f.sem_value = t.list[y].sem_value
                 /\ f.interested = t.list[y].interested \cup {p}
  <2>1. /\ t.list[y].name = o /\ CanJoin(t, y, p) /\ y < t.active
    BY <1>2, <1>4, <1>5, <1>8, <1>10 DEF CanJoin
  <2>2. w = OpenSem(t, p, o, 1)
    OBVIOUS
  <2>3. t \in SemTables /\ y \in SEMS /\ p \in Procs /\ o \in PipeNames /\ 1 \in Nat
    BY <1>1, <1>7, <1>10
  <2> HIDE DEF n, o, x, y, H, w, pipe
  <2> QED
    BY ONLY <1>11, <2>1, <2>2, <2>3, KnownName
<1> HIDE DEF w
<1>13. PICK f : /\ Puts(t, w, y, f) /\ f.name = o /\ f.sem_value = PIPE_SIZE - pipe.amount
                /\ f.interested = H \cup {p}
  BY <1>2, <1>10, <1>12
<1>14. /\ w \in SemTables /\ w.list[x] = e /\ w.list[y] = f
       /\ \A q \in SEMS : q # x /\ q # y => w.list[q] = k.sems.list[q]
  BY <1>1, <1>9, <1>13 DEF Puts
<1>15. /\ k.asleep \in SUBSET Procs /\ k.active_pipes \in 0..MAX_PIPES
       /\ k.active_pipes = Cardinality(InUse(U))
  BY <1>1, KernelFields DEF KernelOK
<1>16. PICK c \in Nat : c = Cardinality(H) + 1
  BY <1>5
<1> DEFINE more == [pipe EXCEPT !.interested = c]
<1>17. InUse(V) = InUse(U) /\ V[i] # {}
  BY <1>1, <1>3 DEF InUse
<1>18. m = With(k, i, more, k.active_pipes, w, k.asleep)
  <2>1. x # NO_SEM /\ y # NO_SEM
    BY <1>1 DEF SEMS
  <2>2. m = [k EXCEPT !.sems = w, !.pipeList[i].interested = @ + 1]
    BY <1>8, <1>12, <2>1 DEF JoinPipe, w, t
  <2>3. m = [k EXCEPT !.sems = w, !.pipeList[i] = more]
    BY <1>2, <1>16, <2>2 DEF Pipe
  <2> HIDE DEF more
  <2> QED
    BY <1>1, <2>3 DEF KernelStates, With
<1>19. /\ more \in PipeRecord /\ more.interested = c
       /\ more.claimed = pipe.claimed /\ more.read_sem = x /\ more.write_sem = y
       /\ more.amount = pipe.amount /\ InOrder(more)
  <2> HIDE DEF pipe
  <2>1. /\ more \in PipeRecord /\ more.interested = c
        /\ more.claimed = pipe.claimed /\ more.read_sem = pipe.read_sem
        /\ more.write_sem = pipe.write_sem /\ more.read_pos = pipe.read_pos
        /\ more.write_pos = pipe.write_pos /\ more.amount = pipe.amount
        /\ more.stored = pipe.stored /\ more.taken = pipe.taken /\ more.pipe = pipe.pipe
    BY <1>1 DEF PipeRecord
  <2> HIDE DEF more
  <2> QED
    BY <1>2, <2>1 DEF InOrder
<1> HIDE DEF more
<1>20. /\ m \in KernelStates /\ m.sems = w /\ m.active_pipes = k.active_pipes
       /\ Pipe(m, i) = more /\ \A j \in SLOTS \ {i} : Pipe(m, j) = Pipe(k, j)
  BY <1>1, <1>14, <1>15, <1>18, <1>19, KernelWith
<1>21. OthersSame(k, m, i)
  BY <1>2, <1>9, <1>13, <1>14, <1>20 DEF OthersSame, IsNameOf
<1>22. \A s \in SEMS :
         /\ m.sems.list[s].interested = {} => m.sems.list[s].name = NO_NAME
         /\ m.sems.list[s].name = SemName("semread", i) => s = x
         /\ m.sems.list[s].name = SemName("semwrite", i) => s = y
  BY <1>6, <1>7, <1>9, <1>13, <1>14, <1>20
<1>23. PipeOK(m, i, V[i])
  <2>1. /\ Pipe(m, i).claimed /\ Pipe(m, i).interested = Cardinality(V[i])
        /\ Pipe(m, i).read_sem = x /\ Pipe(m, i).write_sem = y
        /\ Pipe(m, i).amount = pipe.amount /\ InOrder(Pipe(m, i))
    BY <1>2, <1>3, <1>5, <1>16, <1>19, <1>20
  <2>2. /\ m.sems.list[x].name = SemName("semread", i)
        /\ m.sems.list[y].name = SemName("semwrite", i)
        /\ m.sems.list[x].interested = V[i] /\ m.sems.list[y].interested = V[i]
        /\ m.sems.list[x].sem_value = pipe.amount
        /\ m.sems.list[y].sem_value = PIPE_SIZE - pipe.amount
    BY <1>3, <1>9, <1>13, <1>14, <1>20
  <2> HIDE DEF pipe, x, y, H
  <2> QED
    BY <2>1, <2>2 DEF PipeOK
<1>24. KernelOK(m, V)
  <2>1. /\ m.active_pipes = Cardinality(InUse(V)) /\ Pipe(m, i).claimed
        /\ Pipe(m, i).read_sem = x /\ Pipe(m, i).write_sem = y
    BY <1>2, <1>15, <1>17, <1>19, <1>20
  <2> HIDE DEF pipe, x, y, H
  <2>2. OneOK(m, i, V[i])
    BY <1>22, <1>23, <2>1 DEF OneOK
  <2>3. KernelOK(k, U) /\ m \in KernelStates /\ V \in UserSets
    BY <1>3, <1>20
  <2>4. \A j \in SLOTS \ {i} : V[j] = U[j]
    BY <1>3
  <2>5. OthersSame(k, m, i) /\ m.active_pipes = Cardinality(InUse(V))
    BY <1>21, <2>1
  <2> QED
    BY ONLY i \in SLOTS, <2>2, <2>3, <2>4, <2>5, OnlyPipe
<1>25. SameOpen(k, m)
  <2>1. \A s \in SEMS : m.sems.list[s].interested = {} <=> k.sems.list[s].interested = {}
    BY <1>2, <1>9, <1>13, <1>14, <1>20
  <2>2. OpenSems(m.sems) = OpenSems(k.sems)
    BY <2>1 DEF OpenSems
  <2>3. \A j \in SLOTS : Pipe(m, j).claimed = Pipe(k, j).claimed
    BY <1>19, <1>20
  <2>4. Claimed(m) = Claimed(k)
    BY <2>3 DEF Claimed
  <2> QED
    BY <1>8, <1>12, <1>20, <2>2, <2>4 DEF SameOpen
<1> QED
  BY <1>24, <1>25

-----------------------------------------------------------------------------
(* open_pipe of a new pipe.  The semaphores it opens are new.              *)
LEMMA NewPair ==
  ASSUME NEW k, NEW U, KernelOK(k, U), NEW p \in Procs, CanCreatePipe(k),
         NEW i, i = NewSlot(k), NEW new, new = NewSems(k, p), NEW t, t = WriteSemOpened(k, p)
  PROVE  /\ i \in SLOTS /\ ~Pipe(k, i).claimed /\ U[i] = {}
         /\ t \in SemTables /\ new.table \in SemTables
         /\ Opened(k.sems, t, new.write, p, SemName("semwrite", i), PIPE_SIZE)
         /\ Opened(t, new.table, new.read, p, SemName("semread", i), 0)
<1> DEFINE n == SemName("semread", i)
           o == SemName("semwrite", i)
           y == OpenedSem(k.sems, p, o, PIPE_SIZE)
           x == OpenedSem(t, p, n, 0)
           w == OpenSem(t, p, n, 0)
<1>1. k \in KernelStates /\ k.sems \in SemTables
  BY KernelFields DEF KernelOK
<1>2. i \in SLOTS /\ ~Pipe(k, i).claimed
  <2>1. SLOTS \ Claimed(k) # {} /\ SLOTS \ Claimed(k) \subseteq Nat
    BY DEF CanCreatePipe, Claimed, SLOTS
  <2>2. i \in SLOTS \ Claimed(k)
    BY <2>1, MinOfNaturals DEF NewSlot
  <2> QED
    BY <2>2 DEF Claimed
<1>3. U[i] = {}
  BY <1>2 DEF KernelOK, InUse, PipeOK
<1>4. \A s \in SEMS : k.sems.list[s].name # n /\ k.sems.list[s].name # o
  BY <1>2 DEF KernelOK, SemOK, IsNameOf
<1>5. n \in PipeNames /\ o \in PipeNames /\ n # o
  BY <1>2, PipeName, NamesApart
<1>6. t = OpenSem(k.sems, p, o, PIPE_SIZE) /\ new.write = y /\ new.read = x /\ new.table = w
  BY DEF NewSems, WriteSemOpened
<1>7. PIPE_SIZE \in Nat /\ 0 \in Nat
  BY PipeAssumption
<1> HIDE DEF n, o, x, y, w
<1>8. Opened(k.sems, t, y, p, o, PIPE_SIZE)
  BY <1>1, <1>4, <1>5, <1>6, <1>7, NewName DEF y
<1>9. t \in SemTables /\ \A s \in SEMS : t.list[s].name # n
  BY <1>1, <1>4, <1>5, <1>8 DEF Opened, Puts
<1>10. Opened(t, w, x, p, n, 0)
  <2> PICK v \in Nat : v = 0
    OBVIOUS
  <2>1. w = OpenSem(t, p, n, v) /\ x = OpenedSem(t, p, n, v)
    BY DEF w, x
  <2> HIDE DEF w, x
  <2>2. Opened(t, w, x, p, n, v)
    BY <1>5, <1>9, <2>1, NewName
  <2> QED
    BY <2>2
<1>11. w \in SemTables
  BY <1>9, <1>10 DEF Opened, Puts
<1> QED
  BY <1>2, <1>3, <1>6, <1>8, <1>9, <1>10, <1>11 DEF n, o

LEMMA CreateKeeps ==
  ASSUME NEW k, NEW U, KernelOK(k, U), NEW p \in Procs, NEW m, m = CreatePipe(k, p),
         NEW i, i = CreatedPipe(k, p),
         NEW V, V = IF i = NO_PIPE THEN U ELSE [U EXCEPT ![i] = {p}]
  PROVE  /\ KernelOK(m, V)
         /\ i = NO_PIPE \/ (i \in SLOTS /\ U[i] = {})
<1>1. CASE ~CanCreatePipe(k)
  <2>1. m = k /\ i = NO_PIPE
    BY <1>1 DEF CreatePipe, CreatedPipe
  <2>2. V = U
    BY <2>1
  <2> QED
    BY <2>1, <2>2
<1>2. CASE CanCreatePipe(k)
  <2> DEFINE a == NewSlot(k)
             new == NewSems(k, p)
             t == WriteSemOpened(k, p)
             w == new.table
             x == new.read
             y == new.write
             n == SemName("semread", a)
             o == SemName("semwrite", a)
  <2>1. /\ a \in SLOTS /\ ~Pipe(k, a).claimed /\ U[a] = {}
        /\ t \in SemTables /\ w \in SemTables
        /\ Opened(k.sems, t, y, p, o, PIPE_SIZE) /\ Opened(t, w, x, p, n, 0)
    BY <1>2, NewPair
  <2>2. /\ k \in KernelStates /\ k.sems \in SemTables /\ U \in UserSets
        /\ Pipe(k, a) \in PipeRecord /\ k.asleep \in SUBSET Procs
        /\ k.active_pipes \in 0..MAX_PIPES /\ k.active_pipes = Cardinality(InUse(U))
        /\ IsFiniteSet(InUse(U))
    BY <2>1, KernelFields, FiniteUsers DEF KernelOK
  <2>3. \A s \in SEMS :
           /\ k.sems.list[s].interested = {} => k.sems.list[s].name = NO_NAME
           /\ ~IsNameOf(k.sems.list[s].name, a)
    BY <2>1 DEF KernelOK, SemOK
  <2>4. n # o /\ n # NO_NAME /\ o # NO_NAME
    BY NamesApart
  <2> HIDE DEF a, new, t, w, x, y, n, o
  <2>5. \A s \in SEMS :
           \/ w.list[s] = k.sems.list[s]
           \/ /\ k.sems.list[s].name = NO_NAME /\ w.list[s].interested = {p}
              /\ \/ w.list[s].name = o /\ s = y
                 \/ w.list[s].name = n /\ s = x
    <3>1. \A s \in SEMS : \/ t.list[s] = k.sems.list[s]
                          \/ /\ k.sems.list[s].name = NO_NAME /\ t.list[s].name = o
                             /\ t.list[s].interested = {p} /\ s = y
      BY <2>1, <2>3 DEF Opened, Puts
    <3>2. \A s \in SEMS : \/ w.list[s] = t.list[s]
                          \/ /\ t.list[s].interested = {} /\ w.list[s].name = n
                             /\ w.list[s].interested = {p} /\ s = x
      BY <2>1 DEF Opened, Puts
    <3> QED
      BY <2>3, <3>1, <3>2
  <2>6. \A s \in SEMS :
           /\ w.list[s].interested = {} => w.list[s].name = NO_NAME
           /\ w.list[s].name = n => s = x
           /\ w.list[s].name = o => s = y
    BY <2>3, <2>4, <2>5 DEF IsNameOf, n, o
  <2>7. ASSUME NEW e \in PipeRecord, e.claimed, NEW c \in 0..MAX_PIPES,
               m = With(k, a, e, c, w, k.asleep), NEW W \in UserSets,
               \A j \in SLOTS \ {a} : W[j] = U[j], c = Cardinality(InUse(W)),
               W[a] # {} => /\ PipeOK(m, a, W[a])
                            /\ e.read_sem = x /\ e.write_sem = y
        PROVE  KernelOK(m, W)
    <3>1. /\ m \in KernelStates /\ m.sems = w /\ m.active_pipes = c
          /\ Pipe(m, a) = e /\ \A j \in SLOTS \ {a} : Pipe(m, j) = Pipe(k, j)
      BY <2>1, <2>2, <2>7, KernelWith
    <3>2. OthersSame(k, m, a)
      BY <2>5, <3>1 DEF OthersSame, IsNameOf, n, o
    <3>3. OneOK(m, a, W[a])
      BY <2>6, <2>7, <3>1 DEF OneOK, n, o
    <3> QED
      BY <2>1, <2>7, <3>1, <3>2, <3>3, OnlyPipe
  <2>8. CASE y = NO_SEM \/ x = NO_SEM
    <3> PICK yes \in BOOLEAN : yes = TRUE
      OBVIOUS
    <3> DEFINE e == [Pipe(k, a) EXCEPT !.claimed = yes]
    <3>1. i = NO_PIPE
      BY <1>2, <2>8 DEF CreatedPipe, new, x, y
    <3>2. m = With(k, a, e, k.active_pipes, w, k.asleep)
      <4>1. m = [k EXCEPT !.pipeList[a].claimed = TRUE, !.sems = w]
        BY <1>2, <2>8 DEF CreatePipe, a, new, w, x, y
      <4>2. m = [k EXCEPT !.pipeList[a] = e, !.sems = w]
        BY <4>1 DEF Pipe
      <4> HIDE DEF e
      <4> QED
        BY <2>2, <4>2 DEF KernelStates, With
    <3>3. e \in PipeRecord /\ e.claimed
      BY <2>2 DEF PipeRecord
    <3> HIDE DEF e
    <3>4. KernelOK(m, U)
      BY <2>1, <2>2, <2>7, <3>2, <3>3
    <3>5. V = U
      BY <3>1
    <3> QED
      BY <3>1, <3>4, <3>5
  <2>9. CASE ~(y = NO_SEM \/ x = NO_SEM)
    <3>1. x \in SEMS /\ y \in SEMS /\ x # y
      <4>1. x \in SEMS /\ y \in SEMS /\ t.list[y].interested = {p} /\ t.list[x].interested = {}
        BY <2>1, <2>9 DEF Opened, Puts
      <4> QED
        BY <4>1
    <3>2. /\ w.list[x].name = n /\ w.list[x].interested = {p} /\ w.list[x].sem_value = 0
          /\ w.list[y].name = o /\ w.list[y].interested = {p}
          /\ w.list[y].sem_value = PIPE_SIZE
      BY <2>1, <2>9, <3>1 DEF Opened, Puts
    <3> PICK one \in Nat : one = 1
      OBVIOUS
    <3> PICK yes \in BOOLEAN : yes = TRUE
      OBVIOUS
    <3> DEFINE e == [FreePipe EXCEPT !.claimed = yes, !.read_sem = x, !.write_sem = y,
                                     !.interested = one]
               W == [U EXCEPT ![a] = {p}]
    <3>3. i = a
      BY <1>2, <2>9 DEF CreatedPipe, a, new, x, y
    <3>4. W \in UserSets /\ W[a] = {p} /\ \A j \in SLOTS \ {a} : W[j] = U[j]
      BY <2>1, <2>2 DEF UserSets
    <3>5. V = W
      BY <2>1, <3>3 DEF SLOTS
    <3> HIDE DEF W
    <3>6. /\ k.active_pipes + 1 = Cardinality(InUse(W)) /\ k.active_pipes + 1 \in 0..MAX_PIPES
      <4>1. InUse(W) = InUse(U) \cup {a} /\ a \notin InUse(U)
        BY <2>1, <3>4 DEF InUse
      <4>2. Cardinality(InUse(U) \cup {a}) = Cardinality(InUse(U)) + 1
        BY <2>2, <4>1, FS_AddElement
      <4>3. k.active_pipes # MAX_PIPES
        BY <1>2 DEF CanCreatePipe
      <4> QED
        BY <2>2, <4>1, <4>2, <4>3, PipeAssumption
    <3> PICK c \in 0..MAX_PIPES : c = k.active_pipes + 1
      BY <3>6
    <3>7. m = With(k, a, e, c, w, k.asleep)
      <4>1. m = [k EXCEPT !.pipeList[a] = e, !.sems = w, !.active_pipes = c]
        BY <1>2, <2>9 DEF CreatePipe, a, new, w, x, y
      <4> HIDE DEF e
      <4> QED
        BY <2>2, <4>1 DEF KernelStates, With
    <3>8. /\ e \in PipeRecord /\ e.claimed /\ e.read_sem = x /\ e.write_sem = y
          /\ e.interested = 1 /\ e.amount = 0 /\ e.stored = 0 /\ e.taken = 0
          /\ e.read_pos = 0 /\ e.write_pos = 0
      <4> DEFINE f == FreePipe
      <4>1. f \in PipeRecord
        BY FreeIsPipe
      <4>2. /\ f.amount = 0 /\ f.stored = 0 /\ f.taken = 0 /\ f.read_pos = 0
            /\ f.write_pos = 0
        BY DEF FreePipe
      <4>3. e = [f EXCEPT !.claimed = yes, !.read_sem = x, !.write_sem = y,
                          !.interested = one]
        OBVIOUS
      <4> HIDE DEF e, f
      <4> QED
        BY <3>1, <4>1, <4>2, <4>3 DEF PipeRecord
    <3> HIDE DEF e
    <3>9. InOrder(e)
      <4>1. PIPE_SIZE \in Nat /\ PIPE_SIZE > 0 /\ BYTES \in Nat /\ BYTES > 0
        BY PipeAssumption DEF BYTES
      <4>2. 0 % PIPE_SIZE = 0 /\ 0 % BYTES = 0
        BY <4>1
      <4>3. \A j \in 0..PIPE_SIZE - 1 : ~(j < 0)
        BY <4>1
      <4> QED
        BY <3>8, <4>1, <4>2, <4>3 DEF InOrder
    <3>10. PipeOK(m, a, W[a])
      <4>1. m.sems = w /\ Pipe(m, a) = e
        BY <2>1, <2>2, <3>7, <3>8, KernelWith
      <4>2. Cardinality({p}) = 1
        BY FS_Singleton
      <4>3. PIPE_SIZE - 0 = PIPE_SIZE
        BY PipeAssumption
      <4> QED
        BY <3>2, <3>4, <3>8, <3>9, <4>1, <4>2, <4>3 DEF PipeOK, n, o
    <3>11. KernelOK(m, W)
      BY <2>7, <3>4, <3>6, <3>7, <3>8, <3>10
    <3> QED
      BY <2>1, <3>3, <3>5, <3>11
  <2> QED
    BY <2>8, <2>9
<1> QED
  BY <1>1, <1>2

-----------------------------------------------------------------------------
(* Who has which pipe open, as the processes know it.                      *)
Users == [i \in SLOTS |-> {p \in Procs : fd[p] = i}]

PipeInv ==
    /\ KernelOK(kernel, Users)
    /\ fd \in [Procs -> SLOTS \cup {NO_PIPE}] /\ call \in [Procs -> Calls]
    /\ \A p \in Procs : /\ CallOK(call[p], fd[p])
                        /\ call[p].kind # "none" => fd[p] # NO_PIPE

LEMMA UsersOf ==
  ASSUME fd \in [Procs -> SLOTS \cup {NO_PIPE}]
  PROVE  /\ Users \in UserSets
         /\ \A i \in SLOTS : \A p : p \in Users[i] <=> p \in Procs /\ fd[p] = i
         /\ \A p \in Procs : fd[p] # NO_PIPE => fd[p] \in SLOTS /\ p \in Users[fd[p]]
<1>1. \A i \in SLOTS : Users[i] = {p \in Procs : fd[p] = i}
  BY DEF Users
<1>2. Users \in UserSets
  BY DEF Users, UserSets
<1> QED
  BY <1>1, <1>2

(* The users when process p opens or closes a pipe.                        *)
LEMMA UsersChange ==
  ASSUME fd \in [Procs -> SLOTS \cup {NO_PIPE}], NEW p \in Procs, NEW i \in SLOTS
  PROVE  /\ fd[p] = NO_PIPE /\ fd' = [fd EXCEPT ![p] = i]
              => /\ fd' \in [Procs -> SLOTS \cup {NO_PIPE}]
                 /\ Users' = [Users EXCEPT ![i] = Users[i] \cup {p}]
         /\ fd[p] = i /\ fd' = [fd EXCEPT ![p] = NO_PIPE]
              => /\ fd' \in [Procs -> SLOTS \cup {NO_PIPE}]
                 /\ Users' = [Users EXCEPT ![i] = Users[i] \ {p}]
<1> DEFINE f == fd'
<1>0. NO_PIPE \notin SLOTS
  BY DEF SLOTS
<1>1. Users' = [j \in SLOTS |-> {q \in Procs : f[q] = j}]
  BY DEF Users
<1>2. ASSUME fd[p] = NO_PIPE, f = [fd EXCEPT ![p] = i]
      PROVE  /\ f \in [Procs -> SLOTS \cup {NO_PIPE}]
             /\ Users' = [Users EXCEPT ![i] = Users[i] \cup {p}]
  <2>1. f \in [Procs -> SLOTS \cup {NO_PIPE}]
    BY <1>2
  <2>2. f[p] = i /\ \A q \in Procs : q # p => f[q] = fd[q]
    BY <1>2
  <2> HIDE DEF f
  <2>3. ASSUME NEW j \in SLOTS
        PROVE  {q \in Procs : f[q] = j} = IF j = i THEN Users[j] \cup {p} ELSE Users[j]
    BY <1>0, <1>2, <2>2 DEF Users
  <2>4. [j \in SLOTS |-> {q \in Procs : f[q] = j}] = [j \in SLOTS |-> IF j = i THEN Users[j] \cup {p} ELSE Users[j]]
    BY <2>3
  <2>5. [j \in SLOTS |-> IF j = i THEN Users[j] \cup {p} ELSE Users[j]] = [Users EXCEPT ![i] = Users[i] \cup {p}]
    BY DEF Users
  <2> QED
    BY <1>1, <2>1, <2>4, <2>5
<1>3. ASSUME fd[p] = i, f = [fd EXCEPT ![p] = NO_PIPE]
      PROVE  /\ f \in [Procs -> SLOTS \cup {NO_PIPE}]
             /\ Users' = [Users EXCEPT ![i] = Users[i] \ {p}]
  <2>1. f \in [Procs -> SLOTS \cup {NO_PIPE}]
    BY <1>3
  <2>2. f[p] = NO_PIPE /\ \A q \in Procs : q # p => f[q] = fd[q]
    BY <1>3
  <2> HIDE DEF f
  <2>3. ASSUME NEW j \in SLOTS
        PROVE  {q \in Procs : f[q] = j} = IF j = i THEN Users[j] \ {p} ELSE Users[j]
    BY <1>0, <1>3, <2>2 DEF Users
  <2>4. [j \in SLOTS |-> {q \in Procs : f[q] = j}] = [j \in SLOTS |-> IF j = i THEN Users[j] \ {p} ELSE Users[j]]
    BY <2>3
  <2>5. [j \in SLOTS |-> IF j = i THEN Users[j] \ {p} ELSE Users[j]] = [Users EXCEPT ![i] = Users[i] \ {p}]
    BY DEF Users
  <2> QED
    BY <1>1, <2>1, <2>4, <2>5
<1> QED
  BY <1>2, <1>3

(* The calls when one process goes on with its own.                        *)
LEMMA CallsChange ==
  ASSUME NEW p \in Procs, call \in [Procs -> Calls], fd' = fd,
         \A q \in Procs : CallOK(call[q], fd[q]) /\ (call[q].kind # "none" => fd[q] # NO_PIPE),
         NEW r, CallOK(r, fd[p]), fd[p] # NO_PIPE, call' = [call EXCEPT ![p] = r]
  PROVE  /\ call' \in [Procs -> Calls]
         /\ \A q \in Procs : CallOK(call'[q], fd'[q]) /\ (call'[q].kind # "none" => fd'[q] # NO_PIPE)
<1>1. /\ call' \in [Procs -> Calls] /\ call'[p] = r
      /\ \A q \in Procs : q # p => call'[q] = call[q]
  BY DEF CallOK
<1> QED
  BY <1>1

(* A step of a transfer.                                                   *)
LEMMA TransferStep ==
  ASSUME PipeInv, NEW p \in Procs, fd[p] # NO_PIPE, UNCHANGED fd, NEW r, Becomes(p, r),
         \A i \in SLOTS : p \in Users[i] /\ fd[p] = i =>
             KernelOK(r.kernel, Users) /\ SameOpen(kernel, r.kernel) /\ CallOK(r.call, i)
  PROVE  PipeInv' /\ SameOpen(kernel, kernel') /\ Users' = Users
<1>1. /\ fd \in [Procs -> SLOTS \cup {NO_PIPE}] /\ call \in [Procs -> Calls]
      /\ \A q \in Procs : CallOK(call[q], fd[q]) /\ (call[q].kind # "none" => fd[q] # NO_PIPE)
  BY DEF PipeInv
<1>2. fd[p] \in SLOTS /\ p \in Users[fd[p]]
  BY <1>1, UsersOf
<1>3. KernelOK(r.kernel, Users) /\ SameOpen(kernel, r.kernel) /\ CallOK(r.call, fd[p])
  BY <1>2
<1>4. kernel' = r.kernel /\ call' = [call EXCEPT ![p] = r.call] /\ fd' = fd
  BY DEF Becomes
<1>5. Users' = Users
  BY <1>4 DEF Users
<1>6. /\ call' \in [Procs -> Calls]
      /\ \A q \in Procs : CallOK(call'[q], fd'[q]) /\ (call'[q].kind # "none" => fd'[q] # NO_PIPE)
  BY <1>1, <1>3, <1>4, CallsChange
<1> QED
  BY <1>1, <1>3, <1>4, <1>5, <1>6 DEF PipeInv

(* What reading and writing start from.                                    *)
LEMMA NewTransfer ==
  ASSUME NEW i \in SLOTS, NEW n \in Nat \ {0}, NEW kind \in {"read", "write"}
  PROVE  LET c == Transfer(kind, i, n, FALSE) IN CallOK(c, i) /\ c.kind # "none"
<1> PICK no \in BOOLEAN : no = FALSE
  OBVIOUS
<1>1. Transfer(kind, i, n, no) \in Calls
  BY DEF Transfer, Calls
<1> QED
  BY <1>1 DEF Transfer, CallOK

LEMMA ReadsAndWrites ==
  ASSUME PipeInv, NEW p \in Procs,
         \/ \E n \in ReadSizes : SysReadFromPipe(p, n)
         \/ \E n \in WriteSizes : SysWriteToPipe(p, n)
         \/ Resume(p)
  PROVE  PipeInv' /\ SameOpen(kernel, kernel') /\ Users' = Users
<1>1. /\ KernelOK(kernel, Users) /\ fd \in [Procs -> SLOTS \cup {NO_PIPE}]
      /\ CallOK(call[p], fd[p]) /\ (call[p].kind # "none" => fd[p] # NO_PIPE)
  BY DEF PipeInv
<1>2. ASSUME NEW n \in Nat \ {0}, NEW kind \in {"read", "write"}, fd[p] # NO_PIPE, UNCHANGED fd,
             Becomes(p, Advance(kernel, p, Transfer(kind, fd[p], n, FALSE), 0))
      PROVE  PipeInv' /\ SameOpen(kernel, kernel') /\ Users' = Users
  <2> DEFINE c == Transfer(kind, fd[p], n, FALSE)
             r == Advance(kernel, p, c, 0)
  <2>1. ASSUME NEW i \in SLOTS, p \in Users[i], fd[p] = i
        PROVE  KernelOK(r.kernel, Users) /\ SameOpen(kernel, r.kernel) /\ CallOK(r.call, i)
    <3>1. CallOK(c, i) /\ c.kind # "none"
      BY <2>1, NewTransfer
    <3> PICK owed \in {0, 1} : owed = 0
      OBVIOUS
    <3>2. r = Advance(kernel, p, c, owed) /\ ~(owed = 1)
      OBVIOUS
    <3> HIDE DEF c, r
    <3> QED
      BY <1>1, <2>1, <3>1, <3>2, AdvanceKeeps
  <2>2. Becomes(p, r)
    BY <1>2
  <2> HIDE DEF r
  <2> QED
    BY <1>2, <2>1, <2>2, TransferStep
<1>3. ASSUME Resume(p) PROVE PipeInv' /\ SameOpen(kernel, kernel') /\ Users' = Users
  <2> DEFINE c == call[p]
             r == GoOn(kernel, p, c)
  <2>1. c.kind # "none" /\ fd[p] # NO_PIPE /\ UNCHANGED fd /\ Becomes(p, r)
    BY <1>1, <1>3 DEF Resume, Idle
  <2>2. ASSUME NEW i \in SLOTS, p \in Users[i], fd[p] = i
        PROVE  KernelOK(r.kernel, Users) /\ SameOpen(kernel, r.kernel) /\ CallOK(r.call, i)
    BY <1>1, <2>1, <2>2, GoOnKeeps
  <2> HIDE DEF r, c
  <2> QED
    BY <2>1, <2>2, TransferStep
<1>4. ASSUME NEW n \in ReadSizes, SysReadFromPipe(p, n)
      PROVE  PipeInv' /\ SameOpen(kernel, kernel') /\ Users' = Users
  BY <1>2, <1>4, PipeAssumption DEF SysReadFromPipe
<1>5. ASSUME NEW n \in WriteSizes, SysWriteToPipe(p, n)
      PROVE  PipeInv' /\ SameOpen(kernel, kernel') /\ Users' = Users
  BY <1>2, <1>5, PipeAssumption DEF SysWriteToPipe
<1> QED
  BY <1>3, <1>4, <1>5

(* Opening and closing.                                                    *)
LEMMA IdleKeeps ==
  ASSUME PipeInv, NEW p \in Procs, Idle(p), UNCHANGED call, NEW v \in SLOTS \cup {NO_PIPE},
         fd' = [fd EXCEPT ![p] = v], KernelOK(kernel', Users')
  PROVE  PipeInv'
<1>1. /\ fd \in [Procs -> SLOTS \cup {NO_PIPE}] /\ call \in [Procs -> Calls]
      /\ \A q \in Procs : CallOK(call[q], fd[q]) /\ (call[q].kind # "none" => fd[q] # NO_PIPE)
  BY DEF PipeInv
<1>2. /\ fd' \in [Procs -> SLOTS \cup {NO_PIPE}] /\ call' = call
      /\ \A q \in Procs : q # p => fd'[q] = fd[q]
  BY <1>1
<1>3. CallOK(call[p], fd'[p]) /\ call[p].kind = "none"
  BY <1>1 DEF Idle, CallOK
<1> QED
  BY <1>1, <1>2, <1>3 DEF PipeInv

LEMMA Creates ==
  ASSUME PipeInv, NEW p \in Procs, SysCreatePipe(p)
  PROVE  PipeInv' /\ Users' = IF CreatedPipe(kernel, p) = NO_PIPE THEN Users
                              ELSE [Users EXCEPT ![CreatedPipe(kernel, p)] = {p}]
<1> DEFINE i == CreatedPipe(kernel, p)
           V == IF i = NO_PIPE THEN Users ELSE [Users EXCEPT ![i] = {p}]
<1>1. /\ KernelOK(kernel, Users) /\ fd \in [Procs -> SLOTS \cup {NO_PIPE}]
      /\ kernel' = CreatePipe(kernel, p) /\ fd[p] = NO_PIPE /\ fd' = [fd EXCEPT ![p] = i]
      /\ Idle(p) /\ UNCHANGED call
  BY DEF PipeInv, SysCreatePipe
<1> HIDE DEF i
<1>2. KernelOK(kernel', V) /\ (i = NO_PIPE \/ (i \in SLOTS /\ Users[i] = {}))
  BY <1>1, CreateKeeps DEF i
<1>3. Users' = V
  <2>1. CASE i = NO_PIPE
    <3>1. fd' = fd
      BY <1>1, <2>1
    <3>2. Users' = Users
      BY <3>1 DEF Users
    <3> QED
      BY <2>1, <3>2
  <2>2. CASE i # NO_PIPE
    <3>1. i \in SLOTS /\ Users[i] \cup {p} = {p}
      BY <1>2, <2>2
    <3>2. Users' = [Users EXCEPT ![i] = Users[i] \cup {p}]
      BY <1>1, <3>1, UsersChange
    <3> QED
      BY <2>2, <3>1, <3>2
  <2> QED
    BY <2>1, <2>2
<1>4. i \in SLOTS \cup {NO_PIPE} /\ KernelOK(kernel', Users')
  BY <1>2, <1>3
<1>5. PipeInv'
  BY <1>1, <1>4, IdleKeeps
<1> QED
  BY <1>3, <1>5 DEF i

LEMMA Joins ==
  ASSUME PipeInv, InSight(kernel), NEW p \in Procs, NEW i \in SLOTS, SysOpenPipe(p, i)
  PROVE  /\ PipeInv' /\ SameOpen(kernel, kernel')
         /\ Users' = [Users EXCEPT ![i] = Users[i] \cup {p}] /\ Users[i] # {}
<1>1. /\ KernelOK(kernel, Users) /\ fd \in [Procs -> SLOTS \cup {NO_PIPE}]
      /\ kernel' = JoinPipe(kernel, p, i) /\ fd[p] = NO_PIPE /\ fd' = [fd EXCEPT ![p] = i]
      /\ Idle(p) /\ UNCHANGED call /\ \E q \in Procs : fd[q] = i
  BY DEF PipeInv, SysOpenPipe
<1>2. Users[i] # {} /\ p \notin Users[i]
  <2>1. i # NO_PIPE
    BY DEF SLOTS
  <2> QED
    BY <1>1, <2>1, UsersOf
<1> DEFINE V == [Users EXCEPT ![i] = Users[i] \cup {p}]
<1>3. KernelOK(kernel', V) /\ SameOpen(kernel, kernel')
  BY <1>1, <1>2, JoinKeeps
<1>4. Users' = V
  BY <1>1, UsersChange
<1>5. KernelOK(kernel', Users')
  BY <1>3, <1>4
<1>6. PipeInv'
  BY <1>1, <1>5, IdleKeeps
<1> QED
  BY <1>2, <1>3, <1>4, <1>6

LEMMA Leaves ==
  ASSUME PipeInv, NEW p \in Procs, SysClosePipe(p), NEW i, i = fd[p]
  PROVE  /\ PipeInv' /\ i \in SLOTS /\ p \in Users[i]
         /\ Users' = [Users EXCEPT ![i] = Users[i] \ {p}]
         /\ kernel' = ClosePipe(kernel, p, i)
<1>1. /\ KernelOK(kernel, Users) /\ fd \in [Procs -> SLOTS \cup {NO_PIPE}]
      /\ kernel' = ClosePipe(kernel, p, i) /\ fd[p] # NO_PIPE /\ fd' = [fd EXCEPT ![p] = NO_PIPE]
      /\ Idle(p) /\ UNCHANGED call
  BY DEF PipeInv, SysClosePipe
<1>2. i \in SLOTS /\ p \in Users[i]
  BY <1>1, UsersOf
<1> DEFINE V == [Users EXCEPT ![i] = Users[i] \ {p}]
<1>3. KernelOK(kernel', V)
  BY <1>1, <1>2, CloseKeeps
<1>4. Users' = V
  BY <1>1, <1>2, UsersChange
<1>5. KernelOK(kernel', Users')
  BY <1>3, <1>4
<1>6. PipeInv'
  BY <1>1, <1>5, IdleKeeps
<1> QED
  BY <1>1, <1>2, <1>4, <1>6

LEMMA PipeStarts == PipeInit => PipeInv
<1> SUFFICES ASSUME PipeInit PROVE PipeInv
  OBVIOUS
<1>1. fd = [p \in Procs |-> NO_PIPE] /\ call = [p \in Procs |-> NoCall] /\ kernel = Kernel0
  BY DEF PipeInit
<1>2. fd \in [Procs -> SLOTS \cup {NO_PIPE}] /\ \A p \in Procs : fd[p] = NO_PIPE
  BY <1>1
<1>3. NoCall \in Calls /\ NoCall.kind = "none"
  BY DEF NoCall, Calls
<1>4. call \in [Procs -> Calls] /\ \A p \in Procs : call[p].kind = "none"
  BY <1>1, <1>3
<1>5. Users \in UserSets /\ InUse(Users) = {}
  <2>1. \A i \in SLOTS : i # NO_PIPE
    BY DEF SLOTS
  <2>2. \A i \in SLOTS : Users[i] = {}
    BY <1>2, <2>1, UsersOf
  <2> QED
    BY <1>2, <2>2, UsersOf DEF InUse
<1>6. NoSemaphores \in SemTables /\ \A s \in SEMS : NoSemaphores.list[s].name = NO_NAME
  <2> PICK v \in Int : v = 0
    OBVIOUS
  <2> PICK lock \in {0, 1} : lock = 0
    OBVIOUS
  <2> PICK none \in SUBSET Procs : none = {}
    OBVIOUS
  <2> DEFINE queue == <<>>
  <2>0. queue \in Seq(Procs)
    OBVIOUS
  <2> HIDE DEF queue
  <2> DEFINE e == [ name |-> NO_NAME, sem_value |-> v, lock |-> lock, interested |-> none,
                    waiting |-> queue ]
             b == [s \in SEMS |-> e]
  <2>1. e \in PipeSems /\ e.name = NO_NAME
    BY <2>0 DEF PipeSems, Semaphore
  <2>2. NoSemaphores = [list |-> b, active |-> v]
    BY DEF NoSemaphores, queue
  <2> HIDE DEF e
  <2>3. b \in [SEMS -> PipeSems] /\ \A s \in SEMS : b[s] = e
    BY <2>1
  <2> HIDE DEF b
  <2> QED
    BY <2>1, <2>2, <2>3 DEF SemTables
<1>7. FreePipe \in PipeRecord
  BY FreeIsPipe
<1>8. /\ kernel \in KernelStates /\ kernel.sems = NoSemaphores /\ kernel.active_pipes = 0
  <2> PICK n \in 0..MAX_PIPES : n = 0
    BY PipeAssumption
  <2> PICK none \in SUBSET Procs : none = {}
    OBVIOUS
  <2> DEFINE b == [i \in SLOTS |-> FreePipe]
  <2>1. b \in [SLOTS -> PipeRecord]
    BY <1>7
  <2>2. kernel = [pipeList |-> b, active_pipes |-> n, sems |-> NoSemaphores, asleep |-> none]
    BY <1>1 DEF Kernel0
  <2> HIDE DEF b
  <2> QED
    BY <1>6, <2>1, <2>2 DEF KernelStates
<1>9. \A s \in SEMS : SemOK(kernel, Users, s)
  BY <1>5, <1>6, <1>8, NamesApart DEF SemOK, IsNameOf
<1>10. Cardinality({}) = 0
  BY FS_EmptySet
<1>11. KernelOK(kernel, Users)
  BY <1>5, <1>8, <1>9, <1>10 DEF KernelOK
<1> QED
  BY <1>2, <1>3, <1>4, <1>11 DEF PipeInv, CallOK

LEMMA PipeSteps == PipeInv /\ InSight(kernel) /\ [PipeNext]_pipeVars => PipeInv'
<1> SUFFICES ASSUME PipeInv, InSight(kernel), [PipeNext]_pipeVars PROVE PipeInv'
  OBVIOUS
<1>1. ASSUME NEW p \in Procs, SysCreatePipe(p) PROVE PipeInv'
  BY <1>1, Creates
<1>2. ASSUME NEW p \in Procs, NEW i \in SLOTS, SysOpenPipe(p, i) PROVE PipeInv'
  BY <1>2, Joins
<1>3. ASSUME NEW p \in Procs, SysClosePipe(p) PROVE PipeInv'
  BY <1>3, Leaves
<1>4. ASSUME NEW p \in Procs,
             \/ \E n \in ReadSizes : SysReadFromPipe(p, n)
             \/ \E n \in WriteSizes : SysWriteToPipe(p, n)
             \/ Resume(p)
      PROVE  PipeInv'
  BY <1>4, ReadsAndWrites
<1>5. CASE UNCHANGED pipeVars
  <2>1. kernel' = kernel /\ call' = call /\ fd' = fd
    BY <1>5 DEF pipeVars
  <2>2. Users' = Users
    BY <2>1 DEF Users
  <2> QED
    BY <2>1, <2>2 DEF PipeInv
<1> QED
  BY <1>1, <1>2, <1>3, <1>4, <1>5 DEF PipeNext

-----------------------------------------------------------------------------
(* What the invariant says of the pipes that are open.                     *)
LEMMA HeldPipe ==
  ASSUME PipeInv, NEW i \in Held
  PROVE  i \in SLOTS /\ Users[i] # {} /\ PipeOK(kernel, i, Users[i])
<1>1. fd \in [Procs -> SLOTS \cup {NO_PIPE}] /\ KernelOK(kernel, Users)
  BY DEF PipeInv
<1>2. i \in SLOTS /\ Users[i] # {}
  BY <1>1, UsersOf DEF Held
<1> QED
  BY <1>1, <1>2, UsedPipe

LEMMA SoundPipes == PipeInv => PipesSound
<1> SUFFICES ASSUME PipeInv PROVE PipesSound
  OBVIOUS
<1>1. /\ kernel \in KernelStates /\ fd \in [Procs -> SLOTS \cup {NO_PIPE}]
      /\ call \in [Procs -> Calls]
  BY DEF PipeInv, KernelOK
<1>2. PipeTypeOK
  BY <1>1, KernelFields DEF PipeTypeOK, Calls
<1>3. PermitsMatchBytes
  BY HeldPipe DEF PermitsMatchBytes, PipeOK
<1> QED
  BY <1>2, <1>3 DEF PipesSound

LEMMA OrderedPipes == PipeInv => BytesInOrder
BY HeldPipe DEF BytesInOrder, PipeOK

LEMMA KeptPipes == PipeInv => HoldersKeepPipe
<1> SUFFICES ASSUME PipeInv, NEW p \in Procs, fd[p] # NO_PIPE
             PROVE  LET pipe == Pipe(kernel, fd[p])
                    IN  /\ pipe.claimed
                        /\ Cardinality({q \in Procs : fd[q] = fd[p]}) <= pipe.interested
                        /\ \A s \in {pipe.read_sem, pipe.write_sem} : Interested(kernel.sems, s, p)
                        /\ kernel.sems.list[pipe.read_sem].name = SemName("semread", fd[p])
                        /\ kernel.sems.list[pipe.write_sem].name = SemName("semwrite", fd[p])
  BY DEF HoldersKeepPipe
<1> DEFINE i == fd[p]
<1>1. fd \in [Procs -> SLOTS \cup {NO_PIPE}] /\ KernelOK(kernel, Users)
  BY DEF PipeInv
<1>2. i \in SLOTS /\ p \in Users[i] /\ Users[i] = {q \in Procs : fd[q] = i}
  BY <1>1, UsersOf DEF Users
<1>3. PipeOK(kernel, i, Users[i]) /\ Pipe(kernel, i) \in PipeRecord
  BY <1>1, <1>2, UsedPipe
<1>4. Cardinality(Users[i]) = Pipe(kernel, i).interested /\ Pipe(kernel, i).interested \in Nat
  BY <1>3, PipeFields DEF PipeOK
<1>5. Cardinality({q \in Procs : fd[q] = i}) <= Pipe(kernel, i).interested
  BY <1>2, <1>4
<1> HIDE DEF i
<1>6. /\ Pipe(kernel, i).claimed
      /\ \A s \in {Pipe(kernel, i).read_sem, Pipe(kernel, i).write_sem} : Interested(kernel.sems, s, p)
      /\ kernel.sems.list[Pipe(kernel, i).read_sem].name = SemName("semread", i)
      /\ kernel.sems.list[Pipe(kernel, i).write_sem].name = SemName("semwrite", i)
  BY <1>2, <1>3 DEF PipeOK, Interested
<1> QED
  BY <1>5, <1>6 DEF i

-----------------------------------------------------------------------------
(* One pipe.  Its two semaphores are the first of the table, and sem_get   *)
(* looks at as many slots as there are open semaphores.                    *)
LEMMA OpenAfter ==
  ASSUME NEW t \in SemTables, NEW u, NEW r, NEW p, NEW name, NEW v, Opened(t, u, r, p, name, v)
  PROVE  \/ r = NO_SEM /\ OpenSems(u) = OpenSems(t) /\ u.active = t.active
         \/ /\ r \in SEMS \ OpenSems(t) /\ OpenSems(u) = OpenSems(t) \cup {r}
            /\ u.active = t.active + 1 /\ \A s \in SEMS \ OpenSems(t) : r <= s
<1>1. CASE r = NO_SEM /\ u = t
  BY <1>1
<1>2. CASE ~(r = NO_SEM /\ u = t)
  <2>1. PICK e : Puts(t, u, r, e) /\ e.interested = {p}
    BY <1>2 DEF Opened
  <2>2. r \in SEMS /\ t.list[r].interested = {} /\ u.active = t.active + 1
        /\ r = Min(SEMS \ OpenSems(t))
    BY <1>2 DEF Opened
  <2>3. r \in SEMS \ OpenSems(t)
    BY <2>2 DEF OpenSems
  <2>4. \A s \in SEMS \ OpenSems(t) : r <= s
    <3>1. SEMS \ OpenSems(t) \subseteq Nat /\ SEMS \ OpenSems(t) # {}
      BY <2>3 DEF SEMS
    <3> QED
      BY <2>2, <3>1, MinOfNaturals
  <2>5. OpenSems(u) = OpenSems(t) \cup {r}
    BY <2>1, <2>2 DEF OpenSems, Puts
  <2> QED
    BY <2>2, <2>3, <2>4, <2>5
<1> QED
  BY <1>1, <1>2

LEMMA FirstPair ==
  ASSUME NEW t \in SemTables, OpenSems(t) = {}, t.active = 0, NEW p,
         NEW u \in SemTables, NEW y, NEW o, NEW v, Opened(t, u, y, p, o, v),
         NEW w, NEW x, NEW n, NEW z, Opened(u, w, x, p, n, z)
  PROVE  /\ OpenSems(w) \subseteq 0..w.active - 1
         /\ x # NO_SEM /\ y # NO_SEM => OpenSems(w) = 0..1 /\ w.active = 2
<1>1. SEMS \subseteq Nat /\ 0 \in SEMS /\ 0 \notin OpenSems(t)
      /\ \A r \in SEMS : \A s \in Nat : s <= r => s \in SEMS
  BY SemTableAssumption DEF SEMS
<1>2. \/ y = NO_SEM /\ OpenSems(u) = {} /\ u.active = 0
      \/ y = 0 /\ OpenSems(u) = {0} /\ u.active = 1
  <2>1. \/ y = NO_SEM /\ OpenSems(u) = OpenSems(t) /\ u.active = t.active
        \/ /\ y \in SEMS /\ OpenSems(u) = OpenSems(t) \cup {y}
           /\ u.active = t.active + 1 /\ \A s \in SEMS \ OpenSems(t) : y <= s
    BY OpenAfter
  <2>2. y \in SEMS /\ (\A s \in SEMS \ OpenSems(t) : y <= s) => y = 0
    BY <1>1
  <2> QED
    BY <2>1, <2>2
<1>3. \/ x = NO_SEM /\ OpenSems(w) = OpenSems(u) /\ w.active = u.active
      \/ /\ x \in SEMS \ OpenSems(u) /\ OpenSems(w) = OpenSems(u) \cup {x}
         /\ w.active = u.active + 1 /\ \A s \in SEMS \ OpenSems(u) : x <= s
  BY OpenAfter
<1>4. CASE x = NO_SEM /\ OpenSems(w) = OpenSems(u) /\ w.active = u.active
  BY <1>2, <1>4
<1>5. CASE /\ x \in SEMS \ OpenSems(u) /\ OpenSems(w) = OpenSems(u) \cup {x}
           /\ w.active = u.active + 1 /\ \A s \in SEMS \ OpenSems(u) : x <= s
  <2>1. CASE y = NO_SEM /\ OpenSems(u) = {} /\ u.active = 0
    <3>1. x = 0
      BY <1>1, <1>5, <2>1
    <3> QED
      BY <1>5, <2>1, <3>1
  <2>2. CASE y = 0 /\ OpenSems(u) = {0} /\ u.active = 1
    <3>1. x \in Nat /\ x # 0 /\ x \in SEMS
      BY <1>1, <1>5, <2>2
    <3>2. 1 \in SEMS \ OpenSems(u)
      BY <1>1, <2>2, <3>1
    <3>3. x = 1
      BY <1>5, <3>1, <3>2
    <3>4. {0} \cup {x} = 0..1
      BY <3>3
    <3>5. OpenSems(w) = 0..1 /\ w.active = 2
      BY <1>5, <2>2, <3>4
    <3> QED
      BY <3>5
  <2> QED
    BY <1>2, <2>1, <2>2
<1> QED
  BY <1>3, <1>4, <1>5

SightInv ==
    /\ InSight(kernel)
    /\ ~Pipe(kernel, 0).claimed => OpenSems(kernel.sems) = {} /\ kernel.sems.active = 0
    /\ Users[0] # {} => OpenSems(kernel.sems) = 0..1 /\ kernel.sems.active = 2

LEMMA SightStays ==
  ASSUME PipeInv, SightInv, SameOpen(kernel, kernel'), Users'[0] # {} => Users[0] # {},
         MAX_PIPES = 1
  PROVE  SightInv'
<1>1. SLOTS = {0}
  BY DEF SLOTS
<1>2. Pipe(kernel', 0).claimed <=> Pipe(kernel, 0).claimed
  BY <1>1 DEF SameOpen, Claimed
<1> QED
  BY <1>2 DEF SightInv, SameOpen, InSight

LEMMA SightWhenCreated ==
  ASSUME PipeInv, SightInv, MAX_PIPES = 1, NEW p \in Procs, SysCreatePipe(p)
  PROVE  SightInv'
<1>1. SLOTS = {0} /\ 0 \in SLOTS
  BY DEF SLOTS
<1>2. KernelOK(kernel, Users) /\ kernel' = CreatePipe(kernel, p) /\ kernel.sems \in SemTables
  BY KernelFields DEF PipeInv, SysCreatePipe, KernelOK
<1>3. CASE ~CanCreatePipe(kernel)
  <2>1. kernel' = kernel /\ CreatedPipe(kernel, p) = NO_PIPE
    BY <1>2, <1>3 DEF CreatePipe, CreatedPipe
  <2>2. Users' = Users
    BY <2>1, Creates
  <2> QED
    BY <2>1, <2>2 DEF SightInv
<1>4. CASE CanCreatePipe(kernel)
  <2> DEFINE i == NewSlot(kernel)
             new == NewSems(kernel, p)
             t == WriteSemOpened(kernel, p)
  <2>1. /\ i \in SLOTS /\ ~Pipe(kernel, i).claimed
        /\ t \in SemTables /\ new.table \in SemTables
        /\ Opened(kernel.sems, t, new.write, p, SemName("semwrite", i), PIPE_SIZE)
        /\ Opened(t, new.table, new.read, p, SemName("semread", i), 0)
    BY <1>2, <1>4, NewPair
  <2>2. i = 0 /\ OpenSems(kernel.sems) = {} /\ kernel.sems.active = 0
    BY <1>1, <2>1 DEF SightInv
  <2>3. /\ OpenSems(new.table) \subseteq 0..new.table.active - 1
        /\ new.read # NO_SEM /\ new.write # NO_SEM
              => OpenSems(new.table) = 0..1 /\ new.table.active = 2
    BY <1>2, <2>1, <2>2, FirstPair
  <2>4. kernel'.sems = new.table
    <3>1. kernel \in KernelStates
      BY <1>2 DEF KernelOK
    <3> HIDE DEF new
    <3> QED
      BY <1>2, <1>4, <3>1 DEF CreatePipe, KernelStates, new
  <2>5. CASE new.write = NO_SEM \/ new.read = NO_SEM
    <3>1. CreatedPipe(kernel, p) = NO_PIPE
      BY <2>5 DEF CreatedPipe
    <3>2. Users' = Users
      BY <3>1, Creates
    <3>3. Users[0] = {}
      BY <1>1, <1>2, <2>1, <2>2 DEF KernelOK, InUse, PipeOK
    <3>4. Pipe(kernel', 0).claimed
      <4>1. Pipe(kernel, 0) \in PipeRecord /\ kernel.pipeList \in [SLOTS -> PipeRecord]
            /\ kernel \in KernelStates
        BY <1>1, <1>2, KernelFields DEF KernelOK
      <4>2. kernel' = [kernel EXCEPT !.pipeList[i].claimed = TRUE, !.sems = new.table]
        BY <1>2, <1>4, <2>5 DEF CreatePipe
      <4> HIDE DEF new, i
      <4>3. kernel'.pipeList = [kernel.pipeList EXCEPT ![i].claimed = TRUE]
        BY <4>1, <4>2 DEF KernelStates
      <4>4. kernel'.pipeList[i] = [kernel.pipeList[i] EXCEPT !.claimed = TRUE]
        BY <2>1, <4>1, <4>3
      <4> QED
        BY <2>1, <2>2, <4>1, <4>4 DEF PipeRecord, Pipe
    <3> QED
      BY <2>3, <2>4, <3>2, <3>3, <3>4 DEF SightInv, InSight
  <2>6. CASE ~(new.write = NO_SEM \/ new.read = NO_SEM)
    <3>1. CreatedPipe(kernel, p) = 0
      BY <1>4, <2>2, <2>6 DEF CreatedPipe
    <3>2. PipeInv' /\ Users' = [Users EXCEPT ![0] = {p}]
      BY <3>1, Creates
    <3>3. Users'[0] # {}
      BY <1>1, <3>2 DEF Users
    <3>4. Pipe(kernel', 0).claimed
      <4>1. KernelOK(kernel', Users')
        BY <3>2 DEF PipeInv
      <4> QED
        BY <1>1, <3>3, <4>1, UsedPipe DEF PipeOK
    <3> QED
      BY <2>3, <2>4, <2>6, <3>4 DEF SightInv, InSight
  <2> QED
    BY <2>5, <2>6
<1> QED
  BY <1>3, <1>4

LEMMA SightWhenClosed ==
  ASSUME PipeInv, SightInv, MAX_PIPES = 1, NEW p \in Procs, SysClosePipe(p)
  PROVE  SightInv'
<1> DEFINE pipe == Pipe(kernel, 0)
<1>1. SLOTS = {0} /\ 0 \in SLOTS
  BY DEF SLOTS
<1>2. /\ KernelOK(kernel, Users) /\ p \in Users[0]
      /\ Users' = [Users EXCEPT ![0] = Users[0] \ {p}] /\ kernel' = ClosePipe(kernel, p, 0)
  <2>1. KernelOK(kernel, Users)
    BY DEF PipeInv
  <2>2. fd[p] = 0
    BY <1>1, Leaves
  <2> QED
    BY <2>1, <2>2, Leaves
<1>3. Closed(kernel, kernel', 0, Users')
  BY <1>1, <1>2, CloseKeeps
<1>4. CASE Users'[0] # {}
  BY <1>2, <1>3, <1>4, SightStays DEF Closed
<1>5. CASE Users'[0] = {}
  <2>1. /\ pipe.read_sem \in SEMS /\ pipe.write_sem \in SEMS
        /\ pipe.read_sem # pipe.write_sem /\ PipeOK(kernel, 0, Users[0])
    BY <1>1, <1>2, UsedPipe
  <2>2. pipe.read_sem \in OpenSems(kernel.sems) /\ pipe.write_sem \in OpenSems(kernel.sems)
    BY <1>2, <2>1 DEF PipeOK, OpenSems
  <2>3. OpenSems(kernel.sems) = 0..1 /\ kernel.sems.active = 2
    BY <1>2 DEF SightInv
  <2> HIDE DEF pipe
  <2>4. 0..1 \subseteq {pipe.read_sem, pipe.write_sem}
    BY <2>1, <2>2, <2>3
  <2>5. OpenSems(kernel'.sems) = {} /\ kernel'.sems.active = 0
    BY <1>3, <1>5, <2>3, <2>4 DEF Closed, pipe
  <2> QED
    BY <1>3, <1>5, <2>5 DEF SightInv, InSight, Closed
<1> QED
  BY <1>4, <1>5

LEMMA SightStarts ==
  ASSUME PipeInit, MAX_PIPES = 1
  PROVE  SightInv
<1>1. OpenSems(kernel.sems) = {} /\ kernel.sems.active = 0
  BY DEF PipeInit, Kernel0, NoSemaphores, OpenSems
<1>2. 0 \in SLOTS
  BY DEF SLOTS
<1>3. fd = [q \in Procs |-> NO_PIPE]
  BY DEF PipeInit
<1>4. Users[0] = {}
  BY <1>2, <1>3 DEF Users
<1> QED
  BY <1>1, <1>4 DEF SightInv, InSight

LEMMA SightSteps ==
  ASSUME MAX_PIPES = 1
  PROVE  PipeInv /\ SightInv /\ [PipeNext]_pipeVars => SightInv'
<1> SUFFICES ASSUME PipeInv, SightInv, [PipeNext]_pipeVars PROVE SightInv'
  OBVIOUS
<1>0. SLOTS = {0} /\ InSight(kernel)
  BY DEF SLOTS, SightInv
<1>1. ASSUME NEW p \in Procs, SysCreatePipe(p) PROVE SightInv'
  BY <1>1, SightWhenCreated
<1>2. ASSUME NEW p \in Procs, NEW i \in SLOTS, SysOpenPipe(p, i) PROVE SightInv'
  <2>1. SameOpen(kernel, kernel') /\ Users[0] # {}
    BY <1>0, <1>2, Joins
  <2> QED
    BY <2>1, SightStays
<1>3. ASSUME NEW p \in Procs, SysClosePipe(p) PROVE SightInv'
  BY <1>3, SightWhenClosed
<1>4. ASSUME NEW p \in Procs,
             \/ \E n \in ReadSizes : SysReadFromPipe(p, n)
             \/ \E n \in WriteSizes : SysWriteToPipe(p, n)
             \/ Resume(p)
      PROVE  SightInv'
  <2>1. SameOpen(kernel, kernel') /\ Users' = Users
    BY <1>4, ReadsAndWrites
  <2> QED
    BY <2>1, SightStays
<1>5. CASE UNCHANGED pipeVars
  <2>1. kernel' = kernel /\ fd' = fd
    BY <1>5 DEF pipeVars
  <2>2. Users' = Users
    BY <2>1 DEF Users
  <2> QED
    BY <2>1, <2>2 DEF SightInv
<1> QED
  BY <1>1, <1>2, <1>3, <1>4, <1>5 DEF PipeNext

-----------------------------------------------------------------------------
(* For any number of pipes: as long as sem_get sees every open semaphore,  *)
(* each open pipe belongs, with its semaphores, to exactly its users.      *)
THEOREM PipeInvariance == PipeSpec /\ []InSight(kernel) => []PipeInv
<1>1. PipeInit => PipeInv
  BY PipeStarts
<1>2. PipeInv /\ InSight(kernel) /\ [PipeNext]_pipeVars => PipeInv'
  BY PipeSteps
<1> QED
  BY <1>1, <1>2, PTL DEF PipeSpec

(* Then every byte comes out once and in order (pipe.c, the transfers).    *)
THEOREM BytesComeInOrder == PipeSpec /\ []InSight(kernel) => []BytesInOrder
<1>1. PipeInv => BytesInOrder
  BY OrderedPipes
<1> QED
  BY <1>1, PipeInvariance, PTL

(* Then the two semaphores of a pipe count its bytes and its free places.  *)
THEOREM PermitsCountBytes == PipeSpec /\ []InSight(kernel) => []PipesSound
<1>1. PipeInv => PipesSound
  BY SoundPipes
<1> QED
  BY <1>1, PipeInvariance, PTL

(* Then a pipe is not taken from a process that has it open.               *)
THEOREM UsersKeepTheirPipe == PipeSpec /\ []InSight(kernel) => []HoldersKeepPipe
<1>1. PipeInv => HoldersKeepPipe
  BY KeptPipes
<1> QED
  BY <1>1, PipeInvariance, PTL

(* With one pipe sem_get always sees every open semaphore: both are freed  *)
(* together, and an attempt to make the pipe that fails ends all others.   *)
THEOREM OnePipeIsInSight == MAX_PIPES = 1 => (PipeSpec => []InSight(kernel))
<1> SUFFICES ASSUME MAX_PIPES = 1 PROVE PipeSpec => []InSight(kernel)
  OBVIOUS
<1>1. PipeInit => PipeInv /\ SightInv
  BY PipeStarts, SightStarts
<1>2. PipeInv /\ SightInv /\ [PipeNext]_pipeVars => (PipeInv /\ SightInv)'
  <2>1. SightInv => InSight(kernel)
    BY DEF SightInv
  <2> QED
    BY <2>1, PipeSteps, SightSteps
<1>3. PipeInv /\ SightInv => InSight(kernel)
  BY DEF SightInv
<1> QED
  BY <1>1, <1>2, <1>3, PTL DEF PipeSpec

(* So one pipe keeps all of this whatever its users do.                    *)
THEOREM OnePipeIsSafe ==
  MAX_PIPES = 1 => (PipeSpec => [](PipesSound /\ BytesInOrder /\ HoldersKeepPipe))
<1> SUFFICES ASSUME MAX_PIPES = 1
             PROVE  PipeSpec => [](PipesSound /\ BytesInOrder /\ HoldersKeepPipe)
  OBVIOUS
<1>1. PipeSpec => []InSight(kernel)
  BY OnePipeIsInSight
<1> QED
  BY <1>1, BytesComeInOrder, PermitsCountBytes, UsersKeepTheirPipe, PTL

-----------------------------------------------------------------------------
(***************************************************************************)
(* The kernel under the shell.  Processes are killed and their pids taken  *)
(* again, so a semaphore may be open for more processes than use the pipe. *)
(***************************************************************************)

(* Every open semaphore is one of a claimed pipe, of which C are.          *)
TableOK(t, C) ==
    /\ t \in SemTables /\ t.active = Cardinality(OpenSems(t))
    /\ \A s \in SEMS : t.list[s].interested = {} => t.list[s].name = NO_NAME
    /\ \A s \in OpenSems(t) : \E i \in C : IsNameOf(t.list[s].name, i)
    /\ \A r, s \in SEMS : t.list[r].name = t.list[s].name /\ t.list[r].name # NO_NAME => r = s

Seen(t) == OpenSems(t) \subseteq 0..t.active - 1

KINDS == {"semread", "semwrite"}

LEMMA CountNames ==
  ASSUME NEW C, IsFiniteSet(C)
  PROVE  /\ IsFiniteSet(KINDS \X C) /\ Cardinality(KINDS \X C) = 2 * Cardinality(C)
         /\ Cardinality(C) \in Nat
         /\ \A kind \in KINDS : \A i \in C : SemName(kind, i) \in KINDS \X C
<1>1. KINDS = {"semread"} \cup {"semwrite"} /\ "semread" # "semwrite"
  BY DEF KINDS
<1>2. IsFiniteSet(KINDS) /\ Cardinality(KINDS) = 2
  BY <1>1, TwoAreTwo
<1>3. IsFiniteSet(KINDS \X C) /\ Cardinality(KINDS \X C) = Cardinality(KINDS) * Cardinality(C)
  BY <1>2, FS_Product
<1>4. Cardinality(C) \in Nat
  BY FS_CardinalityType
<1>5. \A kind \in KINDS : \A i \in C : SemName(kind, i) \in KINDS \X C
  BY DEF SemName
<1> QED
  BY <1>2, <1>3, <1>4, <1>5

(* A name that no semaphore has leaves room in the table.                  *)
LEMMA FewOpen ==
  ASSUME NEW C, IsFiniteSet(C), NEW t, TableOK(t, C)
  PROVE  /\ IsFiniteSet(OpenSems(t)) /\ Cardinality(OpenSems(t)) \in Nat
         /\ Cardinality(OpenSems(t)) <= 2 * Cardinality(C)
         /\ \A kind \in KINDS : \A i \in C :
               (\A s \in SEMS : t.list[s].name # SemName(kind, i))
                  => Cardinality(OpenSems(t)) < 2 * Cardinality(C)
<1> DEFINE O == OpenSems(t)
           N == KINDS \X C
           f == [s \in O |-> t.list[s].name]
<1>1. /\ IsFiniteSet(N) /\ Cardinality(N) = 2 * Cardinality(C) /\ Cardinality(C) \in Nat
      /\ \A kind \in KINDS : \A i \in C : SemName(kind, i) \in N
  BY CountNames
<1>2. O \subseteq SEMS
  BY DEF OpenSems
<1>3. \A s \in O : t.list[s].name \in N /\ t.list[s].name # NO_NAME
  <2>1. ASSUME NEW s \in O PROVE t.list[s].name \in N /\ t.list[s].name # NO_NAME
    <3>1. PICK i \in C : IsNameOf(t.list[s].name, i)
      BY DEF TableOK
    <3>2. SemName("semread", i) \in N /\ SemName("semwrite", i) \in N
      BY <1>1 DEF KINDS
    <3> QED
      BY <3>1, <3>2, NamesApart DEF IsNameOf
  <2> QED
    BY <2>1
<1>4. \A r, s \in O : t.list[r].name = t.list[s].name => r = s
  BY <1>2, <1>3 DEF TableOK
<1>5. ASSUME NEW M, M \subseteq N, IsFiniteSet(M), \A s \in O : t.list[s].name \in M
      PROVE  IsFiniteSet(O) /\ Cardinality(O) <= Cardinality(M)
  <2>1. f \in [O -> M] /\ \A r, s \in O : f[r] = f[s] => r = s
    BY <1>4, <1>5
  <2> HIDE DEF f, O, N
  <2>2. f \in Injection(O, M)
    BY <2>1 DEF Injection, IsInjective
  <2> QED
    BY <1>5, <2>2, FS_Injection
<1>6. IsFiniteSet(O) /\ Cardinality(O) <= Cardinality(N)
  BY <1>1, <1>3, <1>5
<1>7. Cardinality(O) \in Nat
  BY <1>6, FS_CardinalityType
<1>8. ASSUME NEW kind \in KINDS, NEW i \in C, \A s \in SEMS : t.list[s].name # SemName(kind, i)
      PROVE  Cardinality(O) < 2 * Cardinality(C)
  <2> DEFINE n == SemName(kind, i)
             M == N \ {n}
  <2>1. n \in N
    BY <1>1
  <2>2. IsFiniteSet(M) /\ Cardinality(M) = Cardinality(N) - 1
    BY <1>1, <2>1, FS_RemoveElement
  <2>3. \A s \in O : t.list[s].name \in M
    BY <1>2, <1>3, <1>8
  <2>4. Cardinality(O) <= Cardinality(M)
    <3> HIDE DEF n
    <3>1. M \subseteq N
      OBVIOUS
    <3> HIDE DEF M, N, O
    <3> QED
      BY <1>5, <2>2, <2>3, <3>1
  <2> QED
    BY <1>1, <1>7, <2>2, <2>4
<1> QED
  BY <1>1, <1>6, <1>7, <1>8

(* sem_get sees the open semaphores when they are the first of the table.  *)
LEMMA FirstOnes ==
  ASSUME NEW C, IsFiniteSet(C), NEW t, TableOK(t, C), Seen(t)
  PROVE  t.active \in Nat /\ OpenSems(t) = 0..t.active - 1
<1> DEFINE O == OpenSems(t)
           n == t.active
<1>1. n \in Nat /\ n = Cardinality(O) /\ O \subseteq 0..n - 1
  BY FewOpen DEF TableOK, Seen
<1>2. IsFiniteSet(0..n - 1) /\ Cardinality(0..n - 1) = n
  <2>1. /\ IsFiniteSet(0..n - 1)
        /\ Cardinality(0..n - 1) = IF 0 > n - 1 THEN 0 ELSE n - 1 - 0 + 1
    BY <1>1, FS_Interval
  <2> QED
    BY <1>1, <2>1
<1> HIDE DEF O, n
<1>3. O = 0..n - 1
  BY <1>1, <1>2, FS_Subset
<1> QED
  BY <1>1, <1>3 DEF O, n

-----------------------------------------------------------------------------
(* The table of semaphores with a pipe that is opened, joined or left.     *)

(* With room for a semaphore more, one with a new name is opened.          *)
NewIn(t, u, r, p, n, v) ==
    /\ r \in SEMS /\ r \notin OpenSems(t) /\ t.list[r].interested = {}
    /\ r = Min(SEMS \ OpenSems(t))
    /\ u.active = t.active + 1 /\ OpenSems(u) = OpenSems(t) \cup {r}
    /\ \E e : Puts(t, u, r, e) /\ e.name = n /\ e.interested = {p} /\ e.sem_value = v

Room(C) == 2 * Cardinality(C) <= MAX_OPEN /\ 2 * Cardinality(C) <= MAX_SEMAPHORES

LEMMA SlotsAreFinite ==
  ASSUME NEW C \in SUBSET SLOTS
  PROVE  IsFiniteSet(C) /\ Cardinality(C) \in Nat
<1>1. IsFiniteSet(SLOTS)
  BY PipeAssumption, FS_Interval DEF SLOTS
<1>2. C \subseteq SLOTS
  OBVIOUS
<1>3. IsFiniteSet(C)
  BY <1>1, <1>2, FS_Subset
<1> QED
  BY <1>3, FS_CardinalityType

LEMMA OpensNew ==
  ASSUME NEW C \in SUBSET SLOTS, NEW t, TableOK(t, C), Room(C), NEW p \in Procs,
         NEW kind \in KINDS, NEW i \in C, NEW v \in Nat, NEW n, n = SemName(kind, i),
         \A s \in SEMS : t.list[s].name # n,
         NEW r, r = OpenedSem(t, p, n, v), NEW u, u = OpenSem(t, p, n, v)
  PROVE  NewIn(t, u, r, p, n, v) /\ TableOK(u, C)
<1> DEFINE O == OpenSems(t)
<1>1. /\ IsFiniteSet(O) /\ Cardinality(O) \in Nat /\ Cardinality(O) < 2 * Cardinality(C)
      /\ Cardinality(C) \in Nat
  <2>1. IsFiniteSet(C) /\ Cardinality(C) \in Nat
    BY SlotsAreFinite
  <2>2. /\ IsFiniteSet(O) /\ Cardinality(O) \in Nat
        /\ \A k2 \in KINDS : \A j \in C :
               (\A s \in SEMS : t.list[s].name # SemName(k2, j)) => Cardinality(O) < 2 * Cardinality(C)
    BY <2>1, FewOpen
  <2> QED
    BY <2>1, <2>2
<1>2. t \in SemTables /\ t.active = Cardinality(O)
  BY DEF TableOK
<1>3. MAX_OPEN \in Nat /\ MAX_SEMAPHORES \in Nat /\ O \subseteq SEMS
  BY SemTableAssumption DEF OpenSems
<1>4. O # SEMS
  <2>1. Cardinality(SEMS) = MAX_SEMAPHORES
    BY <1>3, SemTableAssumption, FS_Interval DEF SEMS
  <2> HIDE DEF O
  <2> QED
    BY <1>1, <1>3, <2>1 DEF Room
<1>5. CanCreate(t, v)
  <2>1. t.active < MAX_OPEN
    <3> HIDE DEF O
    <3> QED
      BY <1>1, <1>2, <1>3 DEF Room
  <2> QED
    BY <1>4, <2>1 DEF CanCreate
<1>6. n \in PipeNames
  BY DEF PipeNames, KINDS
<1>7. SemGet(t, n) = NO_SEM
  BY DEF SemGet, Matching
<1>8. r = Min(SEMS \ O)
  BY <1>5, <1>7 DEF OpenedSem
<1>9. r \in SEMS \ O
  <2> PICK F : F = SEMS \ O
    OBVIOUS
  <2>1. r = Min(F)
    BY <1>8
  <2> HIDE DEF O
  <2>2. F # {}
    BY <1>3, <1>4
  <2>3. F \subseteq Nat
    BY DEF SEMS
  <2> QED
    BY <2>1, <2>2, <2>3, MinOfNaturals
<1>10. r # NO_SEM
  BY <1>9 DEF SEMS
<1>11. Opened(t, u, r, p, n, v)
  BY <1>2, <1>6, NewName
<1>12. PICK e : Puts(t, u, r, e) /\ e.name = n /\ e.interested = {p} /\ e.sem_value = v
  BY <1>10, <1>11 DEF Opened
<1>13. /\ u \in SemTables /\ e \in PipeSems /\ u.list[r] = e /\ u.active = t.active + 1
       /\ \A s \in SEMS \ {r} : u.list[s] = t.list[s]
  BY <1>10, <1>11, <1>12 DEF Opened, Puts
<1>14. t.list[r].interested = {}
  BY <1>9 DEF OpenSems
<1>15. OpenSems(u) = O \cup {r}
  BY <1>9, <1>12, <1>13 DEF OpenSems
<1>16. TableOK(u, C)
  <2>1. Cardinality(O \cup {r}) = Cardinality(O) + 1
    BY <1>1, <1>9, FS_AddElement
  <2>2. u.active = Cardinality(OpenSems(u))
    BY <1>2, <1>13, <1>15, <2>1
  <2>3. \A s \in SEMS : u.list[s].interested = {} => u.list[s].name = NO_NAME
    BY <1>12, <1>13 DEF TableOK
  <2>4. \A s \in OpenSems(u) : \E j \in C : IsNameOf(u.list[s].name, j)
    <3>1. IsNameOf(e.name, i)
      BY <1>12 DEF IsNameOf, KINDS
    <3>2. \A s \in O : s # r
      BY <1>9
    <3>3. \A s \in O : \E j \in C : IsNameOf(u.list[s].name, j)
      BY <1>3, <1>13, <3>2 DEF TableOK
    <3> QED
      BY <1>13, <1>15, <3>1, <3>3
  <2>5. \A q, s \in SEMS : u.list[q].name = u.list[s].name /\ u.list[q].name # NO_NAME => q = s
    BY <1>12, <1>13 DEF TableOK
  <2> QED
    BY <1>13, <2>2, <2>3, <2>4, <2>5 DEF TableOK
<1> QED
  BY <1>8, <1>9, <1>12, <1>13, <1>14, <1>15, <1>16 DEF NewIn

(* A semaphore that sem_get finds is joined, for another user or the same. *)
OldIn(t, u, r, p, n) ==
    /\ r \in SEMS /\ t.list[r].name = n /\ u.active = t.active /\ OpenSems(u) = OpenSems(t)
    /\ \E e : /\ Puts(t, u, r, e) /\ e.name = n /\ e.interested = t.list[r].interested \cup {p}
              /\ e.sem_value = t.list[r].sem_value

LEMMA OpensOld ==
  ASSUME NEW C \in SUBSET SLOTS, NEW t, TableOK(t, C), Seen(t), NEW p \in Procs,
         NEW n \in PipeNames, NEW v \in Nat, NEW r \in SEMS, t.list[r].name = n,
         NEW u, u = OpenSem(t, p, n, v)
  PROVE  OpenedSem(t, p, n, v) = r /\ OldIn(t, u, r, p, n) /\ TableOK(u, C)
<1>1. n # NO_NAME
  BY NamesApart DEF PipeNames
<1>2. t \in SemTables /\ r \in OpenSems(t)
  BY <1>1 DEF TableOK, OpenSems
<1>3. r < t.active
  <2>1. IsFiniteSet(C)
    BY SlotsAreFinite
  <2>2. t.active \in Nat /\ r \in 0..t.active - 1
    BY <1>2, <2>1, FirstOnes
  <2> QED
    BY <2>2
<1>4. \A s \in SEMS : t.list[s].name = n => s = r
  BY <1>1 DEF TableOK
<1>5. CanJoin(t, r, p)
  <2>1. t.list[r].interested \in SUBSET Procs
    BY <1>2, TableOfSems, SemFields
  <2> QED
    BY <2>1, RoomForOne DEF CanJoin, Interested
<1>6. /\ OpenedSem(t, p, n, v) = r /\ u.active = t.active
      /\ \E e : /\ Puts(t, u, r, e) /\ e.name = n
                /\ e.sem_value = t.list[r].sem_value
                /\ e.interested = t.list[r].interested \cup {p}
  BY <1>1, <1>2, <1>3, <1>4, <1>5, KnownName
<1>7. PICK e : /\ Puts(t, u, r, e) /\ e.name = n /\ e.sem_value = t.list[r].sem_value
               /\ e.interested = t.list[r].interested \cup {p}
  BY <1>6
<1>8. /\ u \in SemTables /\ u.list[r] = e
      /\ \A s \in SEMS \ {r} : u.list[s] = t.list[s]
  BY <1>7 DEF Puts
<1>9. OpenSems(u) = OpenSems(t)
  <2>1. \A s \in SEMS : u.list[s].interested = {} <=> t.list[s].interested = {}
    BY <1>2, <1>7, <1>8 DEF OpenSems
  <2> QED
    BY <2>1 DEF OpenSems
<1>10. \A s \in SEMS : u.list[s].name = t.list[s].name
  BY <1>7, <1>8
<1>11. TableOK(u, C)
  <2>1. OpenSems(t) \subseteq SEMS
    BY DEF OpenSems
  <2>2. \A s \in SEMS : u.list[s].interested = {} => u.list[s].name = NO_NAME
    BY <1>7, <1>8, <1>10 DEF TableOK
  <2>3. \A s \in OpenSems(u) : \E j \in C : IsNameOf(u.list[s].name, j)
    BY <1>9, <1>10, <2>1 DEF TableOK
  <2>4. \A q, s \in SEMS : u.list[q].name = u.list[s].name /\ u.list[q].name # NO_NAME => q = s
    BY <1>10 DEF TableOK
  <2> QED
    BY <1>6, <1>8, <1>9, <2>2, <2>3, <2>4 DEF TableOK
<1> QED
  BY <1>6, <1>9, <1>11 DEF OldIn

(* sem_open of the name of a claimed pipe does one or the other.           *)
LEMMA OpensNamed ==
  ASSUME NEW C \in SUBSET SLOTS, NEW t, TableOK(t, C), Seen(t), Room(C), NEW p \in Procs,
         NEW kind \in KINDS, NEW i \in C, NEW v \in Nat, NEW n, n = SemName(kind, i),
         NEW r, r = OpenedSem(t, p, n, v), NEW u, u = OpenSem(t, p, n, v)
  PROVE  /\ NewIn(t, u, r, p, n, v) \/ OldIn(t, u, r, p, n)
         /\ r \in SEMS /\ TableOK(u, C) /\ Seen(u)
<1>1. CASE \A s \in SEMS : t.list[s].name # n
  <2>1. NewIn(t, u, r, p, n, v) /\ TableOK(u, C)
    BY <1>1, OpensNew
  <2>2. t.active \in Nat /\ OpenSems(t) = 0..t.active - 1
    BY SlotsAreFinite, FirstOnes
  <2>3. r \in SEMS /\ r \notin OpenSems(t) /\ r = Min(SEMS \ OpenSems(t))
    BY <2>1 DEF NewIn
  <2>4. r = t.active
    <3> PICK F : F = SEMS \ OpenSems(t)
      OBVIOUS
    <3> DEFINE a == t.active
    <3>1. F \subseteq Nat /\ F # {} /\ r \in F
      BY <2>3 DEF SEMS
    <3>2. r = Min(F)
      BY <2>3
    <3>4. F = {x \in 0..MAX_SEMAPHORES - 1 : ~(x \in 0..a - 1)}
      BY <2>2 DEF SEMS
    <3>3. \A y \in F : r <= y
      BY <3>1, <3>2, MinOfNaturals
    <3>5. a \in Nat /\ MAX_SEMAPHORES \in Nat
      BY <2>2, SemTableAssumption
    <3> HIDE DEF a
    <3>6. r \in 0..MAX_SEMAPHORES - 1 /\ ~(r < a)
      BY <3>1, <3>4, <3>5
    <3>7. a \in F
      BY <3>4, <3>5, <3>6
    <3>8. r <= a
      BY <3>3, <3>7
    <3> QED
      BY <3>5, <3>6, <3>8 DEF a
  <2>5. Seen(u)
    <3>1. u.active = t.active + 1 /\ OpenSems(u) = OpenSems(t) \cup {r}
      BY <2>1 DEF NewIn
    <3>2. \A x \in Nat : 0..x - 1 \cup {x} \subseteq 0..(x + 1) - 1
      OBVIOUS
    <3> QED
      BY <2>2, <2>4, <3>1, <3>2 DEF Seen
  <2> QED
    BY <2>1, <2>3, <2>5
<1>2. CASE \E s \in SEMS : t.list[s].name = n
  <2>1. PICK s \in SEMS : t.list[s].name = n
    BY <1>2
  <2>2. n \in PipeNames
    BY DEF PipeNames, KINDS
  <2>3. OpenedSem(t, p, n, v) = s /\ OldIn(t, u, s, p, n) /\ TableOK(u, C)
    BY <2>1, <2>2, OpensOld
  <2> QED
    BY <2>3 DEF OldIn, Seen
<1> QED
  BY <1>1, <1>2

(* p closes semaphore s, if it has it open.                                *)
Shuts(t, u, s, p) ==
    /\ \A q \in SEMS \ {s} : u.list[q] = t.list[q]
    /\ u.list[s].interested = t.list[s].interested \ {p}
    /\ t.list[s].interested # {p} =>
          u.list[s].name = t.list[s].name /\ u.list[s].sem_value = t.list[s].sem_value

LEMMA ClosesTable ==
  ASSUME NEW C \in SUBSET SLOTS, NEW t, TableOK(t, C), NEW p \in Procs, NEW s \in SEMS,
         NEW u, u = CloseSem(t, s, p)
  PROVE  TableOK(u, C) /\ Shuts(t, u, s, p)
<1>1. CASE p \notin t.list[s].interested
  <2>1. u = t
    BY <1>1 DEF CloseSem, Interested
  <2>2. t.list[s].interested \ {p} = t.list[s].interested
    BY <1>1
  <2> QED
    BY <2>1, <2>2 DEF Shuts
<1>2. CASE p \in t.list[s].interested
  <2> DEFINE O == OpenSems(t)
             H == t.list[s].interested
  <2>1. t \in SemTables /\ t.active = Cardinality(O) /\ s \in O /\ O \subseteq SEMS
    BY <1>2 DEF TableOK, OpenSems
  <2>2. IsFiniteSet(O) /\ Cardinality(O) \in Nat
    BY SlotsAreFinite, FewOpen
  <2>3. Without(t, u, s, p)
    BY <1>2, <2>1, Closes
  <2>4. PICK e : /\ Puts(t, u, s, e) /\ e.interested = H \ {p}
                 /\ IF H = {p} THEN e.name = NO_NAME /\ u.active = t.active - 1
                    ELSE e.name = t.list[s].name /\ e.sem_value = t.list[s].sem_value
                         /\ u.active = t.active
    BY <2>3 DEF Without
  <2>5. /\ u \in SemTables /\ u.list[s] = e /\ \A q \in SEMS \ {s} : u.list[q] = t.list[q]
    BY <2>4 DEF Puts
  <2>6. OpenSems(u) = IF H = {p} THEN O \ {s} ELSE O
    <3>1. e.interested = {} <=> H = {p}
      BY <1>2, <2>4
    <3>2. \A q \in SEMS : q \in OpenSems(u) <=> u.list[q].interested # {}
      BY DEF OpenSems
    <3>3. \A q \in SEMS : q \in O <=> t.list[q].interested # {}
      BY DEF OpenSems
    <3>4. OpenSems(u) \subseteq SEMS
      BY DEF OpenSems
    <3> HIDE DEF O, H
    <3> QED
      BY <2>1, <2>5, <3>1, <3>2, <3>3, <3>4
  <2>7. u.active = Cardinality(OpenSems(u))
    <3>1. Cardinality(O \ {s}) = Cardinality(O) - 1
      BY <2>1, <2>2, FS_RemoveElement
    <3> QED
      BY <2>1, <2>4, <2>6, <3>1
  <2>8. \A q \in SEMS : u.list[q].name = t.list[q].name \/ u.list[q].name = NO_NAME
    BY <2>4, <2>5
  <2>9. \A q \in SEMS : u.list[q].interested = {} => u.list[q].name = NO_NAME
    <3>1. e.interested = {} => e.name = NO_NAME
      BY <1>2, <2>4
    <3> QED
      BY <2>5, <3>1 DEF TableOK
  <2>10. \A q \in OpenSems(u) : q \in O /\ u.list[q].name = t.list[q].name
    <3>1. s \in OpenSems(u) => e.name = t.list[s].name
      BY <2>1, <2>4, <2>6
    <3>2. OpenSems(u) \subseteq O
      BY <2>6
    <3> QED
      BY <2>1, <2>5, <3>1, <3>2
  <2>11. TableOK(u, C)
    <3>1. \A q \in OpenSems(u) : \E i \in C : IsNameOf(u.list[q].name, i)
      BY <2>10 DEF TableOK
    <3>2. \A q, r \in SEMS : u.list[q].name = u.list[r].name /\ u.list[q].name # NO_NAME => q = r
      BY <2>8 DEF TableOK
    <3> QED
      BY <2>5, <2>7, <2>9, <3>1, <3>2 DEF TableOK
  <2> QED
    BY <2>4, <2>5, <2>11 DEF Shuts
<1> QED
  BY <1>1, <1>2

(* With more pipes, or without one whose semaphores are closed.            *)
LEMMA OtherPipes ==
  ASSUME NEW C, NEW t, TableOK(t, C), NEW i
  PROVE  /\ TableOK(t, C \cup {i})
         /\ (\A s \in SEMS : ~IsNameOf(t.list[s].name, i)) => TableOK(t, C \ {i})
<1>1. OpenSems(t) \subseteq SEMS
  BY DEF OpenSems
<1>2. \A s \in OpenSems(t) : \E j \in C : IsNameOf(t.list[s].name, j)
  BY DEF TableOK
<1>3. \A s \in OpenSems(t) : \E j \in C \cup {i} : IsNameOf(t.list[s].name, j)
  BY <1>2
<1>4. (\A s \in SEMS : ~IsNameOf(t.list[s].name, i))
        => \A s \in OpenSems(t) : \E j \in C \ {i} : IsNameOf(t.list[s].name, j)
  BY <1>1, <1>2
<1> QED
  BY <1>3, <1>4 DEF TableOK

-----------------------------------------------------------------------------
(* A pipe i that H uses, and l that will never close it.                   *)
Rights(k, i) == k.sems.list[Pipe(k, i).read_sem].interested

(* Its semaphores are its own, with the same rights, and count its bytes.  *)
Kept(k, i) ==
    LET pipe  == Pipe(k, i)
        read  == k.sems.list[pipe.read_sem]
        write == k.sems.list[pipe.write_sem]
    IN  /\ read.name = SemName("semread", i) /\ write.name = SemName("semwrite", i)
        /\ write.interested = read.interested
        /\ read.sem_value = pipe.amount /\ write.sem_value = PIPE_SIZE - pipe.amount
        /\ InOrder(pipe)

Counted(k, i, H, l) ==
    IF Pipe(k, i).claimed THEN Pipe(k, i).interested = Cardinality(H) + l
    ELSE H = {} /\ l = 0

(* Its users have the right to it, and who has it can use no other pipe.   *)
Holds(k, i, H, l, P) ==
    /\ Kept(k, i) /\ H \subseteq Rights(k, i) /\ (l = 0 => Rights(k, i) = H)
    /\ \A p \in Rights(k, i) : i \in P[p]

(* That is so while the shell holds it, or nobody was lost.                *)
OnePipe(k, i, H, l, h, P) ==
    /\ Counted(k, i, H, l)
    /\ Pipe(k, i).claimed /\ (i = h \/ l = 0) => Holds(k, i, H, l, P)

Losses == [SLOTS -> Nat]
Places == [Procs -> SUBSET SLOTS]

Tidy(k) == TableOK(k.sems, Claimed(k)) /\ k.active_pipes = Cardinality(Claimed(k))

(* The kernel k, where U[i] use pipe i, L[i] were lost, the shell holds h  *)
(* and process p knows the pipes P[p].                                     *)
KInv(k, U, L, h, P) ==
    /\ k \in KernelStates /\ U \in UserSets /\ L \in Losses /\ P \in Places /\ P[0] = SLOTS
    /\ h \in SLOTS \cup {NO_PIPE} /\ (h # NO_PIPE => Pipe(k, h).claimed /\ 0 \in U[h])
    /\ Tidy(k)
    /\ \A i \in SLOTS : OnePipe(k, i, U[i], L[i], h, P)

SameSem(k, m, s) ==
    /\ m.sems.list[s].name = k.sems.list[s].name
    /\ m.sems.list[s].interested = k.sems.list[s].interested
    /\ m.sems.list[s].sem_value = k.sems.list[s].sem_value

(* What p does to pipe i.                                                  *)
Local(k, m, p, i) ==
    /\ \A j \in SLOTS \ {i} : Pipe(m, j) = Pipe(k, j)
    /\ \A s \in SEMS : \/ SameSem(k, m, s)
                       \/ k.sems.list[s].interested = {}
                       \/ IsNameOf(k.sems.list[s].name, i)
                       \/ p # 0 /\ p \in k.sems.list[s].interested

LEMMA OpenIsNamed ==
  ASSUME NEW k, NEW U, NEW L, NEW h, NEW P, KInv(k, U, L, h, P)
  PROVE  /\ k \in KernelStates /\ k.sems \in SemTables
         /\ \A s \in SEMS : k.sems.list[s].interested = {} => k.sems.list[s].name = NO_NAME
         /\ \A i \in SLOTS : /\ Pipe(k, i) \in PipeRecord /\ Pipe(k, i).read_sem \in SEMS
                             /\ Pipe(k, i).write_sem \in SEMS /\ U[i] \in SUBSET Procs
                             /\ L[i] \in Nat
         /\ Claimed(k) \in SUBSET SLOTS
BY KernelFields DEF KInv, Tidy, TableOK, UserSets, Losses, Claimed

(* It leaves the other pipes as they are.                                  *)
LEMMA Elsewhere ==
  ASSUME NEW k, NEW U, NEW L, NEW h, NEW P, KInv(k, U, L, h, P), NEW m,
         NEW p, NEW i \in SLOTS, p # 0 => P[p] \subseteq {i}, Local(k, m, p, i),
         NEW j \in SLOTS, j # i, NEW g, j = g => j = h
  PROVE  OnePipe(m, j, U[j], L[j], g, P)
<1> DEFINE x == Pipe(k, j).read_sem
           y == Pipe(k, j).write_sem
<1>1. OnePipe(k, j, U[j], L[j], h, P) /\ Pipe(m, j) = Pipe(k, j)
  BY DEF KInv, Local
<1>2. Counted(m, j, U[j], L[j])
  BY <1>1 DEF OnePipe, Counted
<1>3. ASSUME Pipe(m, j).claimed, j = g \/ L[j] = 0
      PROVE  Holds(m, j, U[j], L[j], P)
  <2>1. Holds(k, j, U[j], L[j], P)
    BY <1>1, <1>3 DEF OnePipe
  <2>2. x \in SEMS /\ y \in SEMS
    BY OpenIsNamed
  <2>3. p # 0 => p \notin k.sems.list[x].interested /\ p \notin k.sems.list[y].interested
    BY <2>1 DEF Holds, Kept, Rights
  <2>4. /\ k.sems.list[x].name = SemName("semread", j)
        /\ k.sems.list[y].name = SemName("semwrite", j)
    BY <2>1 DEF Holds, Kept
  <2>5. \A s \in {x, y} : /\ k.sems.list[s].interested # {}
                          /\ ~IsNameOf(k.sems.list[s].name, i)
    BY <2>2, <2>4, OpenIsNamed, NamesApart DEF IsNameOf
  <2>6. SameSem(k, m, x) /\ SameSem(k, m, y)
    BY <2>2, <2>3, <2>5 DEF Local
  <2>7. Rights(m, j) = Rights(k, j) /\ Kept(m, j)
    BY <1>1, <2>1, <2>6 DEF Rights, Kept, Holds, SameSem
  <2> QED
    BY <2>1, <2>7 DEF Holds
<1> QED
  BY <1>2, <1>3 DEF OnePipe

(* So it is enough to look at pipe i.                                      *)
LEMMA LooksAtOne ==
  ASSUME NEW k, NEW U, NEW L, NEW h, NEW P, KInv(k, U, L, h, P), NEW m \in KernelStates,
         NEW p, NEW i \in SLOTS, p # 0 => P[p] \subseteq {i}, Local(k, m, p, i),
         NEW V \in UserSets, \A j \in SLOTS \ {i} : V[j] = U[j],
         NEW M \in Losses, \A j \in SLOTS \ {i} : M[j] = L[j],
         NEW g \in SLOTS \cup {NO_PIPE}, g # NO_PIPE => Pipe(m, g).claimed /\ 0 \in V[g],
         \A j \in SLOTS \ {i} : j = g => j = h,
         Tidy(m), OnePipe(m, i, V[i], M[i], g, P)
  PROVE  KInv(m, V, M, g, P)
<1>1. P \in Places /\ P[0] = SLOTS
  BY DEF KInv
<1>2. ASSUME NEW j \in SLOTS PROVE OnePipe(m, j, V[j], M[j], g, P)
  <2>1. CASE j = i
    BY <2>1
  <2>2. CASE j # i
    <3>0. j = g => j = h
      BY <2>2
    <3>1. OnePipe(m, j, U[j], L[j], g, P)
      BY ONLY <2>2, <3>0, j \in SLOTS, i \in SLOTS, KInv(k, U, L, h, P), Local(k, m, p, i),
              p # 0 => P[p] \subseteq {i}, Elsewhere
    <3> QED
      BY <2>2, <3>1
  <2> QED
    BY <2>1, <2>2
<1> QED
  BY <1>1, <1>2 DEF KInv

(* A pipe of which only the count changes.                                 *)
LEMMA CountChanges ==
  ASSUME NEW pipe \in PipeRecord, NEW c \in Nat, NEW e, e = [pipe EXCEPT !.interested = c]
  PROVE  /\ e \in PipeRecord /\ e.interested = c /\ e.claimed = pipe.claimed
         /\ e.read_sem = pipe.read_sem /\ e.write_sem = pipe.write_sem
         /\ e.amount = pipe.amount /\ InOrder(e) = InOrder(pipe)
<1>1. /\ e \in PipeRecord /\ e.interested = c
      /\ e.claimed = pipe.claimed /\ e.read_sem = pipe.read_sem
      /\ e.write_sem = pipe.write_sem /\ e.read_pos = pipe.read_pos
      /\ e.write_pos = pipe.write_pos /\ e.amount = pipe.amount
      /\ e.stored = pipe.stored /\ e.taken = pipe.taken /\ e.pipe = pipe.pipe
  BY DEF PipeRecord
<1>2. InOrder(e) = InOrder(pipe)
  BY <1>1 DEF InOrder
<1> QED
  BY <1>1, <1>2

(* close_pipe by one of its users.                                         *)
Left(U, i, p) == [U EXCEPT ![i] = U[i] \ {p}]

LEMMA UserCloses ==
  ASSUME NEW k, NEW U, NEW L, NEW h, NEW P, KInv(k, U, L, h, P), NEW i \in SLOTS,
         NEW p \in U[i], p # 0 => P[p] \subseteq {i}, p = 0 => i = h,
         NEW g, p = 0 => g = NO_PIPE, p # 0 => g = h, NEW m, m = ClosePipe(k, p, i)
  PROVE  KInv(m, Left(U, i, p), L, g, P) /\ Claimed(m) \subseteq Claimed(k)
<1> PICK V : V = Left(U, i, p)
  OBVIOUS
<1> DEFINE pipe == Pipe(k, i)
           x == pipe.read_sem
           y == pipe.write_sem
           t == CloseSem(k.sems, x, p)
           w == CloseSem(t, y, p)
           H == U[i]
           l == L[i]
<1>1. /\ k \in KernelStates /\ k.sems \in SemTables /\ pipe \in PipeRecord
      /\ x \in SEMS /\ y \in SEMS /\ H \in SUBSET Procs /\ l \in Nat
      /\ Claimed(k) \in SUBSET SLOTS /\ p \in Procs
  BY OpenIsNamed
<1>2. /\ OnePipe(k, i, H, l, h, P) /\ Tidy(k) /\ U \in UserSets /\ L \in Losses
      /\ h \in SLOTS \cup {NO_PIPE} /\ (h # NO_PIPE => Pipe(k, h).claimed /\ 0 \in U[h])
  BY DEF KInv
<1>3. pipe.claimed /\ pipe.interested = Cardinality(H) + l
  BY <1>2 DEF OnePipe, Counted
<1>4. /\ IsFiniteSet(H) /\ Cardinality(H) \in Nat /\ Cardinality(H) # 0
      /\ Cardinality(H \ {p}) = Cardinality(H) - 1 /\ Cardinality(H \ {p}) \in Nat
  <2>1. IsFiniteSet(H)
    BY <1>1, ProcsAssumption, FS_Subset
  <2>2. IsFiniteSet(H \ {p}) /\ Cardinality(H \ {p}) = Cardinality(H) - 1
    BY <2>1, FS_RemoveElement
  <2>3. Cardinality(H) \in Nat /\ Cardinality(H \ {p}) \in Nat
    BY <2>1, <2>2, FS_CardinalityType
  <2> QED
    BY <2>1, <2>2, <2>3
<1>5. /\ V \in UserSets /\ V[i] = H \ {p} /\ \A j \in SLOTS \ {i} : V[j] = U[j]
  BY <1>1, <1>2 DEF UserSets, Left
<1>6. TableOK(t, Claimed(k)) /\ Shuts(k.sems, t, x, p)
  BY <1>1, <1>2, ClosesTable DEF Tidy
<1>7. TableOK(w, Claimed(k)) /\ Shuts(t, w, y, p)
  <2>1. TableOK(t, Claimed(k)) /\ w = CloseSem(t, y, p)
    BY <1>6
  <2> HIDE DEF t, w, x, y, pipe, H
  <2> QED
    BY <1>1, <2>1, ClosesTable
<1>8. w \in SemTables
  BY <1>7 DEF TableOK
<1> HIDE DEF t, w
<1>9. ASSUME i = h \/ l = 0
      PROVE  /\ x # y /\ Holds(k, i, H, l, P)
             /\ k.sems.list[x].name = SemName("semread", i)
             /\ k.sems.list[y].name = SemName("semwrite", i)
             /\ k.sems.list[y].interested = k.sems.list[x].interested
             /\ t.list[y] = k.sems.list[y]
             /\ w.list[x] = t.list[x]
  <2>1. Holds(k, i, H, l, P)
    BY <1>2, <1>3, <1>9 DEF OnePipe
  <2>2. /\ k.sems.list[x].name = SemName("semread", i)
        /\ k.sems.list[y].name = SemName("semwrite", i)
        /\ k.sems.list[y].interested = k.sems.list[x].interested
    BY <2>1 DEF Holds, Kept
  <2>3. x # y
    BY <2>2, NamesApart
  <2> QED
    BY <1>1, <1>6, <1>7, <2>1, <2>2, <2>3 DEF Shuts
<1>10. \A s \in SEMS :
         /\ s # x /\ s # y => w.list[s] = k.sems.list[s]
         /\ p \notin k.sems.list[s].interested =>
               /\ w.list[s].name = k.sems.list[s].name
               /\ w.list[s].interested = k.sems.list[s].interested
               /\ w.list[s].sem_value = k.sems.list[s].sem_value
  <2>1. \A s \in SEMS \ {x} : t.list[s] = k.sems.list[s]
    BY <1>6 DEF Shuts
  <2>2. \A s \in SEMS \ {y} : w.list[s] = t.list[s]
    BY <1>7 DEF Shuts
  <2>3. p \notin k.sems.list[x].interested =>
               /\ t.list[x].name = k.sems.list[x].name
               /\ t.list[x].interested = k.sems.list[x].interested
               /\ t.list[x].sem_value = k.sems.list[x].sem_value
    BY <1>6 DEF Shuts
  <2>4. p \notin t.list[y].interested =>
               /\ w.list[y].name = t.list[y].name
               /\ w.list[y].interested = t.list[y].interested
               /\ w.list[y].sem_value = t.list[y].sem_value
    BY <1>7 DEF Shuts
  <2> HIDE DEF x, y
  <2> QED
    BY <1>1, <2>1, <2>2, <2>3, <2>4
<1>11. ASSUME m.sems = w, \A j \in SLOTS \ {i} : Pipe(m, j) = Pipe(k, j)
       PROVE  Local(k, m, p, i)
  <2>1. ASSUME NEW s \in SEMS
        PROVE  \/ SameSem(k, m, s) \/ IsNameOf(k.sems.list[s].name, i)
               \/ p # 0 /\ p \in k.sems.list[s].interested
    <3>1. CASE p \notin k.sems.list[s].interested
      BY <1>10, <1>11, <3>1 DEF SameSem
    <3>2. CASE p = 0 /\ (s = x \/ s = y)
      BY <1>9, <3>2 DEF IsNameOf
    <3>3. CASE s # x /\ s # y
      BY <1>10, <1>11, <3>3 DEF SameSem
    <3> QED
      BY <3>1, <3>2, <3>3
  <2> QED
    BY <1>11, <2>1 DEF Local
<1>12. /\ k.asleep \in SUBSET Procs /\ k.active_pipes \in 0..MAX_PIPES
       /\ k.active_pipes = Cardinality(Claimed(k))
       /\ IsFiniteSet(Claimed(k)) /\ Cardinality(Claimed(k)) \in Nat
  BY <1>1, <1>2, KernelFields, SlotsAreFinite DEF Tidy
<1>13. /\ g \in SLOTS \cup {NO_PIPE} /\ (g # NO_PIPE => p # 0 /\ g = h)
       /\ \A j \in SLOTS : j = g => p # 0 /\ j = h /\ g # NO_PIPE
  <2>1. NO_PIPE \notin SLOTS
    BY DEF SLOTS
  <2> HIDE DEF NO_PIPE
  <2> QED
    BY <1>2, <2>1
<1>14. CASE pipe.interested = 1
  <2>1. H = {p} /\ l = 0
    <3>1. Cardinality(H) = 1 /\ l = 0
      BY <1>1, <1>3, <1>4, <1>14
    <3>2. PICK z : H = {z}
      BY <1>4, <3>1, FS_Singleton
    <3> QED
      BY <3>1, <3>2
  <2> PICK eof \in BOOLEAN : eof = pipe.eof
    BY <1>1 DEF PipeRecord
  <2> DEFINE free == [FreePipe EXCEPT !.eof = eof]
  <2>3. /\ Cardinality(Claimed(k) \ {i}) = k.active_pipes - 1 /\ k.active_pipes - 1 \in 0..MAX_PIPES
    <3>1. i \in Claimed(k)
      BY <1>3 DEF Claimed
    <3>2. /\ Cardinality(Claimed(k) \ {i}) = Cardinality(Claimed(k)) - 1
          /\ IsFiniteSet(Claimed(k) \ {i})
      BY <1>12, <3>1, FS_RemoveElement
    <3>3. Cardinality(Claimed(k) \ {i}) \in Nat
      BY <3>2, FS_CardinalityType
    <3> QED
      BY <1>12, <3>2, <3>3, PipeAssumption
  <2>4. m = With(k, i, free, k.active_pipes - 1, w, k.asleep)
    <3>1. m = [k EXCEPT !.sems = w, !.pipeList[i] = free, !.active_pipes = k.active_pipes - 1]
      BY <1>14 DEF ClosePipe, w, t
    <3> HIDE DEF free
    <3> QED
      BY <1>1, <3>1 DEF KernelStates, With
  <2>5. free \in PipeRecord /\ free.claimed = FALSE
    BY FreeIsPipe
  <2> HIDE DEF free
  <2> PICK n \in 0..MAX_PIPES : n = k.active_pipes - 1
    BY <2>3
  <2>6. /\ m \in KernelStates /\ m.sems = w /\ m.active_pipes = n
        /\ Pipe(m, i) = free /\ \A j \in SLOTS \ {i} : Pipe(m, j) = Pipe(k, j)
    BY <1>1, <1>8, <1>12, <2>4, <2>5, KernelWith
  <2>7. Claimed(m) = Claimed(k) \ {i}
    BY <2>5, <2>6 DEF Claimed
  <2>8. \A s \in SEMS : ~IsNameOf(w.list[s].name, i)
    <3>1. k.sems.list[x].interested = {p} /\ k.sems.list[y].interested = {p}
      BY <1>9, <2>1 DEF Holds, Rights
    <3>2. w.list[x].interested = {} /\ w.list[y].interested = {}
      BY <1>1, <1>6, <1>7, <1>9, <2>1, <3>1 DEF Shuts
    <3>3. w.list[x].name = NO_NAME /\ w.list[y].name = NO_NAME
      BY <1>1, <1>7, <3>2 DEF TableOK
    <3>4. \A s \in SEMS : IsNameOf(k.sems.list[s].name, i) => s = x \/ s = y
      <4>1. \A q, r \in SEMS : k.sems.list[q].name = k.sems.list[r].name
                                 /\ k.sems.list[q].name # NO_NAME => q = r
        BY <1>2 DEF Tidy, TableOK
      <4> QED
        BY <1>1, <1>9, <2>1, <4>1, NamesApart DEF IsNameOf
    <3> QED
      BY <1>1, <1>10, <3>3, <3>4, NamesApart DEF IsNameOf
  <2>9. Tidy(m)
    <3>1. TableOK(m.sems, Claimed(k) \ {i})
      BY <1>7, <2>6, <2>8, OtherPipes
    <3> QED
      BY <2>3, <2>6, <2>7, <3>1 DEF Tidy
  <2>10. OnePipe(m, i, V[i], L[i], g, P)
    BY <1>5, <2>1, <2>5, <2>6 DEF OnePipe, Counted
  <2>11. g # NO_PIPE => g # i /\ Pipe(m, g).claimed /\ 0 \in V[g]
    <3>1. g # NO_PIPE => g # i
      BY <1>2, <1>13, <2>1
    <3> QED
      BY <1>2, <1>5, <1>13, <2>6, <3>1
  <2>12. KInv(m, V, L, g, P)
    <3>1. Local(k, m, p, i)
      BY <1>11, <2>6
    <3>2. /\ m \in KernelStates /\ L \in Losses /\ V \in UserSets
          /\ \A j \in SLOTS \ {i} : V[j] = U[j]
          /\ g \in SLOTS \cup {NO_PIPE} /\ \A j \in SLOTS \ {i} : j = g => j = h
          /\ g # NO_PIPE => Pipe(m, g).claimed /\ 0 \in V[g]
      BY <1>2, <1>5, <1>13, <2>6, <2>11
    <3> QED
      BY ONLY <2>9, <2>10, <3>1, <3>2, LooksAtOne, KInv(k, U, L, h, P), i \in SLOTS,
              p # 0 => P[p] \subseteq {i}
  <2> QED
    BY <2>7, <2>12
<1>15. CASE pipe.interested # 1
  <2>1. PICK c \in Nat : c = pipe.interested - 1
    BY <1>1, <1>3, <1>4
  <2> DEFINE left == [pipe EXCEPT !.interested = c]
  <2>4. m = With(k, i, left, k.active_pipes, w, k.asleep)
    <3>2. m = [k EXCEPT !.sems = w, !.pipeList[i].interested = @ - 1]
      BY <1>15 DEF ClosePipe, w, t
    <3>3. m = [k EXCEPT !.sems = w, !.pipeList[i] = left]
      BY <2>1, <3>2 DEF Pipe
    <3> HIDE DEF left
    <3> QED
      BY <1>1, <3>3 DEF KernelStates, With
  <2>5. /\ left \in PipeRecord /\ left.interested = c
        /\ left.claimed = pipe.claimed /\ left.read_sem = x /\ left.write_sem = y
        /\ left.amount = pipe.amount /\ InOrder(left) = InOrder(pipe)
    <3> HIDE DEF pipe
    <3> QED
      BY <1>1, CountChanges
  <2> HIDE DEF left
  <2>6. /\ m \in KernelStates /\ m.sems = w /\ m.active_pipes = k.active_pipes
        /\ Pipe(m, i) = left /\ \A j \in SLOTS \ {i} : Pipe(m, j) = Pipe(k, j)
    BY <1>1, <1>8, <1>12, <2>4, <2>5, KernelWith
  <2>7. Claimed(m) = Claimed(k)
    <3>1. \A j \in SLOTS : Pipe(m, j).claimed = Pipe(k, j).claimed
      BY <2>5, <2>6
    <3> QED
      BY <3>1 DEF Claimed
  <2>8. Tidy(m)
    BY <1>7, <1>12, <2>6, <2>7 DEF Tidy
  <2>9. Counted(m, i, V[i], L[i])
    <3>1. c = Cardinality(H \ {p}) + l
      BY <1>1, <1>3, <1>4, <2>1
    <3> QED
      BY <1>3, <1>5, <2>5, <2>6, <3>1 DEF Counted
  <2>10. ASSUME i = g \/ l = 0 PROVE Holds(m, i, V[i], L[i], P)
    <3>1. i = h \/ l = 0
      BY <1>13, <2>10
    <3> DEFINE R == k.sems.list[x].interested
    <3>2. /\ x # y /\ Kept(k, i) /\ H \subseteq R /\ (l = 0 => R = H) /\ \A q \in R : i \in P[q]
      BY <1>9, <3>1 DEF Holds, Rights
    <3>3. R # {p}
      <4>1. CASE l = 0
        <5>0. Cardinality({p}) = 1
          BY FS_Singleton
        <5>1. ASSUME H = {p} PROVE FALSE
          <6>1. Cardinality(H) = 1
            BY <5>0, <5>1, Zenon
          <6> HIDE DEF H
          <6> QED
            BY <1>3, <1>15, <4>1, <6>1
        <5> QED
          BY <3>2, <4>1, <5>1
      <4>2. CASE i = g
        <5>1. p # 0 /\ 0 \in H
          BY <1>2, <1>13, <4>2
        <5> QED
          BY <3>2, <5>1
      <4> QED
        BY <2>10, <4>1, <4>2
    <3>4. /\ w.list[x].name = SemName("semread", i) /\ w.list[y].name = SemName("semwrite", i)
          /\ w.list[x].interested = R \ {p} /\ w.list[y].interested = R \ {p}
          /\ w.list[x].sem_value = k.sems.list[x].sem_value
          /\ w.list[y].sem_value = k.sems.list[y].sem_value
      BY <1>6, <1>7, <1>9, <3>1, <3>3 DEF Shuts
    <3>5. Kept(m, i) /\ Rights(m, i) = R \ {p}
      BY <2>5, <2>6, <3>2, <3>4 DEF Kept, Rights
    <3> QED
      BY <1>5, <3>2, <3>5 DEF Holds
  <2>11. OnePipe(m, i, V[i], L[i], g, P)
    BY <2>9, <2>10 DEF OnePipe
  <2>12. g # NO_PIPE => Pipe(m, g).claimed /\ 0 \in V[g]
    <3>1. ASSUME g # NO_PIPE PROVE Pipe(m, g).claimed /\ 0 \in V[g]
      <4>1. p # 0 /\ Pipe(k, g).claimed /\ 0 \in U[g] /\ g \in SLOTS
        BY <1>2, <1>13, <3>1
      <4>2. 0 \in V[g]
        BY <1>5, <4>1
      <4>3. Pipe(m, g).claimed
        BY <2>5, <2>6, <4>1
      <4> QED
        BY <4>2, <4>3
    <3> QED
      BY <3>1
  <2>13. KInv(m, V, L, g, P)
    <3>1. Local(k, m, p, i)
      BY <1>11, <2>6
    <3>2. /\ m \in KernelStates /\ L \in Losses /\ V \in UserSets
          /\ \A j \in SLOTS \ {i} : V[j] = U[j]
          /\ g \in SLOTS \cup {NO_PIPE} /\ \A j \in SLOTS \ {i} : j = g => j = h
      BY <1>2, <1>5, <1>13, <2>6
    <3> QED
      BY ONLY <2>8, <2>11, <2>12, <3>1, <3>2, LooksAtOne, KInv(k, U, L, h, P), i \in SLOTS,
              p # 0 => P[p] \subseteq {i}
  <2> QED
    BY <2>7, <2>13
<1> QED
  BY <1>14, <1>15

Joined(U, i, p) == [U EXCEPT ![i] = U[i] \cup {p}]

(* open_pipe of a claimed pipe, whose semaphores may be gone.              *)
LEMMA UserJoins ==
  ASSUME NEW k, NEW U, NEW L, NEW h, NEW P, KInv(k, U, L, h, P), NEW i \in SLOTS,
         Pipe(k, i).claimed, Seen(k.sems), Room(Claimed(k)),
         NEW p \in Procs, p # 0, P[p] = {i}, p \notin U[i],
         NEW m, m = JoinPipe(k, p, i)
  PROVE  KInv(m, Joined(U, i, p), L, h, P) /\ Claimed(m) = Claimed(k)
<1> PICK V : V = Joined(U, i, p)
  OBVIOUS
<1> DEFINE pipe == Pipe(k, i)
           x == pipe.read_sem
           y == pipe.write_sem
           nr == SemName("semread", i)
           nw == SemName("semwrite", i)
           r == OpenedSem(k.sems, p, nr, 1)
           t == OpenSem(k.sems, p, nr, 1)
           q == OpenedSem(t, p, nw, 1)
           w == OpenSem(t, p, nw, 1)
           C == Claimed(k)
           H == U[i]
           l == L[i]
<1>1. /\ k \in KernelStates /\ k.sems \in SemTables /\ pipe \in PipeRecord
      /\ x \in SEMS /\ y \in SEMS /\ H \in SUBSET Procs /\ l \in Nat
      /\ C \in SUBSET SLOTS
  BY OpenIsNamed
<1>2. /\ OnePipe(k, i, H, l, h, P) /\ Tidy(k) /\ U \in UserSets /\ L \in Losses
      /\ h \in SLOTS \cup {NO_PIPE} /\ (h # NO_PIPE => Pipe(k, h).claimed /\ 0 \in U[h])
  BY DEF KInv
<1>3. i \in C /\ TableOK(k.sems, C) /\ Seen(k.sems) /\ Room(C)
  BY <1>2 DEF Claimed, Tidy
<1>4. "semread" \in KINDS /\ "semwrite" \in KINDS /\ 1 \in Nat /\ nr # nw
  BY NamesApart DEF KINDS
<1>5. /\ NewIn(k.sems, t, r, p, nr, 1) \/ OldIn(k.sems, t, r, p, nr)
      /\ r \in SEMS /\ TableOK(t, C) /\ Seen(t)
  <2> HIDE DEF C
  <2> QED
    BY <1>1, <1>3, <1>4, OpensNamed
<1>6. /\ NewIn(t, w, q, p, nw, 1) \/ OldIn(t, w, q, p, nw)
      /\ q \in SEMS /\ TableOK(w, C) /\ Seen(w)
  <2>1. q = OpenedSem(t, p, nw, 1) /\ w = OpenSem(t, p, nw, 1) /\ nw = SemName("semwrite", i)
    OBVIOUS
  <2> HIDE DEF C, t, q, w, nw, nr, r, H, l
  <2> QED
    BY <1>1, <1>3, <1>4, <1>5, <2>1, OpensNamed
<1>7. m = [k EXCEPT !.sems = w, !.pipeList[i].interested = @ + 1]
  <2>1. r # NO_SEM /\ q # NO_SEM
    BY <1>5, <1>6 DEF SEMS
  <2> QED
    BY <2>1 DEF JoinPipe
<1>8. ASSUME i = h \/ l = 0
      PROVE  /\ Holds(k, i, H, l, P) /\ x # y
             /\ OldIn(k.sems, t, x, p, nr) /\ OldIn(t, w, y, p, nw)
             /\ t.list[y] = k.sems.list[y] /\ w.list[x] = t.list[x]
  <2>1. Holds(k, i, H, l, P)
    BY <1>2, <1>8 DEF OnePipe
  <2>2. k.sems.list[x].name = nr /\ k.sems.list[y].name = nw
    BY <2>1 DEF Holds, Kept
  <2>3. x # y
    BY <1>4, <2>2
  <2>4. OldIn(k.sems, t, x, p, nr)
    <3>1. nr \in PipeNames
      BY PipeName
    <3> HIDE DEF C, x
    <3>2. /\ C \in SUBSET SLOTS /\ TableOK(k.sems, C) /\ Seen(k.sems) /\ x \in SEMS
          /\ 1 \in Nat /\ p \in Procs /\ k.sems.list[x].name = nr
      BY <1>1, <1>3, <1>4, <2>2
    <3>3. OpenedSem(k.sems, p, nr, 1) = x /\ OldIn(k.sems, OpenSem(k.sems, p, nr, 1), x, p, nr)
      BY ONLY <3>1, <3>2, OpensOld
    <3> QED
      BY <3>3
  <2>5. t.list[y] = k.sems.list[y]
    BY <1>1, <2>3, <2>4 DEF OldIn, Puts
  <2>6. OldIn(t, w, y, p, nw)
    <3>1. nw \in PipeNames /\ t.list[y].name = nw
      BY <2>2, <2>5, PipeName
    <3> HIDE DEF C, t, y
    <3> QED
      <4>1. /\ C \in SUBSET SLOTS /\ TableOK(t, C) /\ Seen(t) /\ y \in SEMS
            /\ 1 \in Nat /\ p \in Procs
        BY <1>1, <1>4, <1>5
      <4>2. OpenedSem(t, p, nw, 1) = y /\ OldIn(t, OpenSem(t, p, nw, 1), y, p, nw)
        BY ONLY <3>1, <4>1, OpensOld
      <4> QED
        BY <4>2
  <2>7. w.list[x] = t.list[x]
    BY <1>1, <2>3, <2>6 DEF OldIn, Puts
  <2> QED
    BY <2>1, <2>3, <2>4, <2>5, <2>6, <2>7
<1> HIDE DEF t, w
<1>9. \A s \in SEMS : \/ w.list[s] = k.sems.list[s] \/ k.sems.list[s].interested = {}
                      \/ IsNameOf(k.sems.list[s].name, i)
  <2>1. PICK e : Puts(k.sems, t, r, e) /\ e.name = nr /\ p \in e.interested
    BY <1>5 DEF NewIn, OldIn
  <2>2. PICK f : Puts(t, w, q, f)
    BY <1>6 DEF NewIn, OldIn
  <2>3. /\ t.list[r] = e /\ \A s \in SEMS \ {r} : t.list[s] = k.sems.list[s]
        /\ \A s \in SEMS \ {q} : w.list[s] = t.list[s]
    BY <2>1, <2>2 DEF Puts
  <2>4. t.list[q].interested = {} \/ t.list[q].name = nw
    BY <1>6 DEF NewIn, OldIn
  <2>5. k.sems.list[r].interested = {} \/ k.sems.list[r].name = nr
    BY <1>5 DEF NewIn, OldIn
  <2>6. q # r
    BY <1>4, <2>1, <2>3, <2>4
  <2> HIDE DEF q, r
  <2> QED
    BY <1>5, <1>6, <2>3, <2>4, <2>5, <2>6 DEF IsNameOf
<1>10. /\ V \in UserSets /\ V[i] = H \cup {p} /\ \A j \in SLOTS \ {i} : V[j] = U[j]
       /\ Cardinality(V[i]) = Cardinality(H) + 1 /\ Cardinality(H) \in Nat
  <2>1. /\ V \in UserSets /\ V[i] = H \cup {p} /\ \A j \in SLOTS \ {i} : V[j] = U[j]
    BY <1>1, <1>2 DEF UserSets, Joined
  <2>2. Cardinality(H \cup {p}) = Cardinality(H) + 1 /\ Cardinality(H) \in Nat
    <3>1. p \notin H
      OBVIOUS
    <3> HIDE DEF H
    <3> QED
      BY <1>1, <3>1, RoomForOne
  <2> QED
    BY <2>1, <2>2
<1>11. pipe.interested = Cardinality(H) + l /\ pipe.interested \in Nat
  BY <1>1, <1>2, <1>10 DEF OnePipe, Counted
<1>12. PICK c \in Nat : c = pipe.interested + 1
  BY <1>11
<1> DEFINE e == [pipe EXCEPT !.interested = c]
<1>13. m = With(k, i, e, k.active_pipes, w, k.asleep)
  <2>1. m = [k EXCEPT !.sems = w, !.pipeList[i] = e]
    BY <1>7, <1>12 DEF Pipe
  <2> HIDE DEF e
  <2> QED
    BY <1>1, <2>1 DEF KernelStates, With
<1>14. /\ e \in PipeRecord /\ e.interested = c
       /\ e.claimed = pipe.claimed /\ e.read_sem = x /\ e.write_sem = y
       /\ e.amount = pipe.amount /\ InOrder(e) = InOrder(pipe)
  <2> HIDE DEF pipe
  <2> QED
    BY <1>1, CountChanges
<1> HIDE DEF e
<1>15. /\ m \in KernelStates /\ m.sems = w /\ m.active_pipes = k.active_pipes
       /\ Pipe(m, i) = e /\ \A j \in SLOTS \ {i} : Pipe(m, j) = Pipe(k, j)
  <2>1. k.asleep \in SUBSET Procs /\ k.active_pipes \in 0..MAX_PIPES /\ w \in SemTables
    BY <1>1, <1>6, KernelFields DEF TableOK
  <2> QED
    BY <1>1, <1>13, <1>14, <2>1, KernelWith
<1>16. \A j \in SLOTS : Pipe(m, j).claimed = Pipe(k, j).claimed
  BY <1>14, <1>15
<1>17. Claimed(m) = Claimed(k)
  BY <1>16 DEF Claimed
<1>18. Tidy(m)
  BY <1>2, <1>6, <1>15, <1>17 DEF Tidy
<1>19. Counted(m, i, V[i], l)
  <2>1. c = Cardinality(V[i]) + l
    BY <1>1, <1>10, <1>11, <1>12
  <2> QED
    BY <1>14, <1>15, <2>1 DEF Counted
<1>20. ASSUME i = h \/ l = 0 PROVE Holds(m, i, V[i], l, P)
  <2> DEFINE R == k.sems.list[x].interested
  <2>1. /\ x # y /\ Kept(k, i) /\ H \subseteq R /\ (l = 0 => R = H) /\ \A z \in R : i \in P[z]
        /\ k.sems.list[y].interested = R
    BY <1>8, <1>20 DEF Holds, Rights, Kept
  <2>2. /\ w.list[x].name = nr /\ w.list[x].interested = R \cup {p}
        /\ w.list[x].sem_value = k.sems.list[x].sem_value
    BY <1>8, <1>20 DEF OldIn, Puts
  <2>3. /\ w.list[y].name = nw /\ w.list[y].interested = R \cup {p}
        /\ w.list[y].sem_value = k.sems.list[y].sem_value
    BY <1>8, <1>20, <2>1 DEF OldIn, Puts
  <2>4. /\ k.sems.list[x].sem_value = pipe.amount
        /\ k.sems.list[y].sem_value = PIPE_SIZE - pipe.amount /\ InOrder(pipe)
    BY <2>1 DEF Kept
  <2>5. /\ Pipe(m, i).read_sem = x /\ Pipe(m, i).write_sem = y
        /\ Pipe(m, i).amount = pipe.amount /\ InOrder(Pipe(m, i)) = InOrder(pipe)
        /\ m.sems.list = w.list
    BY <1>14, <1>15
  <2> HIDE DEF R, x, y, pipe
  <2>6. Rights(m, i) = R \cup {p}
    BY <2>2, <2>5 DEF Rights
  <2>7. Kept(m, i)
    BY <2>2, <2>3, <2>4, <2>5 DEF Kept
  <2> QED
    BY <1>10, <2>1, <2>6, <2>7 DEF Holds
<1>21. OnePipe(m, i, V[i], L[i], h, P)
  BY <1>19, <1>20 DEF OnePipe
<1>22. Local(k, m, p, i)
  BY <1>9, <1>15 DEF Local, SameSem
<1>23. h # NO_PIPE => Pipe(m, h).claimed /\ 0 \in V[h]
  <2>1. ASSUME h # NO_PIPE PROVE Pipe(m, h).claimed /\ 0 \in V[h]
    <3>1. Pipe(k, h).claimed /\ 0 \in U[h] /\ h \in SLOTS
      BY <1>2, <2>1
    <3> QED
      BY <1>10, <1>16, <3>1
  <2> QED
    BY <2>1
<1>24. KInv(m, V, L, h, P)
  <2>1. /\ m \in KernelStates /\ L \in Losses /\ V \in UserSets /\ h \in SLOTS \cup {NO_PIPE}
        /\ \A j \in SLOTS \ {i} : V[j] = U[j]
    BY <1>2, <1>10, <1>15
  <2>2. P[p] \subseteq {i}
    OBVIOUS
  <2> QED
    BY ONLY <1>18, <1>21, <1>22, <1>23, <2>1, <2>2, LooksAtOne, KInv(k, U, L, h, P), i \in SLOTS
<1> QED
  BY <1>17, <1>24

-----------------------------------------------------------------------------
(* A call that leaves the users of the pipes alone.                        *)

(* Names and rights stay, and values that p has no right to.               *)
Quiet(t, u, p) ==
    /\ u \in SemTables /\ u.active = t.active
    /\ \A s \in SEMS : /\ u.list[s].name = t.list[s].name
                       /\ u.list[s].interested = t.list[s].interested
                       /\ p \notin t.list[s].interested => u.list[s].sem_value = t.list[s].sem_value

LEMMA QuietTurn ==
  ASSUME NEW t \in SemTables, NEW u, NEW s \in SEMS, NEW v, Turns(t, u, s, v), NEW p,
         v = t.list[s].sem_value \/ p \in t.list[s].interested
  PROVE  Quiet(t, u, p)
BY DEF Turns, Puts, Quiet

LEMMA QuietTable ==
  ASSUME NEW C, NEW t, TableOK(t, C), NEW u, NEW p, Quiet(t, u, p)
  PROVE  TableOK(u, C)
<1>1. OpenSems(u) = OpenSems(t)
  BY DEF Quiet, OpenSems
<1>2. OpenSems(t) \subseteq SEMS
  BY DEF OpenSems
<1> QED
  BY <1>1, <1>2 DEF Quiet, TableOK

(* The sem_waits and the sem_posts of a transfer of n bytes.               *)
Permitted(k, p, c, n, m, u, A) ==
    /\ m = [k EXCEPT !.sems = u, !.asleep = A] /\ A \subseteq Procs /\ Quiet(k.sems, u, p)
    /\ WaitSem(k, c) # PostsTo(k, c) /\ Interested(k.sems, WaitSem(k, c), p)
         /\ Interested(k.sems, PostsTo(k, c), p) =>
       /\ u.list[WaitSem(k, c)].sem_value = k.sems.list[WaitSem(k, c)].sem_value - n
       /\ u.list[PostsTo(k, c)].sem_value = k.sems.list[PostsTo(k, c)].sem_value + n

LEMMA QuietPermits ==
  ASSUME NEW k \in KernelStates, NEW p \in Procs, NEW c,
         NEW n \in Nat, NEW m, m = MovePermits(k, p, c, n),
         WaitSem(k, c) \in SEMS, PostsTo(k, c) \in SEMS
  PROVE  \E u, A : Permitted(k, p, c, n, m, u, A)
<1> DEFINE s == WaitSem(k, c)
           r == PostsTo(k, c)
           k0 == k.sems
           taken == TakeSem(k0, s, n)
<1>1. k0 \in SemTables /\ k.asleep \subseteq Procs /\ s \in SEMS /\ r \in SEMS /\ n \in Int
  BY KernelFields
<1>2. PICK t : t = IF Interested(k0, s, p) THEN taken ELSE k0
  OBVIOUS
<1>3. Turns(k0, taken, s, k0.list[s].sem_value - n)
  BY <1>1, Takes
<1>4. Quiet(k0, t, p) /\ (Interested(k0, s, p) => Turns(k0, t, s, k0.list[s].sem_value - n))
  <2>1. CASE Interested(k0, s, p)
    <3> HIDE DEF k0, s, taken
    <3>1. t = taken
      BY <1>2, <2>1
    <3>2. p \in k0.list[s].interested
      BY <2>1 DEF Interested
    <3> QED
      BY <1>1, <1>3, <3>1, <3>2, QuietTurn
  <2>2. CASE ~Interested(k0, s, p)
    BY <1>1, <1>2, <2>2 DEF Quiet
  <2> QED
    BY <2>1, <2>2
<1>5. t \in SemTables
  BY <1>4 DEF Quiet
<1> DEFINE u == IF Interested(t, r, p) THEN PostSem(t, r, n) ELSE t
           A == IF Interested(t, r, p) THEN k.asleep \ WokenBy(t, r, n) ELSE k.asleep
<1>6. m = [k EXCEPT !.sems = u, !.asleep = A]
  <2>1. CASE Interested(t, r, p)
    BY <1>2, <2>1 DEF MovePermits
  <2>2. CASE ~Interested(t, r, p)
    <3>1. m = [k EXCEPT !.sems = t]
      BY <1>2, <2>2 DEF MovePermits
    <3>2. [k EXCEPT !.sems = t] = [k EXCEPT !.sems = t, !.asleep = k.asleep]
      BY DEF KernelStates
    <3> QED
      BY <2>2, <3>1, <3>2
  <2> QED
    BY <2>1, <2>2
<1>7. A \subseteq Procs
  BY <1>1
<1> HIDE DEF A
<1>8. Quiet(t, u, p) /\ (Interested(t, r, p) => Turns(t, u, r, t.list[r].sem_value + n))
  <2>1. CASE Interested(t, r, p)
    <3>1. Turns(t, u, r, t.list[r].sem_value + n)
      BY <1>1, <1>5, <2>1, Posts
    <3> HIDE DEF r, u
    <3> QED
      BY <1>1, <1>5, <2>1, <3>1, QuietTurn DEF Interested
  <2>2. CASE ~Interested(t, r, p)
    BY <1>5, <2>2 DEF Quiet
  <2> QED
    BY <2>1, <2>2
<1> HIDE DEF u
<1>9. Quiet(k0, u, p)
  BY <1>4, <1>8 DEF Quiet
<1>10. ASSUME s # r, Interested(k0, s, p), Interested(k0, r, p)
       PROVE  /\ u.list[s].sem_value = k0.list[s].sem_value - n
              /\ u.list[r].sem_value = k0.list[r].sem_value + n
  <2>1. Interested(t, r, p)
    BY <1>1, <1>4, <1>10 DEF Quiet, Interested
  <2>2. t.list[s].sem_value = k0.list[s].sem_value - n /\ t.list[r] = k0.list[r]
    BY <1>1, <1>4, <1>10 DEF Turns, Puts
  <2>3. u.list[r].sem_value = t.list[r].sem_value + n /\ u.list[s] = t.list[s]
    BY <1>1, <1>8, <1>10, <2>1 DEF Turns, Puts
  <2> QED
    BY <2>2, <2>3
<1> QED
  BY <1>6, <1>7, <1>9, <1>10 DEF Permitted

(* Whatever is in it, a pipe stays one.                                    *)
LEMMA BytesTyped ==
  ASSUME NEW pipe \in PipeRecord, NEW kind, NEW n \in Nat,
         NEW m, m = MoveBytes(pipe, kind, n)
  PROVE  m \in PipeRecord /\ SamePipe(m, pipe)
<1> DEFINE S == PIPE_SIZE
           B == BYTES
<1>1. /\ pipe.read_pos \in Nat /\ pipe.write_pos \in Nat /\ pipe.amount \in Nat
      /\ pipe.stored \in Nat /\ pipe.taken \in Nat
      /\ S \in Nat /\ S > 0 /\ WORD \in Nat /\ WORD > 0 /\ B \in Nat /\ B > 0
      /\ pipe.pipe \in [PLACES -> 0..B - 1] /\ PLACES = 0..S - 1
  BY PipeFields DEF PLACES
<1>2. \A z \in Nat \ {0} : \A a \in Int : a % z \in 0..z - 1 /\ a \div z \in Int
  OBVIOUS
<1>3. \A a, b \in Int : a * b \in Int /\ a + b \in Int /\ a - b \in Int
  OBVIOUS
<1>4. CASE kind = "read"
  <2> DEFINE r2 == (pipe.read_pos + n) % S
             a2 == (pipe.amount - n + WORD) % WORD
             t2 == (pipe.taken + n) % B
  <2>1. m = [pipe EXCEPT !.read_pos = r2, !.amount = a2, !.taken = t2]
    BY <1>4 DEF MoveBytes
  <2>2. r2 \in PLACES /\ a2 \in 0..WORD - 1 /\ t2 \in 0..B - 1
    <3> HIDE DEF S, B
    <3>1. pipe.read_pos + n \in Int /\ pipe.amount - n + WORD \in Int /\ pipe.taken + n \in Int
      BY <1>1
    <3>2. S \in Nat \ {0} /\ WORD \in Nat \ {0} /\ B \in Nat \ {0}
      BY <1>1
    <3>3. r2 \in 0..S - 1
      BY <1>2, <3>1, <3>2
    <3>4. a2 \in 0..WORD - 1
      BY <1>2, <3>1, <3>2
    <3>5. t2 \in 0..B - 1
      BY <1>2, <3>1, <3>2
    <3> QED
      BY <1>1, <3>3, <3>4, <3>5
  <2> HIDE DEF r2, a2, t2
  <2> QED
    BY <2>1, <2>2 DEF PipeRecord, SamePipe
<1>5. CASE kind # "read"
  <2> DEFINE w2 == (pipe.write_pos + n) % S
             a2 == (pipe.amount + n) % WORD
             s2 == (pipe.stored + n) % B
             f == [x \in PLACES |->
                     LET i == (x - pipe.write_pos + S) % S
                         last == i + S * ((n - 1 - i) \div S)
                     IN  IF i < n THEN (pipe.stored + last) % B ELSE pipe.pipe[x]]
  <2>1. m = [pipe EXCEPT !.write_pos = w2, !.amount = a2, !.stored = s2, !.pipe = f]
    BY <1>5 DEF MoveBytes
  <2>2. w2 \in PLACES /\ a2 \in 0..WORD - 1 /\ s2 \in 0..B - 1
    <3> HIDE DEF S, B
    <3>1. pipe.write_pos + n \in Int /\ pipe.amount + n \in Int /\ pipe.stored + n \in Int
      BY <1>1
    <3>2. S \in Nat \ {0} /\ WORD \in Nat \ {0} /\ B \in Nat \ {0}
      BY <1>1
    <3> QED
      BY <1>1, <1>2, <3>1, <3>2
  <2>3. f \in [PLACES -> 0..B - 1]
    <3>1. ASSUME NEW x \in PLACES
          PROVE  LET i == (x - pipe.write_pos + S) % S
                     last == i + S * ((n - 1 - i) \div S)
                 IN  (IF i < n THEN (pipe.stored + last) % B ELSE pipe.pipe[x]) \in 0..B - 1
      <4> DEFINE i == (x - pipe.write_pos + S) % S
                 d == (n - 1 - i) \div S
                 last == i + S * d
      <4>1. pipe.pipe[x] \in 0..B - 1
        BY <1>1
      <4>2. x \in Int
        BY DEF PLACES
      <4> HIDE DEF S, B
      <4>3. S \in Nat \ {0} /\ B \in Nat \ {0}
        BY <1>1
      <4>4. x - pipe.write_pos + S \in Int
        BY <1>1, <4>2
      <4>5. i \in Int
        BY <1>2, <4>3, <4>4
      <4> HIDE DEF i
      <4>6. d \in Int
        <5>1. n - 1 - i \in Int
          BY <4>5
        <5> QED
          BY <1>2, <4>3, <5>1
      <4> HIDE DEF d
      <4>7. last \in Int
        <5>1. S * d \in Int
          BY <1>1, <1>3, <4>6
        <5> QED
          BY <4>5, <5>1
      <4> HIDE DEF last
      <4>8. (pipe.stored + last) % B \in 0..B - 1
        <5>1. pipe.stored + last \in Int
          BY <1>1, <4>7
        <5> QED
          BY <1>2, <4>3, <5>1
      <4> QED
        BY <4>1, <4>8 DEF i, last, d
    <3> HIDE DEF S, B
    <3> QED
      BY <3>1
  <2> HIDE DEF w2, a2, s2, f
  <2> QED
    BY <2>1, <2>2, <2>3 DEF PipeRecord, SamePipe
<1> QED
  BY <1>4, <1>5

-----------------------------------------------------------------------------
(* A process inside its read or write.                                     *)

(* p uses pipe i, the only one it knows.                                   *)
Uses(k, U, L, h, P, i, p) ==
    /\ KInv(k, U, L, h, P) /\ i \in SLOTS /\ p \in U[i] /\ p # 0 /\ P[p] \subseteq {i}

InCall(c, i) ==
    /\ c \in Calls /\ c.kind \in {"read", "write"} /\ c.pos = i /\ c.left # 0 /\ c.syscall = TRUE

LEMMA UsedFields ==
  ASSUME NEW k, NEW U, NEW L, NEW h, NEW P, NEW i, NEW p, Uses(k, U, L, h, P, i, p),
         NEW c, c.pos = i, c.kind \in {"read", "write"}
  PROVE  /\ k \in KernelStates /\ k.sems \in SemTables /\ i \in SLOTS /\ p \in Procs
         /\ Pipe(k, i) \in PipeRecord /\ Pipe(k, i).claimed
         /\ WaitSem(k, c) \in SEMS /\ PostsTo(k, c) \in SEMS
         /\ Pipe(k, i).read_sem \in SEMS /\ Pipe(k, i).write_sem \in SEMS
         /\ i = h \/ L[i] = 0 =>
               /\ Holds(k, i, U[i], L[i], P)
               /\ WaitSem(k, c) # PostsTo(k, c)
               /\ Interested(k.sems, WaitSem(k, c), p) /\ Interested(k.sems, PostsTo(k, c), p)
<1>1. KInv(k, U, L, h, P) /\ i \in SLOTS /\ p \in U[i]
  BY DEF Uses
<1>2. /\ k \in KernelStates /\ k.sems \in SemTables /\ Pipe(k, i) \in PipeRecord
      /\ Pipe(k, i).read_sem \in SEMS /\ Pipe(k, i).write_sem \in SEMS
      /\ U[i] \in SUBSET Procs
  BY <1>1, OpenIsNamed
<1>3. OnePipe(k, i, U[i], L[i], h, P)
  BY <1>1 DEF KInv
<1>4. Pipe(k, i).claimed
  BY <1>1, <1>3 DEF OnePipe, Counted
<1>5. ASSUME i = h \/ L[i] = 0
      PROVE  /\ Holds(k, i, U[i], L[i], P)
             /\ WaitSem(k, c) # PostsTo(k, c)
             /\ Interested(k.sems, WaitSem(k, c), p) /\ Interested(k.sems, PostsTo(k, c), p)
  <2>1. Holds(k, i, U[i], L[i], P)
    BY <1>3, <1>4, <1>5 DEF OnePipe
  <2>2. Pipe(k, i).read_sem # Pipe(k, i).write_sem
    BY <2>1, NamesApart DEF Holds, Kept
  <2>3. /\ p \in k.sems.list[Pipe(k, i).read_sem].interested
        /\ p \in k.sems.list[Pipe(k, i).write_sem].interested
    BY <1>1, <2>1 DEF Holds, Kept, Rights
  <2> QED
    BY <2>1, <2>2, <2>3 DEF WaitSem, PostsTo, Interested
<1> QED
  BY <1>1, <1>2, <1>4, <1>5 DEF WaitSem, PostsTo

(* A step that leaves names, rights and counts alone.                      *)
LEMMA QuietKeeps ==
  ASSUME NEW k, NEW U, NEW L, NEW h, NEW P, NEW i, NEW p, Uses(k, U, L, h, P, i, p),
         NEW m \in KernelStates, Quiet(k.sems, m.sems, p), m.active_pipes = k.active_pipes,
         \A j \in SLOTS \ {i} : Pipe(m, j) = Pipe(k, j), SamePipe(Pipe(m, i), Pipe(k, i)),
         i = h \/ L[i] = 0 => Kept(m, i)
  PROVE  KInv(m, U, L, h, P) /\ Claimed(m) = Claimed(k)
<1>1. KInv(k, U, L, h, P) /\ i \in SLOTS /\ p \in U[i] /\ p # 0 /\ P[p] \subseteq {i}
  BY DEF Uses
<1>2. /\ U \in UserSets /\ L \in Losses /\ h \in SLOTS \cup {NO_PIPE}
      /\ (h # NO_PIPE => Pipe(k, h).claimed /\ 0 \in U[h]) /\ Tidy(k)
      /\ OnePipe(k, i, U[i], L[i], h, P)
  BY <1>1 DEF KInv
<1>3. \A j \in SLOTS : Pipe(m, j).claimed = Pipe(k, j).claimed
  BY DEF SamePipe
<1>4. Claimed(m) = Claimed(k)
  BY <1>3 DEF Claimed
<1>5. Tidy(m)
  BY <1>2, <1>4, QuietTable DEF Tidy
<1>6. Local(k, m, p, i)
  BY <1>1 DEF Local, Quiet, SameSem
<1>7. OnePipe(m, i, U[i], L[i], h, P)
  <2>1. Counted(m, i, U[i], L[i])
    BY <1>2 DEF OnePipe, Counted, SamePipe
  <2>2. ASSUME Pipe(m, i).claimed, i = h \/ L[i] = 0 PROVE Holds(m, i, U[i], L[i], P)
    <3>1. Holds(k, i, U[i], L[i], P) /\ Kept(m, i)
      BY <1>1, <1>2, <1>3, <2>2 DEF OnePipe
    <3>2. Pipe(k, i).read_sem \in SEMS
      BY <1>1, OpenIsNamed
    <3>3. Rights(m, i) = Rights(k, i)
      BY <3>2 DEF Rights, Quiet, SamePipe
    <3> QED
      BY <3>1, <3>3 DEF Holds
  <2> QED
    BY <2>1, <2>2 DEF OnePipe
<1>8. h # NO_PIPE => Pipe(m, h).claimed /\ 0 \in U[h]
  <2>1. h # NO_PIPE => h \in SLOTS
    BY <1>2
  <2> QED
    BY <1>2, <1>3, <2>1
<1>9. KInv(m, U, L, h, P)
  BY ONLY <1>1, <1>2, <1>5, <1>6, <1>7, <1>8, m \in KernelStates, LooksAtOne
<1> QED
  BY <1>4, <1>9

LEMMA UserMoves ==
  ASSUME NEW k, NEW U, NEW L, NEW h, NEW P, NEW i, NEW p, Uses(k, U, L, h, P, i, p),
         NEW c, c.pos = i, c.kind \in {"read", "write"}, NEW n \in Nat,
         i = h \/ L[i] = 0 => n <= k.sems.list[WaitSem(k, c)].sem_value,
         NEW m, m = Move(k, p, c, n)
  PROVE  KInv(m, U, L, h, P) /\ Claimed(m) = Claimed(k)
<1> DEFINE pipe == Pipe(k, i)
           x == pipe.read_sem
           y == pipe.write_sem
           s == WaitSem(k, c)
           r == PostsTo(k, c)
           e == MoveBytes(pipe, c.kind, n)
<1>1. /\ k \in KernelStates /\ k.sems \in SemTables /\ i \in SLOTS /\ p \in Procs
      /\ pipe \in PipeRecord /\ s \in SEMS /\ r \in SEMS /\ x \in SEMS /\ y \in SEMS
      /\ i = h \/ L[i] = 0 => Holds(k, i, U[i], L[i], P) /\ s # r
                              /\ Interested(k.sems, s, p) /\ Interested(k.sems, r, p)
  BY UsedFields
<1>2. PICK u, A : Permitted(k, p, c, n, MovePermits(k, p, c, n), u, A)
  <2>1. k \in KernelStates /\ p \in Procs /\ s \in SEMS /\ r \in SEMS
    BY <1>1
  <2> QED
    BY <2>1, QuietPermits
<1>9. /\ MovePermits(k, p, c, n) = [k EXCEPT !.sems = u, !.asleep = A]
      /\ A \subseteq Procs /\ Quiet(k.sems, u, p)
      /\ (s # r /\ Interested(k.sems, s, p) /\ Interested(k.sems, r, p)) =>
            /\ u.list[s].sem_value = k.sems.list[s].sem_value - n
            /\ u.list[r].sem_value = k.sems.list[r].sem_value + n
  BY <1>2 DEF Permitted
<1>3. m = [[k EXCEPT !.sems = u, !.asleep = A] EXCEPT !.pipeList[i] = e]
  <2>1. m = [[k EXCEPT !.sems = u, !.asleep = A] EXCEPT !.pipeList[i] = MoveBytes(@, c.kind, n)]
    BY <1>9 DEF Move
  <2>2. [k EXCEPT !.sems = u, !.asleep = A].pipeList[i] = pipe
    BY <1>1 DEF KernelStates, Pipe
  <2> HIDE DEF pipe
  <2> QED
    BY <2>1, <2>2
<1>4. e \in PipeRecord /\ SamePipe(e, pipe)
  <2> HIDE DEF pipe
  <2> QED
    BY <1>1, BytesTyped
<1> HIDE DEF e
<1>5. u \in SemTables
  BY <1>9 DEF Quiet
<1>6. /\ m \in KernelStates /\ m.sems = u /\ m.active_pipes = k.active_pipes
      /\ Pipe(m, i) = e /\ \A j \in SLOTS \ {i} : Pipe(m, j) = Pipe(k, j)
  <2>1. m = With(k, i, e, k.active_pipes, u, A)
    BY <1>1, <1>3 DEF KernelStates, With
  <2> QED
    BY <1>1, <1>9, <1>4, <1>5, <2>1, KernelFields, KernelWith
<1>7. ASSUME i = h \/ L[i] = 0 PROVE Kept(m, i)
  <2>1. /\ InOrder(pipe) /\ k.sems.list[x].sem_value = pipe.amount
        /\ k.sems.list[y].sem_value = PIPE_SIZE - pipe.amount
        /\ k.sems.list[x].name = SemName("semread", i)
        /\ k.sems.list[y].name = SemName("semwrite", i)
        /\ k.sems.list[y].interested = k.sems.list[x].interested
    BY <1>1, <1>7 DEF Holds, Kept
  <2>2. /\ u.list[s].sem_value = k.sems.list[s].sem_value - n
        /\ u.list[r].sem_value = k.sems.list[r].sem_value + n
        /\ n <= k.sems.list[s].sem_value
    BY <1>1, <1>9, <1>7
  <2>3. InOrder(e) /\ u.list[x].sem_value = e.amount /\ u.list[y].sem_value = PIPE_SIZE - e.amount
    <3>1. pipe.amount \in Nat /\ PIPE_SIZE \in Nat
      BY <1>1, PipeFields
    <3>2. CASE c.kind = "read"
      <4>1. s = x /\ r = y
        BY <3>2 DEF WaitSem, PostsTo
      <4>2. n <= pipe.amount
        BY <2>1, <2>2, <4>1
      <4>3. InOrder(e) /\ e.amount = pipe.amount - n
        <5>1. e = MoveBytes(pipe, "read", n)
          BY <3>2 DEF e
        <5> HIDE DEF pipe
        <5> QED
          BY <1>1, <2>1, <4>2, <5>1, BytesRead
      <4> HIDE DEF s, r, x, y, pipe
      <4> QED
        BY <2>1, <2>2, <3>1, <4>1, <4>3
    <3>3. CASE c.kind = "write"
      <4>1. s = y /\ r = x
        BY <3>3 DEF WaitSem, PostsTo
      <4>2. n <= PIPE_SIZE - pipe.amount
        BY <2>1, <2>2, <4>1
      <4>3. InOrder(e) /\ e.amount = pipe.amount + n
        <5>1. e = MoveBytes(pipe, "write", n)
          BY <3>3 DEF e
        <5> HIDE DEF pipe
        <5> QED
          BY <1>1, <2>1, <4>2, <5>1, BytesWritten
      <4> HIDE DEF s, r, x, y, pipe
      <4> QED
        BY <2>1, <2>2, <3>1, <4>1, <4>3
    <3> QED
      BY <3>2, <3>3
  <2>4. /\ u.list[x].name = SemName("semread", i) /\ u.list[y].name = SemName("semwrite", i)
        /\ u.list[y].interested = u.list[x].interested
    BY <1>1, <1>9, <2>1 DEF Quiet
  <2>5. Pipe(m, i).read_sem = x /\ Pipe(m, i).write_sem = y
    BY <1>4, <1>6 DEF SamePipe
  <2>6. InOrder(Pipe(m, i)) /\ m.sems.list = u.list /\ Pipe(m, i).amount = e.amount
    BY <1>6, <2>3
  <2> HIDE DEF x, y
  <2> QED
    BY <2>3, <2>4, <2>5, <2>6 DEF Kept
<1>8. /\ Quiet(k.sems, m.sems, p) /\ SamePipe(Pipe(m, i), Pipe(k, i))
  BY <1>9, <1>4, <1>6
<1> QED
  BY <1>6, <1>7, <1>8, QuietKeeps

LEMMA UserSleeps ==
  ASSUME NEW k, NEW U, NEW L, NEW h, NEW P, NEW i, NEW p, Uses(k, U, L, h, P, i, p),
         NEW c, c.pos = i, c.kind \in {"read", "write"}, NEW m, m = Sleep(k, p, c)
  PROVE  KInv(m, U, L, h, P) /\ Claimed(m) = Claimed(k)
<1> DEFINE s == WaitSem(k, c)
           u == EnqueueSem(k.sems, s, p)
           A == k.asleep \cup {p}
           x == Pipe(k, i).read_sem
           y == Pipe(k, i).write_sem
<1>1. /\ k \in KernelStates /\ k.sems \in SemTables /\ i \in SLOTS /\ p \in Procs /\ s \in SEMS
      /\ Pipe(k, i).read_sem \in SEMS /\ Pipe(k, i).write_sem \in SEMS
      /\ i = h \/ L[i] = 0 => Holds(k, i, U[i], L[i], P)
  BY UsedFields
<1>2. Turns(k.sems, u, s, k.sems.list[s].sem_value)
  BY <1>1, Enqueues
<1>3. m = [k EXCEPT !.sems = u, !.asleep = A]
  BY DEF Sleep
<1>4. u \in SemTables /\ A \in SUBSET Procs
  BY <1>1, <1>2 DEF Turns, Puts, KernelStates
<1> HIDE DEF u, A
<1>5. Quiet(k.sems, u, p)
  <2> HIDE DEF s
  <2> QED
    BY <1>1, <1>2, QuietTurn
<1>6. /\ m \in KernelStates /\ m.sems = u /\ m.active_pipes = k.active_pipes
      /\ m.pipeList = k.pipeList
  BY <1>1, <1>3, <1>4 DEF KernelStates
<1>7. \A j \in SLOTS : Pipe(m, j) = Pipe(k, j)
  BY <1>6 DEF Pipe
<1>8. \A z \in SEMS : /\ u.list[z].name = k.sems.list[z].name
                      /\ u.list[z].interested = k.sems.list[z].interested
                      /\ u.list[z].sem_value = k.sems.list[z].sem_value
  BY <1>1, <1>2 DEF Turns, Puts
<1>9. ASSUME i = h \/ L[i] = 0 PROVE Kept(m, i)
  <2>1. Kept(k, i)
    BY <1>1, <1>9 DEF Holds
  <2>2. Pipe(m, i) = Pipe(k, i) /\ m.sems = u
    BY <1>1, <1>6, <1>7
  <2>3. /\ u.list[x].name = k.sems.list[x].name /\ u.list[y].name = k.sems.list[y].name
        /\ u.list[x].interested = k.sems.list[x].interested
        /\ u.list[y].interested = k.sems.list[y].interested
        /\ u.list[x].sem_value = k.sems.list[x].sem_value
        /\ u.list[y].sem_value = k.sems.list[y].sem_value
    BY <1>1, <1>8
  <2> QED
    BY <2>1, <2>2, <2>3 DEF Kept
<1>10. SamePipe(Pipe(m, i), Pipe(k, i)) /\ Quiet(k.sems, m.sems, p)
  BY <1>1, <1>5, <1>6, <1>7 DEF SamePipe
<1> QED
  BY <1>6, <1>7, <1>9, <1>10, QuietKeeps

LEMMA MaxOfTwo ==
  ASSUME NEW v \in Int
  PROVE  Max({0, v}) \in Nat /\ (v \in Nat => Max({0, v}) = v)
<1>1. \E x \in {0, v} : \A y \in {0, v} : x >= y
  OBVIOUS
<1>2. Max({0, v}) \in {0, v} /\ \A y \in {0, v} : Max({0, v}) >= y
  BY <1>1 DEF Max
<1> PICK z : z = Max({0, v})
  OBVIOUS
<1>3. z \in {0, v} /\ z >= 0 /\ z >= v
  BY <1>2
<1>4. z \in Nat /\ (v \in Nat => z = v)
  BY <1>3
<1> QED
  BY <1>4

(* Who has a semaphore to wait for finds as many permits as it counts.     *)
LEMMA UserPermits ==
  ASSUME NEW k, NEW U, NEW L, NEW h, NEW P, NEW i, NEW p, Uses(k, U, L, h, P, i, p),
         NEW c, InCall(c, i)
  PROVE  /\ WaitSem(k, c) \in SEMS /\ Permits(k, p, c) \in Nat
         /\ i = h \/ L[i] = 0 => Permits(k, p, c) = k.sems.list[WaitSem(k, c)].sem_value
<1> DEFINE s == WaitSem(k, c)
           v == k.sems.list[s].sem_value
<1>1. c.pos = i /\ c.kind \in {"read", "write"} /\ c.left \in Nat
  BY DEF InCall, Calls
<1>2. /\ k.sems \in SemTables /\ Pipe(k, i) \in PipeRecord /\ s \in SEMS
      /\ i = h \/ L[i] = 0 => Holds(k, i, U[i], L[i], P) /\ Interested(k.sems, s, p)
  BY <1>1, UsedFields
<1>3. v \in Int
  BY <1>2, TableOfSems, SemFields
<1>4. ASSUME i = h \/ L[i] = 0 PROVE v \in Nat
  <2>1. /\ InOrder(Pipe(k, i)) /\ k.sems.list[Pipe(k, i).read_sem].sem_value = Pipe(k, i).amount
        /\ k.sems.list[Pipe(k, i).write_sem].sem_value = PIPE_SIZE - Pipe(k, i).amount
    BY <1>2, <1>4 DEF Holds, Kept
  <2>2. Pipe(k, i).amount \in Nat /\ PIPE_SIZE - Pipe(k, i).amount \in Nat
    BY <1>2, <2>1, PipeFields DEF InOrder
  <2> QED
    BY <1>1, <2>1, <2>2 DEF WaitSem
<1>5. Permits(k, p, c) = IF Interested(k.sems, s, p) THEN Max({0, v}) ELSE c.left
  BY DEF Permits
<1>6. s \in SEMS
  BY <1>2
<1> HIDE DEF v, s
<1>7. Max({0, v}) \in Nat /\ (v \in Nat => Max({0, v}) = v)
  BY <1>3, MaxOfTwo
<1>8. Permits(k, p, c) \in Nat
  BY <1>1, <1>5, <1>7
<1>9. i = h \/ L[i] = 0 => Permits(k, p, c) = v
  BY <1>2, <1>4, <1>5, <1>7
<1> QED
  BY <1>6, <1>8, <1>9 DEF v, s

LEMMA UserMovesFit ==
  ASSUME NEW k, NEW U, NEW L, NEW h, NEW P, NEW i, NEW p, Uses(k, U, L, h, P, i, p),
         NEW c, InCall(c, i), NEW owed \in {0, 1}, owed = 1 => Permits(k, p, c) # 0,
         NEW n, n = Moves(k, p, c, owed)
  PROVE  n \in Nat /\ n <= c.left /\ n <= Permits(k, p, c)
<1> DEFINE v == Permits(k, p, c)
           T == {c.left, v} \cup IF c.kind = "read" /\ Pipe(k, i).eof THEN {Pipe(k, i).amount} ELSE {}
           some == Min(T)
<1>1. v \in Nat /\ c.left \in Nat /\ c.left > 0 /\ c.pos = i
  <2>1. v \in Nat
    BY UserPermits
  <2>2. c.left \in Nat /\ c.left > 0 /\ c.pos = i
    BY DEF InCall, Calls
  <2> QED
    BY <2>1, <2>2
<1>2. some \in Nat /\ some <= c.left /\ some <= v
  <2>1. Pipe(k, i).amount \in Nat
    <3>1. Pipe(k, i) \in PipeRecord
      BY UsedFields DEF InCall
    <3> QED
      BY <3>1, PipeFields
  <2> HIDE DEF v
  <2>2. T \subseteq Nat /\ T # {} /\ c.left \in T /\ v \in T
    BY <1>1, <2>1
  <2> HIDE DEF T
  <2>3. Min(T) \in T /\ \A y \in T : Min(T) <= y
    BY <2>2, MinOfNaturals
  <2> QED
    BY <2>2, <2>3
<1>3. n = Max({owed, some})
  BY <1>1 DEF Moves
<1>4. owed = 1 => v # 0
  OBVIOUS
<1> HIDE DEF v, some
<1>5. owed \in Nat /\ owed <= c.left /\ owed <= v
  BY <1>1, <1>4
<1>6. n \in {owed, some}
  <2>1. {owed, some} \subseteq 0..c.left /\ {owed, some} # {}
    BY <1>1, <1>2, <1>5
  <2> QED
    BY <1>1, <1>3, <2>1, MaxOfNaturals
<1> QED
  BY <1>2, <1>5, <1>6 DEF v

(* A transfer goes on until it sleeps, or ends and closes the pipe.        *)
Transferred(r, C, U, L, h, P, i, p) ==
    /\ Claimed(r.kernel) \subseteq C
    /\ \/ InCall(r.call, i) /\ KInv(r.kernel, U, L, h, P)
       \/ r.call = NoCall /\ KInv(r.kernel, Left(U, i, p), L, h, P)

LEMMA UserAdvances ==
  ASSUME NEW k, NEW U, NEW L, NEW h, NEW P, NEW i, NEW p, Uses(k, U, L, h, P, i, p),
         NEW c, InCall(c, i), NEW owed \in {0, 1}, owed = 1 => Permits(k, p, c) # 0,
         NEW r, r = Advance(k, p, c, owed)
  PROVE  Transferred(r, Claimed(k), U, L, h, P, i, p)
<1> DEFINE n == Moves(k, p, c, owed)
           moved == Move(k, p, c, n)
           rest == [c EXCEPT !.left = c.left - n]
           done == rest.left = 0 \/ (c.kind = "read" /\ AtEof(Pipe(moved, i)))
<1>1. c.kind \in {"read", "write"} /\ c.pos = i /\ c.left \in Nat \ {0} /\ c.syscall = TRUE
  BY DEF InCall, Calls
<1>2. n \in Nat /\ n <= c.left /\ (i = h \/ L[i] = 0 => n <= k.sems.list[WaitSem(k, c)].sem_value)
  <2>1. n \in Nat /\ n <= c.left /\ n <= Permits(k, p, c)
    BY UserMovesFit
  <2>2. i = h \/ L[i] = 0 => Permits(k, p, c) = k.sems.list[WaitSem(k, c)].sem_value
    BY UserPermits
  <2> QED
    BY <2>1, <2>2
<1> HIDE DEF n
<1>3. KInv(moved, U, L, h, P) /\ Claimed(moved) = Claimed(k)
  BY <1>1, <1>2, UserMoves
<1>4. Uses(moved, U, L, h, P, i, p)
  BY <1>3 DEF Uses
<1> HIDE DEF moved
<1>5. rest = Transfer(c.kind, i, c.left - n, TRUE) /\ c.left - n \in Nat
  <2>1. c.left - n \in Nat
    BY <1>1, <1>2
  <2>2. PICK a, b, d, s, l : /\ c = [kind |-> a, pos |-> b, left |-> d, syscall |-> s]
                            /\ l = c.left - n
    BY DEF InCall, Calls
  <2>3. [c EXCEPT !.left = l] = [kind |-> a, pos |-> b, left |-> l, syscall |-> s]
    BY <2>2
  <2>4. c.kind = a /\ b = i /\ s = TRUE
    BY <1>1, <2>2
  <2> QED
    BY <2>1, <2>2, <2>3, <2>4 DEF Transfer
<1>6. CASE ~done
  <2>1. r = [kernel |-> Sleep(moved, p, c), call |-> rest]
    BY <1>1, <1>6 DEF Advance, n, moved
  <2>2. r.kernel = Sleep(moved, p, c) /\ r.call = rest
    BY <2>1
  <2>3. KInv(r.kernel, U, L, h, P) /\ Claimed(r.kernel) = Claimed(moved)
    BY <1>1, <1>4, <2>2, UserSleeps
  <2>4. InCall(r.call, i)
    <3>1. rest.left # 0 /\ i \in SLOTS
      BY <1>4, <1>6 DEF Uses
    <3> HIDE DEF rest
    <3> QED
      BY <1>1, <1>5, <2>2, <3>1 DEF InCall, Transfer, Calls
  <2> QED
    BY <1>3, <2>3, <2>4 DEF Transferred
<1>7. CASE done
  <2>1. r = [kernel |-> ClosePipe(moved, p, i), call |-> NoCall]
    BY <1>1, <1>7 DEF Advance, n, moved
  <2>2. r.kernel = ClosePipe(moved, p, i) /\ r.call = NoCall
    BY <2>1
  <2>3. i \in SLOTS /\ p \in U[i] /\ p # 0 /\ P[p] \subseteq {i}
    BY <1>4 DEF Uses
  <2>4. KInv(r.kernel, Left(U, i, p), L, h, P) /\ Claimed(r.kernel) \subseteq Claimed(moved)
    <3>1. p = 0 => i = h /\ h = NO_PIPE
      BY <2>3
    <3> QED
      BY <1>3, <2>2, <2>3, <3>1, UserCloses
  <2> QED
    BY <1>3, <2>2, <2>4 DEF Transferred
<1> QED
  BY <1>6, <1>7

LEMMA UserGoesOn ==
  ASSUME NEW k, NEW U, NEW L, NEW h, NEW P, NEW i, NEW p, Uses(k, U, L, h, P, i, p),
         NEW c, InCall(c, i), NEW r, r = GoOn(k, p, c)
  PROVE  Transferred(r, Claimed(k), U, L, h, P, i, p)
<1>1. CASE Permits(k, p, c) = 0
  <2>1. r = [kernel |-> Sleep(k, p, c), call |-> c]
    BY <1>1 DEF GoOn
  <2>2. r.kernel = Sleep(k, p, c) /\ r.call = c
    BY <2>1
  <2>3. KInv(r.kernel, U, L, h, P) /\ Claimed(r.kernel) = Claimed(k)
    BY <2>2, UserSleeps DEF InCall
  <2> QED
    BY <2>2, <2>3 DEF Transferred
<1>2. CASE Permits(k, p, c) # 0
  <2>1. r = Advance(k, p, c, 1)
    BY <1>2 DEF GoOn
  <2> PICK owed \in {0, 1} : owed = 1
    OBVIOUS
  <2> QED
    BY <1>2, <2>1, UserAdvances
<1> QED
  BY <1>1, <1>2

-----------------------------------------------------------------------------
(* The shell makes a pipe, and a user is killed half way.                  *)

(* open_pipe(0) by the shell claims one pipe more, if there is one.        *)
LEMMA ClaimsOne ==
  ASSUME NEW k \in KernelStates, CanCreatePipe(k), NEW p, NEW m, m = CreatePipe(k, p),
         NEW a, a = NewSlot(k)
  PROVE  a \in SLOTS /\ ~Pipe(k, a).claimed /\ Claimed(m) = Claimed(k) \cup {a}
<1> DEFINE new == NewSems(k, p)
           made == [FreePipe EXCEPT !.claimed = TRUE, !.read_sem = new.read,
                                    !.write_sem = new.write, !.interested = 1]
           same == [Pipe(k, a) EXCEPT !.claimed = TRUE]
<1>1. k.pipeList \in [SLOTS -> PipeRecord]
  BY KernelFields
<1>2. a \in SLOTS /\ ~Pipe(k, a).claimed
  <2>1. SLOTS \ Claimed(k) # {} /\ SLOTS \ Claimed(k) \subseteq Nat
    BY DEF CanCreatePipe, Claimed, SLOTS
  <2>2. a \in SLOTS \ Claimed(k)
    BY <2>1, MinOfNaturals DEF NewSlot
  <2> QED
    BY <2>2 DEF Claimed
<1>3. made.claimed /\ same.claimed
  <2>1. same.claimed
    <3>1. Pipe(k, a) \in PipeRecord
      BY <1>1, <1>2 DEF Pipe
    <3> QED
      BY <3>1 DEF PipeRecord
  <2>2. made.claimed
    BY DEF FreePipe
  <2> QED
    BY <2>1, <2>2
<1>4. \E e : e.claimed /\ m.pipeList = [k.pipeList EXCEPT ![a] = e]
  <2>1. CASE new.write = NO_SEM \/ new.read = NO_SEM
    <3>1. m = [k EXCEPT !.pipeList[a].claimed = TRUE, !.sems = new.table]
      BY <2>1 DEF CreatePipe
    <3>2. m.pipeList = [k.pipeList EXCEPT ![a] = same]
      BY <3>1 DEF KernelStates, Pipe
    <3> QED
      BY <1>3, <3>2
  <2>2. CASE ~(new.write = NO_SEM \/ new.read = NO_SEM)
    <3>1. m = [k EXCEPT !.pipeList[a] = made, !.sems = new.table,
                        !.active_pipes = k.active_pipes + 1]
      BY <2>2 DEF CreatePipe
    <3> HIDE DEF made, new
    <3>2. m.pipeList = [k.pipeList EXCEPT ![a] = made]
      BY <3>1 DEF KernelStates
    <3> QED
      BY <1>3, <3>2
  <2> QED
    BY <2>1, <2>2
<1>5. \A j \in SLOTS : Pipe(m, j).claimed <=> Pipe(k, j).claimed \/ j = a
  <2>1. PICK e : e.claimed /\ m.pipeList = [k.pipeList EXCEPT ![a] = e]
    BY <1>4
  <2>2. m.pipeList[a] = e /\ \A j \in SLOTS \ {a} : m.pipeList[j] = k.pipeList[j]
    BY <1>1, <1>2, <2>1
  <2> QED
    BY <1>2, <2>1, <2>2 DEF Pipe
<1>6. Claimed(m) = Claimed(k) \cup {a}
  BY <1>2, <1>5 DEF Claimed
<1> QED
  BY <1>2, <1>6

LEMMA ShellCreates ==
  ASSUME NEW k, NEW U, NEW L, NEW P, KInv(k, U, L, NO_PIPE, P),
         NEW m, m = CreatePipe(k, 0), NEW i, i = CreatedPipe(k, 0), Room(Claimed(m))
  PROVE  \/ i = NO_PIPE /\ m = k
         \/ i \in SLOTS /\ U[i] = {} /\ KInv(m, Joined(U, i, 0), L, i, P)
<1>1. CASE ~CanCreatePipe(k)
  BY <1>1 DEF CreatePipe, CreatedPipe
<1>2. CASE CanCreatePipe(k)
  <2> DEFINE a == NewSlot(k)
             new == NewSems(k, 0)
             t == WriteSemOpened(k, 0)
             w == new.table
             x == new.read
             y == new.write
             nr == SemName("semread", a)
             nw == SemName("semwrite", a)
             C == Claimed(k) \cup {a}
             l == L[a]
  <2>1. /\ k \in KernelStates /\ k.sems \in SemTables /\ Claimed(k) \in SUBSET SLOTS
        /\ \A s \in SEMS : k.sems.list[s].interested = {} => k.sems.list[s].name = NO_NAME
        /\ \A j \in SLOTS : U[j] \in SUBSET Procs /\ L[j] \in Nat
    BY OpenIsNamed
  <2>2. /\ a \in SLOTS /\ ~Pipe(k, a).claimed /\ Claimed(m) = C
    BY <1>2, <2>1, ClaimsOne
  <2>3. /\ Tidy(k) /\ U \in UserSets /\ L \in Losses /\ P \in Places /\ P[0] = SLOTS
        /\ OnePipe(k, a, U[a], l, NO_PIPE, P)
    BY <2>2 DEF KInv
  <2>4. U[a] = {} /\ l = 0
    BY <2>2, <2>3 DEF OnePipe, Counted
  <2>5. C \in SUBSET SLOTS /\ a \in C /\ Room(C) /\ TableOK(k.sems, C) /\ 0 \in Procs
    BY <2>1, <2>2, <2>3, OtherPipes, ShellAssumption DEF Tidy
  <2>6. \A s \in SEMS : ~IsNameOf(k.sems.list[s].name, a)
    <3>1. ASSUME NEW s \in SEMS, IsNameOf(k.sems.list[s].name, a) PROVE FALSE
      <4>1. s \in OpenSems(k.sems)
        BY <2>1, <3>1, NamesApart DEF OpenSems, IsNameOf
      <4>2. PICK j \in Claimed(k) : IsNameOf(k.sems.list[s].name, j)
        BY <2>3, <4>1 DEF Tidy, TableOK
      <4>3. j = a
        BY <3>1, <4>2, NamesApart DEF IsNameOf
      <4> QED
        BY <2>2, <4>2, <4>3 DEF Claimed
    <3> QED
      BY <3>1
  <2>7. /\ t = OpenSem(k.sems, 0, nw, PIPE_SIZE) /\ y = OpenedSem(k.sems, 0, nw, PIPE_SIZE)
        /\ w = OpenSem(t, 0, nr, 0) /\ x = OpenedSem(t, 0, nr, 0)
    BY DEF NewSems, WriteSemOpened
  <2>8. "semread" \in KINDS /\ "semwrite" \in KINDS /\ nr # nw /\ PIPE_SIZE \in Nat /\ 0 \in Nat
        /\ nr # NO_NAME /\ nw # NO_NAME
    BY NamesApart, PipeAssumption DEF KINDS
  <2> HIDE DEF a, new, t, w, x, y, C, l
  <2>9. NewIn(k.sems, t, y, 0, nw, PIPE_SIZE) /\ TableOK(t, C)
    <3>1. \A s \in SEMS : k.sems.list[s].name # nw
      BY <2>6 DEF IsNameOf
    <3> QED
      BY ONLY <2>5, <2>7, <2>8, <3>1, OpensNew
  <2>10. NewIn(t, w, x, 0, nr, 0) /\ TableOK(w, C)
    <3>1. \A s \in SEMS : t.list[s].name # nr
      BY <2>6, <2>8, <2>9 DEF IsNameOf, NewIn, Puts
    <3> QED
      BY ONLY <2>5, <2>7, <2>8, <2>9, <3>1, OpensNew
  <2>11. /\ x \in SEMS /\ y \in SEMS /\ x # y
         /\ t.list[y].name = nw /\ t.list[y].interested = {0} /\ t.list[y].sem_value = PIPE_SIZE
         /\ \A s \in SEMS \ {y} : t.list[s] = k.sems.list[s]
         /\ w.list[x].name = nr /\ w.list[x].interested = {0} /\ w.list[x].sem_value = 0
         /\ \A s \in SEMS \ {x} : w.list[s] = t.list[s]
         /\ k.sems.list[y].interested = {} /\ t.list[x].interested = {} /\ w \in SemTables
    <3>1. /\ x \in SEMS /\ y \in SEMS /\ k.sems.list[y].interested = {}
          /\ t.list[x].interested = {}
      BY <2>9, <2>10 DEF NewIn
    <3>2. PICK e : Puts(k.sems, t, y, e) /\ e.name = nw /\ e.interested = {0}
                   /\ e.sem_value = PIPE_SIZE
      BY <2>9 DEF NewIn
    <3>3. PICK f : Puts(t, w, x, f) /\ f.name = nr /\ f.interested = {0} /\ f.sem_value = 0
      BY <2>10 DEF NewIn
    <3>4. /\ t.list[y] = e /\ \A s \in SEMS \ {y} : t.list[s] = k.sems.list[s]
      BY <3>2 DEF Puts
    <3>5. /\ w.list[x] = f /\ \A s \in SEMS \ {x} : w.list[s] = t.list[s] /\ w \in SemTables
      BY <3>1, <3>3 DEF Puts
    <3>6. x # y
      BY <3>1, <3>2, <3>4
    <3>7. w \in SemTables
      BY <3>3 DEF Puts
    <3> QED
      BY <3>1, <3>2, <3>3, <3>4, <3>5, <3>6, <3>7
  <2>12. x # NO_SEM /\ y # NO_SEM
    BY <2>11 DEF SEMS
  <2>13. i = a
    BY <1>2, <2>12 DEF CreatedPipe, a, new, x, y
  <2> PICK one \in Nat : one = 1
    OBVIOUS
  <2> PICK yes \in BOOLEAN : yes = TRUE
    OBVIOUS
  <2> DEFINE e == [FreePipe EXCEPT !.claimed = yes, !.read_sem = x, !.write_sem = y,
                                   !.interested = one]
  <2>14. /\ k.active_pipes + 1 = Cardinality(C) /\ k.active_pipes + 1 \in 0..MAX_PIPES
         /\ k.asleep \in SUBSET Procs
    <3>1. IsFiniteSet(Claimed(k)) /\ Cardinality(Claimed(k)) \in Nat
      BY <2>1, SlotsAreFinite
    <3>2. a \notin Claimed(k)
      BY <2>2 DEF Claimed
    <3>3. Cardinality(C) = Cardinality(Claimed(k)) + 1
      BY <3>1, <3>2, FS_AddElement DEF C
    <3>4. k.active_pipes # MAX_PIPES /\ k.active_pipes \in 0..MAX_PIPES
          /\ k.asleep \in SUBSET Procs
      BY <1>2, <2>1, KernelFields DEF CanCreatePipe
    <3> QED
      BY <2>3, <3>3, <3>4, PipeAssumption DEF Tidy
  <2> PICK c \in 0..MAX_PIPES : c = k.active_pipes + 1
    BY <2>14
  <2>15. m = With(k, a, e, c, w, k.asleep)
    <3>1. m = [k EXCEPT !.pipeList[a] = e, !.sems = w, !.active_pipes = c]
      BY <1>2, <2>12 DEF CreatePipe, a, new, w, x, y
    <3> HIDE DEF e
    <3> QED
      BY <2>1, <3>1 DEF KernelStates, With
  <2>16. /\ e \in PipeRecord /\ e.claimed /\ e.read_sem = x /\ e.write_sem = y
         /\ e.interested = 1 /\ e.amount = 0 /\ e.stored = 0 /\ e.taken = 0
         /\ e.read_pos = 0 /\ e.write_pos = 0
    <3> DEFINE f == FreePipe
    <3>1. f \in PipeRecord
      BY FreeIsPipe
    <3>2. /\ f.amount = 0 /\ f.stored = 0 /\ f.taken = 0 /\ f.read_pos = 0
          /\ f.write_pos = 0
      BY DEF FreePipe
    <3>3. e = [f EXCEPT !.claimed = yes, !.read_sem = x, !.write_sem = y,
                        !.interested = one]
      OBVIOUS
    <3> HIDE DEF e, f
    <3> QED
      BY <2>11, <3>1, <3>2, <3>3 DEF PipeRecord
  <2> HIDE DEF e
  <2>17. InOrder(e)
    <3>1. PIPE_SIZE \in Nat /\ PIPE_SIZE > 0 /\ BYTES \in Nat /\ BYTES > 0
      BY PipeAssumption DEF BYTES
    <3>2. 0 % PIPE_SIZE = 0 /\ 0 % BYTES = 0
      BY <3>1
    <3>3. \A j \in 0..PIPE_SIZE - 1 : ~(j < 0)
      BY <3>1
    <3> QED
      BY <2>16, <3>1, <3>2, <3>3 DEF InOrder
  <2>18. /\ m \in KernelStates /\ m.sems = w /\ m.active_pipes = c
         /\ Pipe(m, a) = e /\ \A j \in SLOTS \ {a} : Pipe(m, j) = Pipe(k, j)
    BY <2>1, <2>2, <2>11, <2>14, <2>15, <2>16, KernelWith
  <2> PICK V : V = Joined(U, a, 0)
    OBVIOUS
  <2>19. V \in UserSets /\ V[a] = {0} /\ \A j \in SLOTS \ {a} : V[j] = U[j]
    BY <2>2, <2>3, <2>4, <2>5 DEF UserSets, Joined
  <2>20. Tidy(m)
    BY <2>2, <2>10, <2>14, <2>18 DEF Tidy
  <2>21. Local(k, m, 0, a)
    <3>1. \A s \in SEMS : w.list[s] = k.sems.list[s] \/ k.sems.list[s].interested = {}
      BY <2>11
    <3> QED
      BY <2>18, <3>1 DEF Local, SameSem
  <2>22. OnePipe(m, a, V[a], L[a], a, P)
    <3>1. Cardinality(V[a]) = 1
      <4>1. Cardinality({0}) = 1
        BY FS_Singleton
      <4> QED
        BY <2>19, <4>1, Zenon
    <3>2. Counted(m, a, V[a], L[a])
      <4>1. L[a] = 0 /\ 1 + 0 = 1
        BY <2>4 DEF l
      <4>2. Pipe(m, a).claimed /\ Pipe(m, a).interested = 1
        BY <2>16, <2>18
      <4>3. Pipe(m, a).interested = Cardinality(V[a]) + L[a]
        BY <3>1, <4>1, <4>2
      <4> QED
        BY <4>2, <4>3 DEF Counted
    <3>3. PIPE_SIZE - 0 = PIPE_SIZE
      BY PipeAssumption
    <3>4. /\ Pipe(m, a).read_sem = x /\ Pipe(m, a).write_sem = y /\ Pipe(m, a).amount = 0
          /\ m.sems.list[x] = w.list[x] /\ m.sems.list[y] = w.list[y] /\ w.list[y] = t.list[y]
          /\ InOrder(Pipe(m, a))
      BY <2>11, <2>16, <2>17, <2>18
    <3>5. /\ m.sems.list[x].name = nr /\ m.sems.list[x].interested = {0}
          /\ m.sems.list[x].sem_value = 0
          /\ m.sems.list[y].name = nw /\ m.sems.list[y].interested = {0}
          /\ m.sems.list[y].sem_value = PIPE_SIZE
      BY <2>11, <3>4
    <3>6. Kept(m, a) /\ Rights(m, a) = {0}
      BY <3>3, <3>4, <3>5 DEF Kept, Rights
    <3>7. Holds(m, a, V[a], L[a], P)
      BY <2>2, <2>3, <2>19, <3>6 DEF Holds
    <3> QED
      BY <3>2, <3>7 DEF OnePipe
  <2>23. KInv(m, V, L, a, P)
    <3> PICK z, h, g : z = 0 /\ h = NO_PIPE /\ g = a
      OBVIOUS
    <3>1. z # 0 => P[z] \subseteq {a}
      OBVIOUS
    <3>2. KInv(k, U, L, h, P) /\ m \in KernelStates /\ Local(k, m, z, a)
      BY <2>18, <2>21
    <3>3. V \in UserSets /\ \A j \in SLOTS \ {a} : V[j] = U[j]
      BY <2>19
    <3>4. L \in Losses /\ \A j \in SLOTS \ {a} : L[j] = L[j]
      BY <2>3
    <3>5. g # NO_PIPE => Pipe(m, g).claimed /\ 0 \in V[g]
      BY <2>16, <2>18, <2>19
    <3>6. g \in SLOTS \cup {NO_PIPE} /\ a \in SLOTS /\ \A j \in SLOTS \ {a} : j = g => j = h
      BY <2>2
    <3>7. OnePipe(m, a, V[a], L[a], g, P)
      BY <2>22
    <3>8. KInv(m, V, L, g, P)
      BY ONLY <2>20, <3>1, <3>2, <3>3, <3>4, <3>5, <3>6, <3>7, LooksAtOne
    <3> QED
      BY <3>8
  <2> QED
    BY <2>2, <2>4, <2>13, <2>23
<1> QED
  BY <1>1, <1>2

(* Processes come to know a pipe, or forget one they neither use nor could *)
(* have a right to.                                                        *)
LEMMA KnowsOthers ==
  ASSUME NEW k, NEW U, NEW L, NEW h, NEW P, KInv(k, U, L, h, P),
         NEW Q \in Places, Q[0] = SLOTS,
         \A j \in SLOTS : \A q \in Procs : j \in P[q] /\ (q \in U[j] \/ j = h) => j \in Q[q]
  PROVE  KInv(k, U, L, h, Q)
<1>1. ASSUME NEW i \in SLOTS PROVE OnePipe(k, i, U[i], L[i], h, Q)
  <2>1. OnePipe(k, i, U[i], L[i], h, P) /\ k \in KernelStates
    BY DEF KInv
  <2>2. ASSUME Pipe(k, i).claimed, i = h \/ L[i] = 0 PROVE Holds(k, i, U[i], L[i], Q)
    <3>1. Holds(k, i, U[i], L[i], P)
      BY <2>1, <2>2 DEF OnePipe
    <3>2. Rights(k, i) \subseteq Procs
      <4>1. Pipe(k, i).read_sem \in SEMS /\ k.sems \in SemTables
        BY OpenIsNamed
      <4> QED
        BY <4>1 DEF Rights, SemTables, PipeSems, Semaphore
    <3>3. \A q \in Rights(k, i) : i \in Q[q]
      BY <2>2, <3>1, <3>2 DEF Holds
    <3> QED
      BY <3>1, <3>3 DEF Holds
  <2> QED
    BY <2>1, <2>2 DEF OnePipe
<1> QED
  BY <1>1 DEF KInv

(* A flag of a pipe, and who is blocked, are not looked at.                *)
Alike(e, f) ==
    /\ e.claimed = f.claimed /\ e.interested = f.interested /\ e.read_sem = f.read_sem
    /\ e.write_sem = f.write_sem /\ e.amount = f.amount /\ InOrder(e) = InOrder(f)

LEMMA StaysAlike ==
  ASSUME NEW k, NEW U, NEW L, NEW h, NEW P, KInv(k, U, L, h, P), NEW m \in KernelStates,
         m.sems = k.sems, m.active_pipes = k.active_pipes,
         \A i \in SLOTS : Alike(Pipe(m, i), Pipe(k, i))
  PROVE  KInv(m, U, L, h, P) /\ Claimed(m) = Claimed(k)
<1>1. Claimed(m) = Claimed(k)
  <2>1. \A i \in SLOTS : Pipe(m, i).claimed = Pipe(k, i).claimed
    BY DEF Alike
  <2> QED
    BY <2>1 DEF Claimed
<1>2. ASSUME NEW i \in SLOTS PROVE OnePipe(m, i, U[i], L[i], h, P)
  <2>1. OnePipe(k, i, U[i], L[i], h, P) /\ Alike(Pipe(m, i), Pipe(k, i))
    BY DEF KInv
  <2>2. Counted(m, i, U[i], L[i])
    BY <2>1 DEF OnePipe, Counted, Alike
  <2>3. Kept(k, i) => Kept(m, i)
    BY <2>1 DEF Kept, Alike
  <2>4. Rights(m, i) = Rights(k, i)
    BY <2>1 DEF Rights, Alike
  <2>5. Holds(k, i, U[i], L[i], P) => Holds(m, i, U[i], L[i], P)
    BY <2>3, <2>4 DEF Holds
  <2> QED
    BY <2>1, <2>2, <2>5 DEF OnePipe, Alike
<1>3. Tidy(m)
  BY <1>1 DEF KInv, Tidy
<1>4. h # NO_PIPE => Pipe(m, h).claimed /\ 0 \in U[h]
  BY DEF KInv, Alike
<1> QED
  BY <1>1, <1>2, <1>3, <1>4 DEF KInv

(* p will never close pipe i.                                              *)
Missed(L, i) == [L EXCEPT ![i] = L[i] + 1]

LEMMA UserIsLost ==
  ASSUME NEW k, NEW U, NEW L, NEW h, NEW P, KInv(k, U, L, h, P), NEW i \in SLOTS,
         NEW p \in U[i], p # 0 => P[p] \subseteq {i}, p = 0 => i = h,
         NEW g, p = 0 => g = NO_PIPE, p # 0 => g = h
  PROVE  KInv(k, Left(U, i, p), Missed(L, i), g, P)
<1> PICK V, M : V = Left(U, i, p) /\ M = Missed(L, i)
  OBVIOUS
<1>1. /\ k \in KernelStates /\ U \in UserSets /\ L \in Losses /\ Tidy(k)
      /\ h \in SLOTS \cup {NO_PIPE} /\ (h # NO_PIPE => Pipe(k, h).claimed /\ 0 \in U[h])
      /\ OnePipe(k, i, U[i], L[i], h, P)
  BY DEF KInv
<1>2. /\ V \in UserSets /\ V[i] = U[i] \ {p} /\ \A j \in SLOTS \ {i} : V[j] = U[j]
  BY <1>1 DEF UserSets, Left
<1>3. /\ M \in Losses /\ M[i] = L[i] + 1 /\ L[i] \in Nat /\ \A j \in SLOTS \ {i} : M[j] = L[j]
  BY <1>1 DEF Losses, Missed
<1>4. Pipe(k, i).claimed /\ Pipe(k, i).interested = Cardinality(U[i]) + L[i]
  BY <1>1 DEF OnePipe, Counted
<1>5. Pipe(k, i).interested = Cardinality(V[i]) + M[i]
  <2>1. U[i] \subseteq Procs /\ IsFiniteSet(Procs)
    BY <1>1, ProcsAssumption DEF UserSets
  <2>2. IsFiniteSet(U[i])
    BY <2>1, FS_Subset
  <2>3. Cardinality(V[i]) = Cardinality(U[i]) - 1 /\ Cardinality(U[i]) \in Nat
    BY <1>2, <2>2, FS_RemoveElement, FS_CardinalityType
  <2> QED
    BY <1>3, <1>4, <2>3
<1>6. OnePipe(k, i, V[i], M[i], g, P)
  <2>1. Counted(k, i, V[i], M[i])
    BY <1>4, <1>5 DEF Counted
  <2>2. ASSUME i = g \/ M[i] = 0 PROVE Holds(k, i, V[i], M[i], P)
    <3>1. M[i] # 0
      BY <1>3
    <3>2. i = h
      BY <2>2, <3>1
    <3>3. Holds(k, i, U[i], L[i], P)
      BY <1>1, <1>4, <3>2 DEF OnePipe
    <3> QED
      BY <1>2, <3>1, <3>3 DEF Holds
  <2> QED
    BY <2>1, <2>2 DEF OnePipe
<1>7. g # NO_PIPE => Pipe(k, g).claimed /\ 0 \in V[g]
  BY <1>1, <1>2
<1>8. g \in SLOTS \cup {NO_PIPE} /\ \A j \in SLOTS \ {i} : j = g => j = h
  BY <1>1 DEF SLOTS
<1> PICK m : m = k
  OBVIOUS
<1>9. /\ Local(k, m, p, i) /\ m \in KernelStates /\ Tidy(m) /\ OnePipe(m, i, V[i], M[i], g, P)
      /\ g # NO_PIPE => Pipe(m, g).claimed /\ 0 \in V[g]
  BY <1>1, <1>6, <1>7 DEF Local, SameSem
<1>10. V \in UserSets /\ \A j \in SLOTS \ {i} : V[j] = U[j]
  BY <1>2
<1>11. M \in Losses /\ \A j \in SLOTS \ {i} : M[j] = L[j]
  BY <1>3
<1>12. KInv(m, V, M, g, P)
  BY ONLY <1>8, <1>9, <1>10, <1>11, KInv(k, U, L, h, P), i \in SLOTS,
          p # 0 => P[p] \subseteq {i}, LooksAtOne
<1> QED
  BY <1>12

-----------------------------------------------------------------------------
(* The processes and the line of the shell.                                *)

ProcInfo ==
    [alive : BOOLEAN, fg : BOOLEAN, over : BOOLEAN,
     input : SLOTS \cup {NO_PIPE}, output : SLOTS \cup {NO_PIPE}]

PLACES_OF_JOB == {"prompt", "alone", "producer", "consumer", "waits", "pipeline"}

ShellTypes ==
    /\ procs \in [Pids -> ProcInfo] /\ bg_flag \in BOOLEAN
    /\ fd \in [Procs -> SLOTS \cup {NO_PIPE}] /\ lost \in [SLOTS -> Nat]
    /\ job \in [at : PLACES_OF_JOB, pids : SUBSET Pids]
    /\ fd[0] # NO_PIPE <=> job.at \in {"producer", "consumer", "pipeline"}

NobodyLost == \A i \in SLOTS : lost[i] = 0

(* The shell waits for every process in the foreground.                    *)
JobOK ==
    /\ job.at \in {"prompt", "alone", "producer"} => job.pids = {}
    /\ NobodyLost => Foreground \subseteq job.pids /\ (bg_flag => Foreground = {})
    /\ job.at = "waits" => ~bg_flag

JobInv == ShellTypes /\ JobOK

LEMMA Infos ==
  ASSUME NEW fg \in BOOLEAN, NEW i \in SLOTS \cup {NO_PIPE}, NEW o \in SLOTS \cup {NO_PIPE},
         NEW info, info = Process(fg, i, o)
  PROVE  /\ info \in ProcInfo /\ info.alive = TRUE /\ info.fg = fg
         /\ info.input = i /\ info.output = o
         /\ Dead \in ProcInfo /\ Dead.alive = FALSE
<1>1. info \in ProcInfo /\ info.alive = TRUE /\ info.fg = fg /\ info.input = i /\ info.output = o
  BY DEF Process, ProcInfo
<1>2. Dead \in ProcInfo /\ Dead.alive = FALSE
  BY DEF Dead, ProcInfo
<1> QED
  BY <1>1, <1>2

LEMMA FreePid ==
  /\ NO_PID \notin Pids /\ (NewPid = NO_PID \/ NewPid \in Pids \ Alive)
  /\ Pids \subseteq Procs /\ 0 \in Procs /\ 0 \notin Pids
<1>1. Pids \subseteq Nat /\ Alive \subseteq Pids
  BY ShellAssumption DEF Pids, Alive
<1>2. NO_PID \notin Pids
  BY <1>1 DEF NO_PID
<1>3. ASSUME Pids # Alive PROVE Min(Pids \ Alive) \in Pids \ Alive
  <2>1. Pids \ Alive \subseteq Nat /\ Pids \ Alive # {}
    BY <1>1, <1>3
  <2> QED
    BY <2>1, MinOfNaturals
<1> QED
  BY <1>2, <1>3, ShellAssumption DEF NewPid, Pids

(* What happens to the processes in the foreground.                        *)
LEMMA Starts ==
  ASSUME procs \in [Pids -> ProcInfo], NEW info \in ProcInfo, info.alive = TRUE,
         Started(NewPid, info)
  PROVE  /\ procs' \in [Pids -> ProcInfo]
         /\ NewPid = NO_PID => procs' = procs /\ Foreground' = Foreground
         /\ NewPid # NO_PID => /\ NewPid \in Pids \ Alive /\ Alive' = Alive \cup {NewPid}
                               /\ procs' = [procs EXCEPT ![NewPid] = info]
                               /\ Foreground' \subseteq Foreground \cup {NewPid}
                               /\ ~info.fg => Foreground' = Foreground
<1>1. CASE NewPid = NO_PID
  BY <1>1 DEF Started, Foreground, Alive
<1>2. CASE NewPid # NO_PID
  <2> PICK p : p = NewPid
    OBVIOUS
  <2>1. p \in Pids /\ p \notin Alive
    BY <1>2, FreePid
  <2>2. procs' = [procs EXCEPT ![p] = info]
    BY <1>2 DEF Started
  <2>3. /\ procs' \in [Pids -> ProcInfo] /\ procs'[p] = info
        /\ \A q \in Pids \ {p} : procs'[q] = procs[q]
    BY <2>1, <2>2
  <2>4. \A q \in Pids : procs'[q].alive <=> procs[q].alive \/ q = p
    <3>1. procs'[p].alive
      BY <2>3, Zenon
    <3>2. ASSUME NEW q \in Pids, q # p PROVE procs'[q].alive <=> procs[q].alive
      BY <2>3, <3>2, Zenon
    <3> QED
      BY <3>1, <3>2, Zenon
  <2>5. Alive' = Alive \cup {p}
    BY <2>1, <2>4 DEF Alive
  <2>6. \A q \in Alive : procs'[q] = procs[q]
    BY <2>1, <2>3 DEF Alive
  <2>7. Foreground' \subseteq Foreground \cup {p} /\ Foreground \subseteq Foreground'
    BY <2>5, <2>6, Zenon DEF Foreground
  <2>8. ASSUME ~info.fg PROVE p \notin Foreground'
    BY <2>3, <2>8, Zenon DEF Foreground
  <2>9. p \notin Foreground
    BY <2>1 DEF Foreground
  <2> QED
    BY <1>2, <2>1, <2>2, <2>3, <2>5, <2>7, <2>8, <2>9
<1> QED
  BY <1>1, <1>2

LEMMA Dies ==
  ASSUME procs \in [Pids -> ProcInfo], NEW p \in Pids, procs' = [procs EXCEPT ![p] = Dead]
  PROVE  /\ procs' \in [Pids -> ProcInfo] /\ Foreground' = Foreground \ {p}
         /\ Alive' = Alive \ {p}
<1>1. Dead \in ProcInfo /\ Dead.alive = FALSE
  BY DEF Dead, ProcInfo
<1>2. /\ procs' \in [Pids -> ProcInfo] /\ procs'[p] = Dead
      /\ \A q \in Pids \ {p} : procs'[q] = procs[q]
  BY <1>1
<1>3. \A q \in Pids : procs'[q].alive <=> procs[q].alive /\ q # p
  <2>1. ~procs'[p].alive
    BY <1>1, <1>2, Zenon
  <2>2. ASSUME NEW q \in Pids, q # p PROVE procs'[q].alive <=> procs[q].alive
    BY <1>2, <2>2, Zenon
  <2> QED
    BY <2>1, <2>2, Zenon
<1>4. Alive' = Alive \ {p}
  BY <1>3 DEF Alive
<1>5. \A q \in Alive' : procs'[q] = procs[q]
  BY <1>2, <1>4 DEF Alive
<1>6. Foreground' = Foreground \ {p}
  BY <1>4, <1>5, Zenon DEF Foreground
<1> QED
  BY <1>2, <1>4, <1>6

LEMMA IsOver ==
  ASSUME procs \in [Pids -> ProcInfo], NEW p \in Pids, NEW over \in BOOLEAN,
         procs' = [procs EXCEPT ![p].over = over]
  PROVE  /\ procs' \in [Pids -> ProcInfo] /\ Foreground' = Foreground /\ Alive' = Alive
         /\ \A q \in Pids : procs'[q].input = procs[q].input /\ procs'[q].output = procs[q].output
<1>1. procs[p] \in ProcInfo
  OBVIOUS
<1> DEFINE e == [procs[p] EXCEPT !.over = over]
<1>2. /\ e \in ProcInfo /\ e.alive = procs[p].alive /\ e.fg = procs[p].fg
      /\ e.input = procs[p].input /\ e.output = procs[p].output
  BY <1>1 DEF ProcInfo
<1>3. procs' = [procs EXCEPT ![p] = e]
  OBVIOUS
<1> HIDE DEF e
<1>4. /\ procs' \in [Pids -> ProcInfo] /\ procs'[p] = e
      /\ \A q \in Pids \ {p} : procs'[q] = procs[q]
  BY <1>2, <1>3
<1>5. \A q \in Pids : procs'[q].input = procs[q].input /\ procs'[q].output = procs[q].output
  BY <1>2, <1>4
<1>6. \A q \in Pids : procs'[q].alive = procs[q].alive /\ procs'[q].fg = procs[q].fg
  <2>1. procs'[p].alive = procs[p].alive /\ procs'[p].fg = procs[p].fg
    BY <1>2, <1>4, Zenon
  <2>2. ASSUME NEW q \in Pids, q # p
        PROVE  procs'[q].alive = procs[q].alive /\ procs'[q].fg = procs[q].fg
    BY <1>4, <2>2, Zenon
  <2> QED
    BY <2>1, <2>2, Zenon
<1>7. Alive' = Alive
  BY <1>6, Zenon DEF Alive
<1>8. Foreground' = Foreground
  BY <1>6, <1>7, Zenon DEF Foreground, Alive
<1> QED
  BY <1>4, <1>5, <1>7, <1>8

LEMMA JobAtStart ==
  ASSUME ShellInit
  PROVE  JobInv
<1>1. \A p \in Pids : ~procs[p].alive
  BY DEF ShellInit, Dead
<1>2. Foreground = {}
  BY <1>1 DEF Foreground, Alive
<1>3. procs \in [Pids -> ProcInfo]
  <2>1. Dead \in ProcInfo
    BY DEF Dead, ProcInfo
  <2> QED
    BY <2>1 DEF ShellInit
<1>4. /\ bg_flag = FALSE /\ job = Prompt /\ job.at = "prompt" /\ job.pids = {}
      /\ fd[0] = NO_PIPE /\ fd \in [Procs -> SLOTS \cup {NO_PIPE}] /\ lost \in [SLOTS -> Nat]
  BY ShellAssumption DEF ShellInit, PipeInit, Prompt
<1>5. job \in [at : PLACES_OF_JOB, pids : SUBSET Pids]
  BY <1>4 DEF Prompt, PLACES_OF_JOB
<1> QED
  BY <1>2, <1>3, <1>4, <1>5 DEF JobInv, ShellTypes, JobOK

(* A pipe the shell creates is one of the table.                           *)
LEMMA CreatedOne ==
  CreatedPipe(kernel, 0) \in SLOTS \cup {NO_PIPE}
<1>1. ASSUME Claimed(kernel) # SLOTS PROVE NewSlot(kernel) \in SLOTS
  <2>1. SLOTS \ Claimed(kernel) # {} /\ SLOTS \ Claimed(kernel) \subseteq Nat
    BY <1>1 DEF Claimed, SLOTS
  <2> QED
    BY <2>1, MinOfNaturals DEF NewSlot
<1> QED
  BY <1>1 DEF CreatedPipe, CanCreatePipe

LEMMA InterpretKeepsJob ==
  ASSUME JobInv, NEW line, Interpret(line)
  PROVE  JobInv'
<1> DEFINE scan == Scan(line)
           opens == RunsPiped(scan) /\ CreatedPipe(kernel, 0) # NO_PIPE
           at == CASE RunsAlone(scan) -> "alone" [] opens -> "producer" [] OTHER -> "prompt"
<1>1. /\ job.at = "prompt" /\ job.pids = {} /\ procs' = procs /\ lost' = lost
      /\ fd' = (IF opens THEN [fd EXCEPT ![0] = CreatedPipe(kernel, 0)] ELSE fd)
      /\ job' = [job EXCEPT !.at = at] /\ bg_flag' = (bg_flag \/ scan.bg)
  BY DEF JobInv, JobOK, Interpret
<1>2. ShellTypes /\ fd[0] = NO_PIPE /\ NobodyLost = NobodyLost'
  BY <1>1 DEF JobInv, ShellTypes, NobodyLost
<1>3. ~(RunsAlone(scan) /\ opens)
  BY DEF RunsAlone, RunsPiped
<1>4. at = "producer" <=> opens
  BY <1>3
<1>5. at \in {"alone", "producer", "prompt"}
  OBVIOUS
<1> HIDE DEF at
<1>6. job'.at = at /\ job'.pids = {} /\ job' \in [at : PLACES_OF_JOB, pids : SUBSET Pids]
  BY <1>1, <1>2, <1>5 DEF ShellTypes, PLACES_OF_JOB
<1>7. fd' \in [Procs -> SLOTS \cup {NO_PIPE}] /\ (fd'[0] # NO_PIPE <=> opens)
  BY <1>1, <1>2, CreatedOne, ShellAssumption DEF ShellTypes
<1>8. bg_flag' \in BOOLEAN
  BY <1>1
<1>9. ShellTypes'
  BY <1>1, <1>2, <1>4, <1>5, <1>6, <1>7, <1>8 DEF ShellTypes
<1>10. Foreground' = Foreground
  BY <1>1 DEF Foreground, Alive
<1>11. JobOK'
  <2>1. NobodyLost => Foreground = {}
    BY <1>1 DEF JobInv, JobOK
  <2> QED
    BY <1>2, <1>5, <1>6, <1>10, <2>1 DEF JobOK
<1> QED
  BY <1>9, <1>11 DEF JobInv

LEMMA CreateAloneKeepsJob ==
  ASSUME JobInv, CreateAlone
  PROVE  JobInv'
<1> PICK info : info = Process(~bg_flag, NO_PIPE, NO_PIPE)
  OBVIOUS
<1>1. /\ job.at = "alone" /\ job.pids = {} /\ ShellTypes /\ fd' = fd /\ lost' = lost
      /\ Started(NewPid, info) /\ bg_flag' = FALSE
      /\ job' = IF bg_flag THEN Prompt ELSE [at |-> "waits", pids |-> {NewPid} \ {NO_PID}]
      /\ fd[0] = NO_PIPE /\ NobodyLost' = NobodyLost
      /\ NobodyLost => Foreground = {}
  BY DEF JobInv, ShellTypes, JobOK, CreateAlone, NobodyLost
<1>2. info \in ProcInfo /\ info.alive = TRUE /\ info.fg = ~bg_flag
  <2> PICK fg \in BOOLEAN : fg = ~bg_flag
    OBVIOUS
  <2> PICK i, o : i = NO_PIPE /\ o = NO_PIPE
    OBVIOUS
  <2>1. info = Process(fg, i, o)
    BY Zenon
  <2>2. i \in SLOTS \cup {NO_PIPE} /\ o \in SLOTS \cup {NO_PIPE}
    BY <1>1
  <2>3. info \in ProcInfo /\ info.alive = TRUE /\ info.fg = fg
    BY ONLY <2>1, <2>2, fg \in BOOLEAN DEF Process, ProcInfo
  <2> QED
    BY <2>3, Zenon
<1>3. /\ procs' \in [Pids -> ProcInfo]
      /\ NewPid = NO_PID => Foreground' = Foreground
      /\ NewPid # NO_PID => NewPid \in Pids /\ Foreground' \subseteq Foreground \cup {NewPid}
                            /\ (bg_flag => Foreground' = Foreground)
  BY <1>1, <1>2, Starts DEF ShellTypes
<1>4. CASE bg_flag
  <2>1. job' = Prompt /\ job'.at = "prompt" /\ job'.pids = {} /\ Foreground' = Foreground
    BY <1>1, <1>3, <1>4 DEF Prompt
  <2>2. job' \in [at : PLACES_OF_JOB, pids : SUBSET Pids]
    BY <2>1 DEF Prompt, PLACES_OF_JOB
  <2> QED
    BY <1>1, <1>3, <2>1, <2>2 DEF JobInv, ShellTypes, JobOK
<1>5. CASE ~bg_flag
  <2> PICK new : new = {NewPid} \ {NO_PID}
    OBVIOUS
  <2>1. job' = [at |-> "waits", pids |-> new] /\ job'.at = "waits" /\ job'.pids = new
    BY <1>1, <1>5
  <2>2. new \subseteq Pids /\ Foreground' \subseteq Foreground \cup new
    BY <1>3
  <2>3. job' \in [at : PLACES_OF_JOB, pids : SUBSET Pids]
    BY <2>1, <2>2 DEF PLACES_OF_JOB
  <2> QED
    BY <1>1, <1>3, <2>1, <2>2, <2>3 DEF JobInv, ShellTypes, JobOK
<1> QED
  BY <1>4, <1>5

(* A shell that gives up has lost a pipe.                                  *)
LEMMA GivesUp ==
  ASSUME ShellTypes, fd[0] # NO_PIPE, GiveUp
  PROVE  /\ lost' \in [SLOTS -> Nat] /\ ~NobodyLost' /\ fd[0] \in SLOTS
         /\ fd' \in [Procs -> SLOTS \cup {NO_PIPE}] /\ fd'[0] = NO_PIPE
         /\ job' \in [at : PLACES_OF_JOB, pids : SUBSET Pids] /\ job'.at = "prompt"
         /\ job'.pids = {}
<1>1. fd[0] \in SLOTS /\ lost \in [SLOTS -> Nat] /\ fd \in [Procs -> SLOTS \cup {NO_PIPE}]
  BY ShellAssumption DEF ShellTypes
<1>2. lost' \in [SLOTS -> Nat] /\ lost'[fd[0]] # 0
  BY <1>1 DEF GiveUp
<1>3. fd' \in [Procs -> SLOTS \cup {NO_PIPE}] /\ fd'[0] = NO_PIPE
  BY <1>1, ShellAssumption DEF GiveUp
<1>4. job' = Prompt
  BY DEF GiveUp
<1>5. /\ job' \in [at : PLACES_OF_JOB, pids : SUBSET Pids] /\ job'.at = "prompt"
      /\ job'.pids = {}
  BY <1>4 DEF Prompt, PLACES_OF_JOB
<1> QED
  BY <1>1, <1>2, <1>3, <1>5 DEF NobodyLost

LEMMA CreateProducerKeepsJob ==
  ASSUME JobInv, CreateProducer
  PROVE  JobInv'
<1> PICK info : info = Process(~bg_flag, NO_PIPE, fd[0])
  OBVIOUS
<1>1. /\ job.at = "producer" /\ job.pids = {} /\ ShellTypes /\ Started(NewPid, info)
      /\ bg_flag' = bg_flag /\ fd[0] # NO_PIPE /\ fd[0] \in SLOTS \cup {NO_PIPE}
      /\ bg_flag \in BOOLEAN /\ NobodyLost => Foreground = {}
  BY ShellAssumption DEF JobInv, ShellTypes, JobOK, CreateProducer
<1>2. info \in ProcInfo /\ info.alive = TRUE /\ info.fg = ~bg_flag
  <2> PICK fg \in BOOLEAN : fg = ~bg_flag
    OBVIOUS
  <2> PICK i, o : i = NO_PIPE /\ o = fd[0]
    OBVIOUS
  <2>1. info = Process(fg, i, o)
    BY Zenon
  <2>2. i \in SLOTS \cup {NO_PIPE} /\ o \in SLOTS \cup {NO_PIPE}
    BY <1>1
  <2>3. info \in ProcInfo /\ info.alive = TRUE /\ info.fg = fg
    BY ONLY <2>1, <2>2, fg \in BOOLEAN DEF Process, ProcInfo
  <2> QED
    BY <2>3, Zenon
<1>3. /\ procs' \in [Pids -> ProcInfo]
      /\ NewPid = NO_PID => Foreground' = Foreground
      /\ NewPid # NO_PID => NewPid \in Pids /\ Foreground' \subseteq Foreground \cup {NewPid}
                            /\ (bg_flag => Foreground' = Foreground)
  BY <1>1, <1>2, Starts DEF ShellTypes
<1>4. CASE NewPid = NO_PID
  <2>1. GiveUp
    BY <1>4 DEF CreateProducer
  <2> QED
    BY <1>1, <1>3, <2>1, GivesUp DEF JobInv, ShellTypes, JobOK
<1>5. CASE NewPid # NO_PID
  <2>1. /\ job' = [at |-> "consumer", pids |-> {NewPid}] /\ job'.at = "consumer"
        /\ job'.pids = {NewPid} /\ fd' = fd /\ lost' = lost /\ NobodyLost' = NobodyLost
    BY <1>5 DEF CreateProducer, NobodyLost
  <2>2. job' \in [at : PLACES_OF_JOB, pids : SUBSET Pids]
    BY <1>3, <1>5, <2>1 DEF PLACES_OF_JOB
  <2> QED
    BY <1>1, <1>3, <1>5, <2>1, <2>2 DEF JobInv, ShellTypes, JobOK
<1> QED
  BY <1>4, <1>5

LEMMA CreateConsumerKeepsJob ==
  ASSUME JobInv, CreateConsumer
  PROVE  JobInv'
<1> PICK info : info = Process(~bg_flag, fd[0], NO_PIPE)
  OBVIOUS
<1>1. /\ job.at = "consumer" /\ job.pids \subseteq Pids /\ ShellTypes /\ Started(NewPid, info)
      /\ bg_flag' = bg_flag /\ fd[0] # NO_PIPE /\ fd[0] \in SLOTS \cup {NO_PIPE}
      /\ bg_flag \in BOOLEAN
      /\ NobodyLost => Foreground \subseteq job.pids /\ (bg_flag => Foreground = {})
  BY ShellAssumption DEF JobInv, ShellTypes, JobOK, CreateConsumer
<1>2. info \in ProcInfo /\ info.alive = TRUE /\ info.fg = ~bg_flag
  <2> PICK fg \in BOOLEAN : fg = ~bg_flag
    OBVIOUS
  <2> PICK i, o : i = fd[0] /\ o = NO_PIPE
    OBVIOUS
  <2>1. info = Process(fg, i, o)
    BY Zenon
  <2>2. i \in SLOTS \cup {NO_PIPE} /\ o \in SLOTS \cup {NO_PIPE}
    BY <1>1
  <2>3. info \in ProcInfo /\ info.alive = TRUE /\ info.fg = fg
    BY ONLY <2>1, <2>2, fg \in BOOLEAN DEF Process, ProcInfo
  <2> QED
    BY <2>3, Zenon
<1>3. /\ procs' \in [Pids -> ProcInfo]
      /\ NewPid = NO_PID => Foreground' = Foreground
      /\ NewPid # NO_PID => NewPid \in Pids /\ Foreground' \subseteq Foreground \cup {NewPid}
                            /\ (bg_flag => Foreground' = Foreground)
  BY <1>1, <1>2, Starts DEF ShellTypes
<1>4. CASE NewPid = NO_PID
  <2>1. GiveUp
    BY <1>4 DEF CreateConsumer
  <2> QED
    BY <1>1, <1>3, <2>1, GivesUp DEF JobInv, ShellTypes, JobOK
<1>5. CASE NewPid # NO_PID
  <2> PICK both : both = job.pids \cup {NewPid}
    OBVIOUS
  <2>1. /\ job' = [at |-> "pipeline", pids |-> both] /\ job'.at = "pipeline"
        /\ job'.pids = both /\ fd' = fd /\ lost' = lost /\ NobodyLost' = NobodyLost
    BY <1>5 DEF CreateConsumer, NobodyLost
  <2>2. both \subseteq Pids
    BY <1>1, <1>3, <1>5
  <2>3. job' \in [at : PLACES_OF_JOB, pids : SUBSET Pids]
    BY <2>1, <2>2 DEF PLACES_OF_JOB
  <2> QED
    BY <1>1, <1>3, <1>5, <2>1, <2>3 DEF JobInv, ShellTypes, JobOK
<1> QED
  BY <1>4, <1>5

(* The shell goes back to its prompt when nobody is left in the foreground. *)
LEMMA WaitedForAll ==
  ASSUME JobInv, Waited
  PROVE  NobodyLost => Foreground = {}
<1>1. NobodyLost => Foreground \subseteq job.pids
  BY DEF JobInv, JobOK
<1> QED
  BY <1>1 DEF Waited, Foreground, Alive

LEMMA WaitedAloneKeepsJob ==
  ASSUME JobInv, WaitedAlone
  PROVE  JobInv'
<1>1. /\ job.at = "waits" /\ ShellTypes /\ ~bg_flag /\ job' = Prompt /\ fd[0] = NO_PIPE
      /\ fd' = fd /\ procs' = procs /\ bg_flag' = bg_flag /\ lost' = lost
      /\ NobodyLost' = NobodyLost /\ Foreground' = Foreground /\ Waited
  BY DEF JobInv, JobOK, ShellTypes, WaitedAlone, NobodyLost, Foreground, Alive
<1>2. job' \in [at : PLACES_OF_JOB, pids : SUBSET Pids] /\ job'.at = "prompt" /\ job'.pids = {}
  BY <1>1 DEF Prompt, PLACES_OF_JOB
<1>3. NobodyLost => Foreground = {}
  BY <1>1, WaitedForAll
<1> QED
  BY <1>1, <1>2, <1>3 DEF JobInv, ShellTypes, JobOK

LEMMA ClosesPipelineKeepsJob ==
  ASSUME JobInv, ClosesPipeline
  PROVE  JobInv'
<1>1. /\ job.at = "pipeline" /\ ShellTypes /\ job' = Prompt /\ (bg_flag \/ Waited)
      /\ fd' = [fd EXCEPT ![0] = NO_PIPE] /\ procs' = procs /\ bg_flag' = FALSE
      /\ lost' = lost /\ NobodyLost' = NobodyLost /\ Foreground' = Foreground
  BY DEF JobInv, ClosesPipeline, NobodyLost, Foreground, Alive
<1>2. job' \in [at : PLACES_OF_JOB, pids : SUBSET Pids] /\ job'.at = "prompt" /\ job'.pids = {}
  BY <1>1 DEF Prompt, PLACES_OF_JOB
<1>3. fd' \in [Procs -> SLOTS \cup {NO_PIPE}] /\ fd'[0] = NO_PIPE
  BY <1>1, ShellAssumption DEF ShellTypes
<1>4. NobodyLost => Foreground = {}
  BY <1>1, WaitedForAll DEF JobInv, JobOK
<1> QED
  BY <1>1, <1>2, <1>3, <1>4 DEF JobInv, ShellTypes, JobOK

LEMMA EndsKeepsJob ==
  ASSUME JobInv, NEW p \in Pids, Ends(p)
  PROVE  JobInv'
<1>1. /\ procs' \in [Pids -> ProcInfo] /\ Foreground' = Foreground \ {p}
      /\ fd' = fd /\ bg_flag' = bg_flag /\ job' = job
  BY Dies DEF JobInv, ShellTypes, Ends
<1>2. lost' \in [SLOTS -> Nat] /\ (NobodyLost' => NobodyLost)
  <2>1. lost \in [SLOTS -> Nat]
    BY DEF JobInv, ShellTypes
  <2>2. CASE Idle(p)
    BY <2>1, <2>2 DEF Ends, NobodyLost
  <2>3. CASE ~Idle(p)
    <3> PICK i : i = call[p].pos
      OBVIOUS
    <3>1. lost' = [lost EXCEPT ![i] = lost[i] + 1]
      BY <2>3 DEF Ends
    <3>2. \A j \in SLOTS : lost'[j] = IF j = i THEN lost[j] + 1 ELSE lost[j]
      BY <2>1, <3>1
    <3>4. lost' \in [SLOTS -> Nat]
      <4>1. lost' = [j \in SLOTS |-> IF j = i THEN lost[i] + 1 ELSE lost[j]]
        BY <2>1, <3>1
      <4>2. \A j \in SLOTS : (IF j = i THEN lost[i] + 1 ELSE lost[j]) \in Nat
        BY <2>1
      <4> QED
        BY <4>1, <4>2
    <3>3. \A j \in SLOTS : lost'[j] = 0 => lost[j] = 0
      BY <2>1, <3>2
    <3> QED
      BY <3>3, <3>4 DEF NobodyLost
  <2> QED
    BY <2>2, <2>3
<1> QED
  BY <1>1, <1>2 DEF JobInv, ShellTypes, JobOK

LEMMA ProcessKeepsJob ==
  ASSUME JobInv, NEW p \in Alive,
         \/ \E n \in ReadSizes : ReadPipe(p, n)
         \/ \E n \in WriteSizes : WritePipe(p, n)
         \/ GoesOn(p)
  PROVE  JobInv'
<1>1. p \in Pids
  BY DEF Alive
<1>2. fd' = fd /\ bg_flag' = bg_flag /\ job' = job /\ lost' = lost /\ NobodyLost' = NobodyLost
  BY DEF ReadPipe, WritePipe, GoesOn, Resume, NobodyLost
<1>3. procs' = procs \/ \E over \in BOOLEAN : procs' = [procs EXCEPT ![p].over = over]
  <2>1. \A pipe : AtEof(pipe) \in BOOLEAN
    BY DEF AtEof
  <2> QED
    BY <2>1 DEF ReadPipe, WritePipe, GoesOn
<1>4. procs' \in [Pids -> ProcInfo] /\ Foreground' = Foreground
  <2>1. CASE procs' = procs
    BY <2>1 DEF JobInv, ShellTypes, Foreground, Alive
  <2>2. ASSUME NEW over \in BOOLEAN, procs' = [procs EXCEPT ![p].over = over]
        PROVE  procs' \in [Pids -> ProcInfo] /\ Foreground' = Foreground
    BY <1>1, <2>2, IsOver DEF JobInv, ShellTypes
  <2> QED
    BY <1>3, <2>1, <2>2
<1> QED
  BY <1>2, <1>4 DEF JobInv, ShellTypes, JobOK

LEMMA JobStep ==
  ASSUME JobInv, [ShellNext]_shellVars
  PROVE  JobInv'
<1>1. ASSUME NEW line \in Lines, Interpret(line) PROVE JobInv'
  BY <1>1, InterpretKeepsJob
<1>2. ASSUME CtrlC PROVE JobInv'
  <2>1. Foreground # {} /\ Foreground \subseteq Pids /\ Pids \subseteq Nat
    BY <1>2, ShellAssumption DEF CtrlC, Foreground, Alive, Pids
  <2>2. Min(Foreground) \in Pids
    BY <2>1, MinOfNaturals
  <2> QED
    BY <1>2, <2>2, EndsKeepsJob DEF CtrlC
<1>3. ASSUME NEW p \in Alive, Exit(p) PROVE JobInv'
  BY <1>3, EndsKeepsJob DEF Exit, Alive
<1>4. ASSUME UNCHANGED shellVars PROVE JobInv'
  BY <1>4 DEF shellVars, JobInv, ShellTypes, JobOK, NobodyLost, Foreground, Alive
<1> QED
  BY <1>1, CreateAloneKeepsJob, CreateProducerKeepsJob, CreateConsumerKeepsJob,
     WaitedAloneKeepsJob, ClosesPipelineKeepsJob, <1>2, <1>3, <1>4, ProcessKeepsJob
     DEF ShellNext, ShellStep

(* The job of the shell: until a line is done the pids it will wait for    *)
(* are those of the foreground that are alive, as long as nobody is lost.  *)
THEOREM JobInvariance == ShellSpec => []JobInv
<1>1. ShellInit => JobInv
  BY JobAtStart
<1>2. JobInv /\ [ShellNext]_shellVars => JobInv'
  BY JobStep
<1> QED
  BY <1>1, <1>2, PTL DEF ShellSpec

(* When the shell is at its prompt no process of the foreground is left,   *)
(* whatever the processes do and however many there are, unless somebody   *)
(* was killed in a transfer or a pipeline was given up: interpret waits    *)
(* for all that it has started.                                            *)
THEOREM PromptsAreFree == ShellSpec => []PromptIsFree
<1>1. JobInv => PromptIsFree
  BY DEF JobInv, JobOK, PromptIsFree, NobodyLost
<1> QED
  BY <1>1, JobInvariance, PTL

-----------------------------------------------------------------------------
(* The pipes under the shell: who uses which, and the inductive invariant. *)

(* At most seven pipes at a time: the semaphores of more cannot all be     *)
(* opened, as sem_open keeps no more than MAX_PROCESSES of them.           *)
Roomy(k) == Room(Claimed(k))

Knows(info) == {info.input, info.output} \ {NO_PIPE}

(* The users of the pipes, and the pipes a process may use.                *)
UsersIn(f, c) == [i \in SLOTS |-> {p \in Procs : f[p] = i} \cup {p \in Pids : c[p].pos = i}]

Members == UsersIn(fd, call)

ReachIn(infos, live) == [p \in Procs |-> IF p \in live THEN Knows(infos[p]) ELSE SLOTS]

Reach == ReachIn(procs, Alive)

(* What is true of process p, with these descriptors and its call c.       *)
ProcOK(info, alive, c) ==
    /\ c = NoCall \/ (alive /\ \E i \in SLOTS : InCall(c, i) /\ Knows(info) = {i})
    /\ info.input = NO_PIPE \/ info.output = NO_PIPE

CallsOK ==
    /\ call \in [Procs -> Calls] /\ call[0] = NoCall
    /\ \A p \in Pids : fd[p] = NO_PIPE /\ ProcOK(procs[p], p \in Alive, call[p])

PipesInUse == KInv(kernel, Members, lost, fd[0], Reach)

ShellInv ==
    /\ JobInv /\ CallsOK /\ PipesInUse
    /\ hole \in BOOLEAN /\ (hole <=> ~InSight(kernel))

LEMMA NobodyInside ==
  /\ NoCall \in Calls /\ NoCall.pos = NO_PIPE /\ NoCall.kind = "none"
  /\ \A i \in SLOTS : ~InCall(NoCall, i) /\ i # NO_PIPE
  /\ \A c : \A i \in SLOTS : InCall(c, i) => c \in Calls /\ c.kind # "none" /\ c.pos = i
<1>1. NoCall \in Calls /\ NoCall.pos = NO_PIPE /\ NoCall.kind = "none"
  BY DEF NoCall, Calls
<1>2. \A i \in SLOTS : ~InCall(NoCall, i) /\ i # NO_PIPE
  BY <1>1 DEF InCall, SLOTS
<1>3. \A c : \A i \in SLOTS : InCall(c, i) => c \in Calls /\ c.kind # "none" /\ c.pos = i
  BY DEF InCall
<1> QED
  BY <1>1, <1>2, <1>3

(* Who uses a pipe: the shell, or a process inside a transfer.             *)
LEMMA MembersOf ==
  ASSUME NEW f \in [Procs -> SLOTS \cup {NO_PIPE}], NEW c,
         \A p \in Pids : /\ f[p] = NO_PIPE
                         /\ c[p] = NoCall \/ \E i \in SLOTS : InCall(c[p], i)
  PROVE  /\ UsersIn(f, c) \in UserSets
         /\ \A i \in SLOTS : \A p : p \in UsersIn(f, c)[i] <=>
               (p = 0 /\ f[0] = i) \/ (p \in Pids /\ InCall(c[p], i))
<1>1. \A i \in SLOTS :
         UsersIn(f, c)[i] = {p \in Procs : f[p] = i} \cup {p \in Pids : c[p].pos = i}
  BY DEF UsersIn
<1>2. Pids \subseteq Procs /\ 0 \in Procs /\ 0 \notin Pids /\ Procs = Pids \cup {0}
  BY ShellAssumption DEF Pids
<1>3. ASSUME NEW i \in SLOTS, NEW p \in Pids
      PROVE  f[p] # i /\ (c[p].pos = i <=> InCall(c[p], i))
  <2>1. f[p] = NO_PIPE /\ (c[p] = NoCall \/ \E j \in SLOTS : InCall(c[p], j))
    OBVIOUS
  <2>2. f[p] # i
    BY <2>1, NobodyInside
  <2>3. CASE c[p] = NoCall
    BY <2>2, <2>3, NobodyInside
  <2>4. ASSUME NEW j \in SLOTS, InCall(c[p], j) PROVE c[p].pos = i <=> InCall(c[p], i)
    <3>1. c[p].pos = j
      BY <2>4, NobodyInside
    <3>2. InCall(c[p], i) => c[p].pos = i
      BY NobodyInside
    <3> QED
      BY <2>4, <3>1, <3>2
  <2> QED
    BY <2>1, <2>2, <2>3, <2>4
<1>4. \A i \in SLOTS : \A p : p \in UsersIn(f, c)[i] <=>
         (p = 0 /\ f[0] = i) \/ (p \in Pids /\ InCall(c[p], i))
  BY <1>1, <1>2, <1>3
<1>5. UsersIn(f, c) \in UserSets
  BY <1>2 DEF UsersIn, UserSets
<1> QED
  BY <1>4, <1>5

LEMMA MembersNow ==
  ASSUME ShellTypes, CallsOK
  PROVE  /\ Members \in UserSets
         /\ \A i \in SLOTS : \A p : p \in Members[i] <=>
               (p = 0 /\ fd[0] = i) \/ (p \in Pids /\ InCall(call[p], i))
<1>1. \A p \in Pids : fd[p] = NO_PIPE /\ (call[p] = NoCall \/ \E i \in SLOTS : InCall(call[p], i))
  BY DEF CallsOK, ProcOK
<1>2. fd \in [Procs -> SLOTS \cup {NO_PIPE}]
  BY DEF ShellTypes
<1> QED
  BY <1>1, <1>2, MembersOf DEF Members

(* Two descriptions of the same users are equal.                           *)
LEMMA UsersMatch ==
  ASSUME NEW U \in UserSets, NEW V \in UserSets, \A i \in SLOTS : \A p : p \in U[i] <=> p \in V[i]
  PROVE  U = V
<1>1. U = [i \in SLOTS |-> U[i]] /\ V = [i \in SLOTS |-> V[i]]
  BY DEF UserSets
<1>2. ASSUME NEW i \in SLOTS PROVE U[i] = V[i]
  <2>1. \A p : p \in U[i] <=> p \in V[i]
    OBVIOUS
  <2> QED
    BY <2>1
<1>3. [i \in SLOTS |-> U[i]] = [i \in SLOTS |-> V[i]]
  BY <1>2
<1> QED
  BY <1>1, <1>3, Zenon

LEMMA MembersNext ==
  ASSUME ShellTypes', CallsOK', NEW U \in UserSets,
         \A i \in SLOTS : \A p : p \in U[i] <=>
               (p = 0 /\ fd'[0] = i) \/ (p \in Pids /\ InCall(call'[p], i))
  PROVE  Members' = U
<1> PICK f, c : f = fd' /\ c = call'
  OBVIOUS
<1>1. \A p \in Pids : f[p] = NO_PIPE /\ (c[p] = NoCall \/ \E i \in SLOTS : InCall(c[p], i))
  BY DEF CallsOK, ProcOK
<1>2. f \in [Procs -> SLOTS \cup {NO_PIPE}]
  BY DEF ShellTypes
<1>3. /\ UsersIn(f, c) \in UserSets
      /\ \A i \in SLOTS : \A p : p \in UsersIn(f, c)[i] <=>
               (p = 0 /\ f[0] = i) \/ (p \in Pids /\ InCall(c[p], i))
  BY <1>1, <1>2, MembersOf
<1> PICK V : V = UsersIn(f, c)
  OBVIOUS
<1>4. V = U
  <2>1. V \in UserSets /\ \A i \in SLOTS : \A p : p \in V[i] <=> p \in U[i]
    BY <1>3
  <2> QED
    BY ONLY <2>1, U \in UserSets, UsersMatch
<1> QED
  BY <1>4 DEF Members

(* What the processes know.                                                *)
LEMMA ReachOf ==
  ASSUME NEW infos \in [Pids -> ProcInfo], NEW live \in SUBSET Pids
  PROVE  /\ ReachIn(infos, live) \in Places /\ ReachIn(infos, live)[0] = SLOTS
         /\ \A p \in live : ReachIn(infos, live)[p] = Knows(infos[p])
         /\ \A p \in Procs \ live : ReachIn(infos, live)[p] = SLOTS
<1>1. Pids \subseteq Procs /\ 0 \in Procs /\ 0 \notin Pids
  BY ShellAssumption DEF Pids
<1>2. \A p \in Pids : Knows(infos[p]) \subseteq SLOTS
  BY DEF Knows, ProcInfo
<1> QED
  BY <1>1, <1>2 DEF ReachIn, Places

(* The kernel is as it should be when the processes know what they use.    *)
LEMMA ReachNext ==
  ASSUME ShellTypes, ShellTypes', NEW k, NEW U, NEW L, NEW h, KInv(k, U, L, h, Reach),
         \A p \in Alive' : \A j \in SLOTS :
            (p \in Alive => j \in Knows(procs[p])) /\ (p \in U[j] \/ j = h) => j \in Knows(procs'[p])
  PROVE  KInv(k, U, L, h, Reach')
<1> PICK infos, live, P, Q : /\ infos = procs' /\ live = Alive' /\ P = Reach
                             /\ Q = ReachIn(infos, live)
  OBVIOUS
<1>1. procs \in [Pids -> ProcInfo] /\ infos \in [Pids -> ProcInfo]
  BY DEF ShellTypes
<1>2. Alive \in SUBSET Pids /\ live \in SUBSET Pids
  BY DEF Alive
<1>3. /\ \A p \in Alive : P[p] = Knows(procs[p])
      /\ \A p \in Procs \ Alive : P[p] = SLOTS
  BY <1>1, <1>2, ReachOf DEF Reach
<1>4. /\ Q \in Places /\ Q[0] = SLOTS
      /\ \A p \in live : Q[p] = Knows(infos[p])
      /\ \A p \in Procs \ live : Q[p] = SLOTS
  BY <1>1, <1>2, ReachOf
<1>5. \A j \in SLOTS : \A q \in Procs : j \in P[q] /\ (q \in U[j] \/ j = h) => j \in Q[q]
  BY <1>2, <1>3, <1>4
<1>6. KInv(k, U, L, h, Q)
  BY <1>4, <1>5, KnowsOthers
<1> QED
  BY <1>6 DEF Reach

-----------------------------------------------------------------------------
(* The steps of the shell, one by one.                                     *)

(* The calls after a step of the shell: a process that it starts is in no  *)
(* call.                                                                   *)
LEMMA CallsStay ==
  ASSUME CallsOK, call' = call, \A p \in Pids : fd'[p] = fd[p],
         \A p \in Pids :
            \/ /\ procs'[p].input = procs[p].input /\ procs'[p].output = procs[p].output
               /\ p \in Alive => p \in Alive'
            \/ p \notin Alive /\ (procs'[p].input = NO_PIPE \/ procs'[p].output = NO_PIPE)
  PROVE  CallsOK'
<1>1. ASSUME NEW p \in Pids PROVE fd'[p] = NO_PIPE /\ ProcOK(procs'[p], p \in Alive', call[p])
  <2>1. fd[p] = NO_PIPE /\ ProcOK(procs[p], p \in Alive, call[p])
    BY DEF CallsOK
  <2>2. CASE /\ procs'[p].input = procs[p].input /\ procs'[p].output = procs[p].output
             /\ p \in Alive => p \in Alive'
    <3>1. Knows(procs'[p]) = Knows(procs[p])
      BY <2>2 DEF Knows
    <3> QED
      BY <2>1, <2>2, <3>1 DEF ProcOK
  <2>3. CASE p \notin Alive /\ (procs'[p].input = NO_PIPE \/ procs'[p].output = NO_PIPE)
    BY <2>1, <2>3 DEF ProcOK
  <2> QED
    BY <2>1, <2>2, <2>3
<1> QED
  BY <1>1 DEF CallsOK

(* And after a step of process p.                                          *)
LEMMA CallChanges ==
  ASSUME CallsOK, NEW p \in Pids, NEW c \in Calls, call' = [call EXCEPT ![p] = c], fd' = fd,
         ProcOK(procs'[p], p \in Alive', c),
         \A q \in Pids \ {p} : /\ procs'[q].input = procs[q].input
                               /\ procs'[q].output = procs[q].output
                               /\ q \in Alive => q \in Alive'
  PROVE  /\ CallsOK' /\ call'[p] = c /\ \A q \in Pids \ {p} : call'[q] = call[q]
<1>1. p \in Procs /\ p # 0 /\ Pids \subseteq Procs
  BY DEF Pids
<1>2. /\ call \in [Procs -> Calls] /\ call[0] = NoCall
      /\ \A q \in Pids : fd[q] = NO_PIPE /\ ProcOK(procs[q], q \in Alive, call[q])
  BY DEF CallsOK
<1>3. /\ call' \in [Procs -> Calls] /\ call'[0] = NoCall /\ call'[p] = c
      /\ \A q \in Pids \ {p} : call'[q] = call[q]
  BY <1>1, <1>2, ShellAssumption
<1>4. ASSUME NEW q \in Pids PROVE ProcOK(procs'[q], q \in Alive', call'[q])
  <2>1. CASE q = p
    BY <1>3, <2>1
  <2>2. CASE q # p
    <3>1. Knows(procs'[q]) = Knows(procs[q]) /\ call'[q] = call[q]
      BY <1>3, <2>2 DEF Knows
    <3> QED
      BY <1>2, <2>2, <3>1 DEF ProcOK
  <2> QED
    BY <2>1, <2>2
<1>5. \A q \in Pids : fd'[q] = NO_PIPE
  BY <1>2
<1> QED
  BY <1>3, <1>4, <1>5 DEF CallsOK

(* A step that leaves processes, calls and losses alone.                   *)
LEMMA KernelStep ==
  ASSUME ShellTypes, CallsOK, ShellTypes', CallsOK', procs' = procs, lost' = lost,
         NEW U \in UserSets, KInv(kernel', U, lost, fd'[0], Reach),
         \A i \in SLOTS : \A p : p \in U[i] <=>
               (p = 0 /\ fd'[0] = i) \/ (p \in Pids /\ InCall(call'[p], i))
  PROVE  PipesInUse'
<1>1. Members' = U
  BY MembersNext
<1>2. Reach' = Reach
  BY DEF Reach, Alive
<1> QED
  BY <1>1, <1>2 DEF PipesInUse

LEMMA InterpretKeeps ==
  ASSUME ShellInv, JobInv', Roomy(kernel'), NEW line, Interpret(line)
  PROVE  CallsOK' /\ PipesInUse'
<1> DEFINE scan == Scan(line)
           i == CreatedPipe(kernel, 0)
           opens == RunsPiped(scan) /\ i # NO_PIPE
<1>1. /\ job.at = "prompt" /\ procs' = procs /\ lost' = lost /\ call' = call
      /\ fd' = (IF opens THEN [fd EXCEPT ![0] = i] ELSE fd)
      /\ kernel' = (IF RunsPiped(scan) THEN CreatePipe(kernel, 0) ELSE kernel)
  BY DEF Interpret
<1>2. /\ ShellTypes /\ ShellTypes' /\ CallsOK /\ fd[0] = NO_PIPE
      /\ fd \in [Procs -> SLOTS \cup {NO_PIPE}]
      /\ KInv(kernel, Members, lost, NO_PIPE, Reach)
  BY <1>1 DEF ShellInv, JobInv, ShellTypes, PipesInUse
<1> HIDE DEF scan
<1>3. CallsOK'
  <2>1. \A p \in Pids : fd'[p] = fd[p]
    BY <1>1, <1>2, ShellAssumption DEF Pids
  <2>2. Alive' = Alive
    BY <1>1 DEF Alive
  <2> QED
    BY <1>1, <1>2, <2>1, <2>2, CallsStay
<1>4. /\ Members \in UserSets
      /\ \A j \in SLOTS : \A p : p \in Members[j] <=>
               (p = 0 /\ fd[0] = j) \/ (p \in Pids /\ InCall(call[p], j))
  BY <1>2, MembersNow
<1> HIDE DEF i
<1>5. CASE kernel' = kernel /\ fd' = fd
  BY <1>1, <1>2, <1>3, <1>4, <1>5, KernelStep
<1>6. CASE /\ i \in SLOTS /\ Members[i] = {} /\ fd'[0] = i
           /\ KInv(kernel', Joined(Members, i, 0), lost, i, Reach)
  <2> PICK U : U = Joined(Members, i, 0)
    OBVIOUS
  <2>1. KInv(kernel', U, lost, fd'[0], Reach)
    BY <1>6
  <2>2. U \in UserSets
    BY <1>6 DEF KInv
  <2>3. \A j \in SLOTS : U[j] = IF j = i THEN {0} ELSE Members[j]
    BY <1>4, <1>6 DEF Joined, UserSets
  <2>4. \A j \in SLOTS : \A p : p \in U[j] <=>
           (p = 0 /\ fd'[0] = j) \/ (p \in Pids /\ InCall(call'[p], j))
    BY <1>1, <1>2, <1>4, <1>6, <2>3 DEF SLOTS
  <2> QED
    BY <1>1, <1>2, <1>3, <2>1, <2>2, <2>4, KernelStep
<1>7. RunsPiped(scan) =>
         \/ kernel' = kernel /\ i = NO_PIPE
         \/ /\ i \in SLOTS /\ Members[i] = {}
            /\ KInv(kernel', Joined(Members, i, 0), lost, i, Reach)
  <2> PICK m : m = kernel'
    OBVIOUS
  <2>1. ASSUME RunsPiped(scan) PROVE m = CreatePipe(kernel, 0) /\ Room(Claimed(m))
    BY <1>1, <2>1 DEF Roomy
  <2>2. i = CreatedPipe(kernel, 0)
    BY DEF i
  <2> QED
    BY <1>2, <2>1, <2>2, ShellCreates
<1>8. i \in SLOTS => i # NO_PIPE
  BY DEF SLOTS
<1>9. ASSUME i \in SLOTS, RunsPiped(scan) PROVE fd'[0] = i
  BY <1>1, <1>2, <1>8, <1>9, ShellAssumption
<1> QED
  BY <1>1, <1>3, <1>5, <1>6, <1>7, <1>9

(* A new process knows the pipe of the shell and is in no call.            *)
LEMMA BirthKeeps ==
  ASSUME ShellInv, JobInv', NEW info \in ProcInfo, info.alive = TRUE, Started(NewPid, info),
         info.input = NO_PIPE \/ info.output = NO_PIPE,
         \A i \in SLOTS : i = fd[0] => i \in Knows(info),
         kernel' = kernel, call' = call, \A p \in Pids : fd'[p] = fd[p]
  PROVE  /\ CallsOK' /\ KInv(kernel, Members, lost, fd[0], Reach')
         /\ fd' = fd /\ lost' = lost => PipesInUse'
<1>1. /\ ShellTypes /\ ShellTypes' /\ CallsOK /\ procs \in [Pids -> ProcInfo]
      /\ KInv(kernel, Members, lost, fd[0], Reach)
  BY DEF ShellInv, JobInv, ShellTypes, PipesInUse
<1>2. /\ NewPid = NO_PID => procs' = procs /\ Alive' = Alive
      /\ NewPid # NO_PID => /\ NewPid \in Pids \ Alive /\ Alive' = Alive \cup {NewPid}
                            /\ procs' = [procs EXCEPT ![NewPid] = info]
  BY <1>1, Starts DEF Alive
<1>3. \A p \in Pids :
         \/ procs'[p] = procs[p] /\ (p \in Alive <=> p \in Alive')
         \/ p = NewPid /\ p \notin Alive /\ procs'[p] = info
  BY <1>1, <1>2
<1>4. CallsOK'
  <2>1. \A p \in Pids :
            \/ /\ procs'[p].input = procs[p].input /\ procs'[p].output = procs[p].output
               /\ p \in Alive => p \in Alive'
            \/ p \notin Alive /\ (procs'[p].input = NO_PIPE \/ procs'[p].output = NO_PIPE)
    BY <1>3
  <2> QED
    BY <1>1, <2>1, CallsStay
<1>5. \A j \in SLOTS : \A p \in Pids : p \in Members[j] => p \in Alive
  <2>1. ASSUME NEW j \in SLOTS, NEW p \in Pids, p \in Members[j] PROVE p \in Alive
    <3>1. InCall(call[p], j)
      BY <1>1, <2>1, MembersNow DEF Pids
    <3>2. call[p] # NoCall
      BY <3>1, NobodyInside
    <3> QED
      BY <1>1, <3>2 DEF CallsOK, ProcOK
  <2> QED
    BY <2>1
<1>6. KInv(kernel, Members, lost, fd[0], Reach')
  <2>1. ASSUME NEW p \in Alive', NEW j \in SLOTS, p \in Alive => j \in Knows(procs[p]),
               p \in Members[j] \/ j = fd[0]
        PROVE  j \in Knows(procs'[p])
    <3>1. p \in Pids
      BY DEF Alive
    <3>2. CASE procs'[p] = procs[p] /\ (p \in Alive <=> p \in Alive')
      BY <2>1, <3>2
    <3>3. CASE p \notin Alive /\ procs'[p] = info
      BY <1>5, <2>1, <3>1, <3>3
    <3> QED
      BY <1>3, <3>1, <3>2, <3>3
  <2> QED
    BY <1>1, <2>1, ReachNext
<1>7. fd' = fd /\ lost' = lost => PipesInUse'
  BY <1>6 DEF PipesInUse, Members
<1> QED
  BY <1>4, <1>6, <1>7

LEMMA CreateAloneKeeps ==
  ASSUME ShellInv, JobInv', CreateAlone
  PROVE  CallsOK' /\ PipesInUse'
<1> PICK info : info = Process(~bg_flag, NO_PIPE, NO_PIPE)
  OBVIOUS
<1>1. /\ Started(NewPid, info) /\ kernel' = kernel /\ call' = call /\ fd' = fd /\ lost' = lost
      /\ fd[0] = NO_PIPE
  BY DEF ShellInv, JobInv, ShellTypes, CreateAlone
<1>2. info \in ProcInfo /\ info.alive = TRUE /\ info.input = NO_PIPE
  <2> PICK fg \in BOOLEAN : fg = ~bg_flag
    OBVIOUS
  <2> PICK i : i = NO_PIPE
    OBVIOUS
  <2>1. info = Process(fg, i, i)
    BY Zenon
  <2>2. i \in SLOTS \cup {NO_PIPE}
    OBVIOUS
  <2>3. info \in ProcInfo /\ info.alive = TRUE /\ info.input = i
    BY ONLY <2>1, <2>2, fg \in BOOLEAN DEF Process, ProcInfo
  <2> QED
    BY <2>3, Zenon
<1>3. \A i \in SLOTS : i = fd[0] => i \in Knows(info)
  BY <1>1 DEF SLOTS
<1> QED
  BY <1>1, <1>2, <1>3, BirthKeeps

(* A shell that gives up its pipe will not close it.                       *)
LEMMA GiveUpKeeps ==
  ASSUME ShellInv, JobInv', CallsOK', fd[0] # NO_PIPE, GiveUp, kernel' = kernel, call' = call,
         KInv(kernel, Members, lost, fd[0], Reach')
  PROVE  PipesInUse'
<1> PICK i, p, g, Q : i = fd[0] /\ p = 0 /\ g = NO_PIPE /\ Q = Reach'
  OBVIOUS
<1>1. /\ KInv(kernel, Members, lost, i, Q) /\ i \in SLOTS /\ ShellTypes /\ ShellTypes' /\ CallsOK
      /\ fd'[0] = NO_PIPE
  BY GivesUp DEF ShellInv, JobInv
<1>2. p \in Members[i] /\ (p # 0 => Q[p] \subseteq {i})
  BY <1>1, MembersNow
<1>3. p = 0 => i = i
  OBVIOUS
<1>4. KInv(kernel, Left(Members, i, p), Missed(lost, i), g, Q)
  <2> PICK h : h = i
    OBVIOUS
  <2>1. KInv(kernel, Members, lost, h, Q)
    BY <1>1
  <2>2. i \in SLOTS
    BY <1>1
  <2>3. (p = 0 => i = h) /\ (p = 0 => g = NO_PIPE) /\ (p # 0 => g = h)
    OBVIOUS
  <2> QED
    BY ONLY <1>2, <2>1, <2>2, <2>3, UserIsLost
<1>5. lost' = Missed(lost, i)
  BY DEF GiveUp, Missed
<1> PICK U : U = Left(Members, i, p)
  OBVIOUS
<1>6. Members' = U
  <2>1. U \in UserSets
    BY <1>4 DEF KInv
  <2>2. \A j \in SLOTS : U[j] = IF j = i THEN Members[i] \ {0} ELSE Members[j]
    BY <1>1, MembersNow DEF Left, UserSets
  <2>3. \A j \in SLOTS : \A q : q \in Members[j] <=>
           (q = 0 /\ i = j) \/ (q \in Pids /\ InCall(call[q], j))
    BY <1>1, MembersNow
  <2>4. 0 \notin Pids
    BY DEF Pids
  <2>5. \A j \in SLOTS : \A q : q \in U[j] <=>
           (q = 0 /\ fd'[0] = j) \/ (q \in Pids /\ InCall(call'[q], j))
    BY <1>1, <2>2, <2>3, <2>4 DEF SLOTS
  <2> QED
    BY <1>1, <2>1, <2>5, MembersNext
<1> QED
  BY <1>1, <1>4, <1>5, <1>6 DEF PipesInUse

LEMMA CreateProducerKeeps ==
  ASSUME ShellInv, JobInv', CreateProducer
  PROVE  CallsOK' /\ PipesInUse'
<1> PICK info : info = Process(~bg_flag, NO_PIPE, fd[0])
  OBVIOUS
<1>1. /\ Started(NewPid, info) /\ kernel' = kernel /\ call' = call
      /\ fd[0] # NO_PIPE /\ fd[0] \in SLOTS \cup {NO_PIPE}
      /\ (NewPid = NO_PID /\ GiveUp) \/ (fd' = fd /\ lost' = lost)
      /\ fd \in [Procs -> SLOTS \cup {NO_PIPE}]
  BY ShellAssumption DEF ShellInv, JobInv, ShellTypes, CreateProducer
<1>2. info \in ProcInfo /\ info.alive = TRUE /\ info.input = NO_PIPE /\ info.output = fd[0]
  <2> PICK fg \in BOOLEAN : fg = ~bg_flag
    OBVIOUS
  <2> PICK i, o : i = NO_PIPE /\ o = fd[0]
    OBVIOUS
  <2>1. info = Process(fg, i, o)
    BY Zenon
  <2>2. i \in SLOTS \cup {NO_PIPE} /\ o \in SLOTS \cup {NO_PIPE}
    BY <1>1
  <2>3. info \in ProcInfo /\ info.alive = TRUE /\ info.input = i /\ info.output = o
    BY ONLY <2>1, <2>2, fg \in BOOLEAN DEF Process, ProcInfo
  <2> QED
    BY <2>3, Zenon
<1>3. \A i \in SLOTS : i = fd[0] => i \in Knows(info)
  BY <1>2 DEF Knows, SLOTS
<1>4. \A p \in Pids : fd'[p] = fd[p]
  BY <1>1 DEF GiveUp, Pids
<1>5. /\ CallsOK' /\ KInv(kernel, Members, lost, fd[0], Reach')
      /\ fd' = fd /\ lost' = lost => PipesInUse'
  BY <1>1, <1>2, <1>3, <1>4, BirthKeeps
<1> QED
  BY <1>1, <1>5, GiveUpKeeps

LEMMA CreateConsumerKeeps ==
  ASSUME ShellInv, JobInv', CreateConsumer
  PROVE  CallsOK' /\ PipesInUse'
<1> PICK info : info = Process(~bg_flag, fd[0], NO_PIPE)
  OBVIOUS
<1>1. /\ Started(NewPid, info) /\ kernel' = kernel /\ call' = call
      /\ fd[0] # NO_PIPE /\ fd[0] \in SLOTS \cup {NO_PIPE}
      /\ (NewPid = NO_PID /\ GiveUp) \/ (fd' = fd /\ lost' = lost)
      /\ fd \in [Procs -> SLOTS \cup {NO_PIPE}]
  BY ShellAssumption DEF ShellInv, JobInv, ShellTypes, CreateConsumer
<1>2. info \in ProcInfo /\ info.alive = TRUE /\ info.input = fd[0] /\ info.output = NO_PIPE
  <2> PICK fg \in BOOLEAN : fg = ~bg_flag
    OBVIOUS
  <2> PICK i, o : i = fd[0] /\ o = NO_PIPE
    OBVIOUS
  <2>1. info = Process(fg, i, o)
    BY Zenon
  <2>2. i \in SLOTS \cup {NO_PIPE} /\ o \in SLOTS \cup {NO_PIPE}
    BY <1>1
  <2>3. info \in ProcInfo /\ info.alive = TRUE /\ info.input = i /\ info.output = o
    BY ONLY <2>1, <2>2, fg \in BOOLEAN DEF Process, ProcInfo
  <2> QED
    BY <2>3, Zenon
<1>3. \A i \in SLOTS : i = fd[0] => i \in Knows(info)
  BY <1>2 DEF Knows, SLOTS
<1>4. \A p \in Pids : fd'[p] = fd[p]
  BY <1>1 DEF GiveUp, Pids
<1>5. /\ CallsOK' /\ KInv(kernel, Members, lost, fd[0], Reach')
      /\ fd' = fd /\ lost' = lost => PipesInUse'
  BY <1>1, <1>2, <1>3, <1>4, BirthKeeps
<1> QED
  BY <1>1, <1>5, GiveUpKeeps

LEMMA WaitedAloneKeeps ==
  ASSUME ShellInv, JobInv', WaitedAlone
  PROVE  CallsOK' /\ PipesInUse'
<1>1. kernel' = kernel /\ call' = call /\ fd' = fd /\ procs' = procs /\ lost' = lost
  BY DEF WaitedAlone
<1> QED
  BY <1>1 DEF ShellInv, CallsOK, PipesInUse, Members, Reach, Alive

LEMMA ClosesPipelineKeeps ==
  ASSUME ShellInv, JobInv', ClosesPipeline
  PROVE  CallsOK' /\ PipesInUse'
<1> PICK i, p, g, h, m : i = fd[0] /\ p = 0 /\ g = NO_PIPE /\ h = fd[0] /\ m = kernel'
  OBVIOUS
<1>1. /\ fd' = [fd EXCEPT ![0] = NO_PIPE] /\ call' = call /\ procs' = procs /\ lost' = lost
      /\ m = ClosePipe(kernel, p, i) /\ fd[0] # NO_PIPE
  BY DEF ShellInv, JobInv, ShellTypes, ClosesPipeline
<1>2. /\ ShellTypes /\ ShellTypes' /\ CallsOK /\ KInv(kernel, Members, lost, h, Reach)
      /\ fd \in [Procs -> SLOTS \cup {NO_PIPE}] /\ fd[0] \in SLOTS \cup {NO_PIPE}
  BY ShellAssumption DEF ShellInv, JobInv, ShellTypes, PipesInUse
<1>3. i \in SLOTS /\ fd'[0] = NO_PIPE /\ \A q \in Pids : fd'[q] = fd[q]
  BY <1>1, <1>2, ShellAssumption DEF Pids
<1>4. CallsOK'
  <2>1. Alive' = Alive
    BY <1>1 DEF Alive
  <2> QED
    BY <1>1, <1>2, <1>3, <2>1, CallsStay
<1>5. \A j \in SLOTS : \A q : q \in Members[j] <=>
         (q = 0 /\ i = j) \/ (q \in Pids /\ InCall(call[q], j))
  BY <1>2, MembersNow
<1> PICK U : U = Left(Members, i, p)
  OBVIOUS
<1>6. KInv(m, U, lost, g, Reach)
  <2>1. p \in Members[i] /\ (p # 0 => Reach[p] \subseteq {i}) /\ (p = 0 => i = h)
        /\ (p = 0 => g = NO_PIPE) /\ (p # 0 => g = h)
    BY <1>3, <1>5
  <2> QED
    BY ONLY <1>2, <1>1, <1>3, <2>1, U = Left(Members, i, p), UserCloses
<1>7. U \in UserSets
  BY <1>6 DEF KInv
<1>8. \A j \in SLOTS : U[j] = IF j = i THEN Members[i] \ {0} ELSE Members[j]
  BY <1>2, MembersNow DEF Left, UserSets
<1>9. 0 \notin Pids
  BY DEF Pids
<1>10. \A j \in SLOTS : \A q : q \in U[j] <=>
           (q = 0 /\ fd'[0] = j) \/ (q \in Pids /\ InCall(call'[q], j))
  BY <1>1, <1>3, <1>5, <1>8, <1>9 DEF SLOTS
<1>11. KInv(kernel', U, lost, fd'[0], Reach)
  BY <1>3, <1>6
<1> QED
  BY <1>1, <1>2, <1>4, <1>7, <1>10, <1>11, KernelStep

LEMMA SameReach ==
  ASSUME \A q \in Pids : procs'[q].input = procs[q].input /\ procs'[q].output = procs[q].output,
         Alive' = Alive
  PROVE  Reach' = Reach
<1> PICK infos, live : infos = procs' /\ live = Alive'
  OBVIOUS
<1>1. Alive \subseteq Pids /\ live = Alive
  BY DEF Alive
<1>2. \A q \in Alive : Knows(infos[q]) = Knows(procs[q])
  BY <1>1 DEF Knows
<1>3. ReachIn(infos, live) = ReachIn(procs, Alive)
  BY <1>1, <1>2 DEF ReachIn
<1> QED
  BY <1>3 DEF Reach

(* What a transfer of process p through pipe i leaves.                     *)
LEMMA TransferKeeps ==
  ASSUME ShellInv, JobInv', NEW p \in Alive, NEW i \in SLOTS, Knows(procs[p]) = {i},
         NEW r, kernel' = r.kernel, call' = [call EXCEPT ![p] = r.call], fd' = fd, lost' = lost,
         \A q \in Pids : procs'[q].input = procs[q].input /\ procs'[q].output = procs[q].output,
         Alive' = Alive,
         NEW V \in UserSets, V[i] = Members[i] \cup {p}, \A j \in SLOTS \ {i} : V[j] = Members[j],
         NEW C, Transferred(r, C, V, lost, fd[0], Reach, i, p)
  PROVE  CallsOK' /\ PipesInUse'
<1>1. /\ ShellTypes /\ ShellTypes' /\ CallsOK /\ p \in Pids /\ p # 0 /\ 0 \notin Pids
  BY DEF ShellInv, JobInv, Alive, Pids
<1>2. Knows(procs'[p]) = {i} /\ (procs'[p].input = NO_PIPE \/ procs'[p].output = NO_PIPE)
  BY <1>1 DEF Knows, CallsOK, ProcOK
<1>3. \A j \in SLOTS : \A q : q \in Members[j] <=>
         (q = 0 /\ fd[0] = j) \/ (q \in Pids /\ InCall(call[q], j))
  BY <1>1, MembersNow
<1>4. Reach' = Reach
  BY SameReach
<1>5. ASSUME NEW c \in Calls, r.call = c, c = NoCall \/ InCall(c, i),
             NEW U \in UserSets, \A j \in SLOTS \ {i} : U[j] = Members[j],
             \A q : q \in U[i] <=> (q \in Members[i] /\ q # p) \/ (q = p /\ InCall(c, i)),
             KInv(r.kernel, U, lost, fd[0], Reach)
      PROVE  CallsOK' /\ PipesInUse'
  <2>1. ProcOK(procs'[p], p \in Alive', c)
    BY <1>2, <1>5 DEF ProcOK
  <2>2. /\ CallsOK' /\ call'[p] = c /\ \A q \in Pids \ {p} : call'[q] = call[q]
    <3>1. call' = [call EXCEPT ![p] = c]
      BY <1>5
    <3>2. \A q \in Pids \ {p} : /\ procs'[q].input = procs[q].input
                                /\ procs'[q].output = procs[q].output
                                /\ q \in Alive => q \in Alive'
      OBVIOUS
    <3> QED
      BY <1>1, <2>1, <3>1, <3>2, CallChanges
  <2>3. \A j \in SLOTS : InCall(c, j) => j = i
    BY <1>5, NobodyInside
  <2>4. \A j \in SLOTS \ {i} : ~InCall(call[p], j)
    <3>1. call[p] = NoCall \/ \E a \in SLOTS : InCall(call[p], a) /\ {i} = {a}
      BY <1>1 DEF CallsOK, ProcOK
    <3> QED
      BY <3>1, NobodyInside
  <2>5. ASSUME NEW j \in SLOTS, NEW q
        PROVE  q \in U[j] <=> (q = 0 /\ fd'[0] = j) \/ (q \in Pids /\ InCall(call'[q], j))
    <3>1. CASE q = p
      <4>1. CASE j = i
        BY <1>1, <1>5, <2>2, <3>1, <4>1
      <4>2. CASE j # i
        <5>1. q \notin U[j]
          BY <1>1, <1>3, <1>5, <2>4, <3>1, <4>2
        <5> QED
          BY <1>1, <2>2, <2>3, <3>1, <4>2, <5>1
      <4> QED
        BY <4>1, <4>2
    <3>2. CASE q # p
      <4>1. q \in U[j] <=> q \in Members[j]
        BY <1>5, <3>2
      <4>2. q \in Pids => call'[q] = call[q]
        BY <2>2, <3>2
      <4> QED
        BY <1>3, <4>1, <4>2
    <3> QED
      BY <3>1, <3>2
  <2>6. Members' = U
    BY <1>1, <2>2, <2>5, MembersNext
  <2> QED
    BY <1>4, <1>5, <2>2, <2>6 DEF PipesInUse
<1>6. CASE InCall(r.call, i) /\ KInv(r.kernel, V, lost, fd[0], Reach)
  <2> PICK c : c = r.call
    OBVIOUS
  <2>1. c \in Calls /\ InCall(c, i)
    BY <1>6, NobodyInside
  <2>2. \A q : q \in V[i] <=> (q \in Members[i] /\ q # p) \/ (q = p /\ InCall(c, i))
    BY <2>1
  <2> QED
    BY <1>5, <1>6, <2>1, <2>2
<1>7. CASE r.call = NoCall /\ KInv(r.kernel, Left(V, i, p), lost, fd[0], Reach)
  <2> PICK c, U : c = r.call /\ U = Left(V, i, p)
    OBVIOUS
  <2>1. c = NoCall /\ c \in Calls /\ ~InCall(c, i)
    BY <1>7, NobodyInside
  <2>2. U \in UserSets
    BY <1>7 DEF KInv
  <2>3. U[i] = V[i] \ {p} /\ \A j \in SLOTS \ {i} : U[j] = Members[j]
    BY DEF Left, UserSets
  <2>4. \A q : q \in U[i] <=> (q \in Members[i] /\ q # p) \/ (q = p /\ InCall(c, i))
    BY <2>1, <2>3
  <2> QED
    BY <1>5, <1>7, <2>1, <2>2, <2>3, <2>4
<1> QED
  BY <1>6, <1>7 DEF Transferred

(* A read or write system call begins.                                     *)
LEMMA CallBegins ==
  ASSUME ShellInv, ~hole, Roomy(kernel), NEW p \in Alive, Idle(p),
         NEW i \in SLOTS, Knows(procs[p]) = {i}, FindPipe(kernel, i) # NO_PIPE,
         NEW kind \in {"read", "write"}, NEW n \in Nat \ {0},
         NEW r, r = Advance(JoinPipe(kernel, p, i), p, Transfer(kind, i, n, TRUE), 0)
  PROVE  \E V \in UserSets : \E C :
            /\ V[i] = Members[i] \cup {p} /\ \A j \in SLOTS \ {i} : V[j] = Members[j]
            /\ Transferred(r, C, V, lost, fd[0], Reach, i, p)
<1> PICK k, c, V, P, h : /\ k = JoinPipe(kernel, p, i) /\ c = Transfer(kind, i, n, TRUE)
                         /\ V = Joined(Members, i, p) /\ P = Reach /\ h = fd[0]
  OBVIOUS
<1>1. /\ ShellTypes /\ CallsOK /\ KInv(kernel, Members, lost, h, P) /\ p \in Pids /\ p # 0
      /\ p \in Procs /\ Room(Claimed(kernel)) /\ InSight(kernel)
  BY DEF ShellInv, JobInv, PipesInUse, Alive, Pids, Roomy
<1>2. Pipe(kernel, i).claimed /\ Seen(kernel.sems)
  BY <1>1 DEF FindPipe, Claimed, InSight, Seen
<1>3. P[p] = {i}
  BY <1>1, ReachOf DEF Reach, ShellTypes, Alive
<1>4. p \notin Members[i]
  <2>1. call[p] = NoCall
    BY <1>1, NobodyInside DEF Idle, CallsOK, ProcOK
  <2> QED
    BY <1>1, <2>1, MembersNow, NobodyInside
<1>5. KInv(k, V, lost, h, P)
  BY <1>1, <1>2, <1>3, <1>4, UserJoins
<1>6. /\ V \in UserSets /\ V[i] = Members[i] \cup {p}
      /\ \A j \in SLOTS \ {i} : V[j] = Members[j]
  <2>1. V \in UserSets /\ Members \in UserSets
    BY <1>1, <1>5 DEF KInv
  <2> QED
    BY <2>1 DEF Joined, UserSets
<1>7. Uses(k, V, lost, h, P, i, p)
  BY <1>1, <1>3, <1>5, <1>6 DEF Uses
<1>8. InCall(c, i)
  <2> PICK yes \in BOOLEAN : yes = TRUE
    OBVIOUS
  <2>1. c = Transfer(kind, i, n, yes)
    OBVIOUS
  <2> QED
    BY <2>1 DEF InCall, Transfer, Calls
<1>9. Transferred(r, Claimed(k), V, lost, h, P, i, p)
  <2> PICK z \in {0, 1} : z = 0
    OBVIOUS
  <2>1. r = Advance(k, p, c, z) /\ (z = 1 => Permits(k, p, c) # 0)
    OBVIOUS
  <2> QED
    BY ONLY <1>7, <1>8, <2>1, z \in {0, 1}, UserAdvances
<1> QED
  BY <1>6, <1>9

LEMMA ReadPipeKeeps ==
  ASSUME ShellInv, JobInv', ~hole, Roomy(kernel), NEW p \in Alive, NEW n \in ReadSizes,
         ReadPipe(p, n)
  PROVE  CallsOK' /\ PipesInUse'
<1> DEFINE i == procs[p].input
<1>1. /\ ShellTypes /\ CallsOK /\ p \in Pids /\ procs \in [Pids -> ProcInfo] /\ i # NO_PIPE
      /\ Idle(p) /\ fd' = fd /\ lost' = lost
      /\ procs[p].input = NO_PIPE \/ procs[p].output = NO_PIPE
      /\ n \in Nat \ {0}
  BY PipeAssumption DEF ShellInv, JobInv, ShellTypes, CallsOK, ProcOK, Alive, ReadPipe
<1>2. i \in SLOTS /\ Knows(procs[p]) = {i}
  BY <1>1 DEF ProcInfo, Knows
<1>3. /\ \A q \in Pids : procs'[q].input = procs[q].input /\ procs'[q].output = procs[q].output
      /\ Alive' = Alive
  <2>1. \A pipe : AtEof(pipe) \in BOOLEAN
    BY DEF AtEof
  <2>2. \E over \in BOOLEAN : procs' = [procs EXCEPT ![p].over = over]
    BY <2>1 DEF ReadPipe
  <2> QED
    BY <1>1, <2>2, IsOver
<1> HIDE DEF i
<1>4. CASE FindPipe(kernel, i) = NO_PIPE
  <2>1. kernel' = kernel /\ call' = call
    BY <1>4 DEF ReadPipe, i
  <2>2. \A q \in Pids : fd'[q] = fd[q] /\ (q \in Alive => q \in Alive')
    BY <1>1, <1>3
  <2>3. CallsOK'
    BY <1>1, <1>3, <2>1, <2>2, CallsStay
  <2>4. Reach' = Reach
    BY <1>3, SameReach
  <2> QED
    BY <1>1, <2>1, <2>3, <2>4 DEF ShellInv, PipesInUse, Members
<1>5. CASE FindPipe(kernel, i) # NO_PIPE
  <2> PICK r : r = Advance(JoinPipe(kernel, p, i), p, Transfer("read", i, n, TRUE), 0)
    OBVIOUS
  <2>1. kernel' = r.kernel /\ call' = [call EXCEPT ![p] = r.call]
    BY <1>5 DEF ReadPipe, Becomes, i
  <2>2. PICK V \in UserSets : \E C :
            /\ V[i] = Members[i] \cup {p} /\ \A j \in SLOTS \ {i} : V[j] = Members[j]
            /\ Transferred(r, C, V, lost, fd[0], Reach, i, p)
    BY <1>1, <1>2, <1>5, CallBegins
  <2>3. PICK C : /\ V[i] = Members[i] \cup {p} /\ \A j \in SLOTS \ {i} : V[j] = Members[j]
                 /\ Transferred(r, C, V, lost, fd[0], Reach, i, p)
    BY <2>2
  <2> QED
    BY <1>1, <1>2, <1>3, <2>1, <2>3, TransferKeeps
<1> QED
  BY <1>4, <1>5

LEMMA WritePipeKeeps ==
  ASSUME ShellInv, JobInv', ~hole, Roomy(kernel), NEW p \in Alive, NEW n \in WriteSizes,
         WritePipe(p, n)
  PROVE  CallsOK' /\ PipesInUse'
<1> DEFINE i == procs[p].output
<1>1. /\ ShellTypes /\ CallsOK /\ p \in Pids /\ procs \in [Pids -> ProcInfo]
      /\ Idle(p) /\ fd' = fd /\ lost' = lost /\ procs' = procs
      /\ procs[p].input = NO_PIPE \/ procs[p].output = NO_PIPE
      /\ n \in Nat \ {0} /\ FindPipe(kernel, i) # NO_PIPE
  BY PipeAssumption DEF ShellInv, JobInv, ShellTypes, CallsOK, ProcOK, Alive, WritePipe
<1>2. i \in SLOTS /\ Knows(procs[p]) = {i}
  BY <1>1 DEF ProcInfo, Knows, FindPipe, Claimed
<1>3. Alive' = Alive
  BY <1>1 DEF Alive
<1> PICK r : r = Advance(JoinPipe(kernel, p, i), p, Transfer("write", i, n, TRUE), 0)
  OBVIOUS
<1>4. kernel' = r.kernel /\ call' = [call EXCEPT ![p] = r.call]
  BY DEF WritePipe, Becomes
<1> HIDE DEF i
<1>5. PICK V \in UserSets : \E C :
          /\ V[i] = Members[i] \cup {p} /\ \A j \in SLOTS \ {i} : V[j] = Members[j]
          /\ Transferred(r, C, V, lost, fd[0], Reach, i, p)
  BY <1>1, <1>2, CallBegins
<1> PICK C : /\ V[i] = Members[i] \cup {p} /\ \A j \in SLOTS \ {i} : V[j] = Members[j]
             /\ Transferred(r, C, V, lost, fd[0], Reach, i, p)
  BY <1>5
<1>6. \A q \in Pids : procs'[q].input = procs[q].input /\ procs'[q].output = procs[q].output
  BY <1>1
<1> QED
  BY <1>1, <1>2, <1>3, <1>4, <1>6, TransferKeeps

LEMMA GoesOnKeeps ==
  ASSUME ShellInv, JobInv', NEW p \in Alive, GoesOn(p)
  PROVE  CallsOK' /\ PipesInUse'
<1>1. /\ ShellTypes /\ CallsOK /\ p \in Pids /\ p # 0 /\ ~Idle(p)
      /\ fd' = fd /\ lost' = lost /\ procs' = procs
      /\ KInv(kernel, Members, lost, fd[0], Reach)
  BY DEF ShellInv, JobInv, PipesInUse, Alive, Pids, GoesOn, Resume
<1> PICK c, r, P, h : c = call[p] /\ r = GoOn(kernel, p, c) /\ P = Reach /\ h = fd[0]
  OBVIOUS
<1>2. PICK i \in SLOTS : InCall(c, i) /\ Knows(procs[p]) = {i}
  BY <1>1, NobodyInside DEF CallsOK, ProcOK, Idle
<1>3. P[p] = {i}
  BY <1>1, <1>2, ReachOf DEF Reach, ShellTypes, Alive
<1>4. p \in Members[i]
  BY <1>1, <1>2, MembersNow
<1>5. Uses(kernel, Members, lost, h, P, i, p)
  BY <1>1, <1>3, <1>4 DEF Uses
<1>6. Transferred(r, Claimed(kernel), Members, lost, h, P, i, p)
  BY <1>2, <1>5, UserGoesOn
<1>7. kernel' = r.kernel /\ call' = [call EXCEPT ![p] = r.call]
  BY DEF GoesOn, Resume, Becomes
<1>8. Alive' = Alive /\ Members \in UserSets /\ Members[i] = Members[i] \cup {p}
  BY <1>1, <1>4, MembersNow DEF Alive
<1>9. \A q \in Pids : procs'[q].input = procs[q].input /\ procs'[q].output = procs[q].output
  BY <1>1
<1>10. Transferred(r, Claimed(kernel), Members, lost, fd[0], Reach, i, p)
  BY <1>6
<1> QED
  BY <1>1, <1>2, <1>7, <1>8, <1>9, <1>10, TransferKeeps

(* A process that ends leaves its pipe, lost if it was inside a transfer.  *)
LEMMA EndsKeeps ==
  ASSUME ShellInv, JobInv', NEW p \in Alive, Ends(p),
         KInv(kernel', Members, lost, fd[0], Reach)
  PROVE  CallsOK' /\ PipesInUse'
<1> PICK k, h : k = kernel' /\ h = fd[0]
  OBVIOUS
<1>1. /\ ShellTypes /\ ShellTypes' /\ CallsOK /\ p \in Pids /\ p # 0 /\ fd' = fd
      /\ procs' = [procs EXCEPT ![p] = Dead] /\ call' = [call EXCEPT ![p] = NoCall]
      /\ procs \in [Pids -> ProcInfo]
  BY DEF ShellInv, JobInv, ShellTypes, Alive, Pids, Ends
<1>2. /\ Alive' = Alive \ {p} /\ procs'[p] = Dead
      /\ \A q \in Pids \ {p} : procs'[q] = procs[q]
  BY <1>1, Dies
<1>3. /\ CallsOK' /\ call'[p] = NoCall /\ \A q \in Pids \ {p} : call'[q] = call[q]
  <2>1. ProcOK(procs'[p], p \in Alive', NoCall)
    BY <1>2 DEF ProcOK, Dead
  <2>2. \A q \in Pids \ {p} : /\ procs'[q].input = procs[q].input
                              /\ procs'[q].output = procs[q].output
                              /\ q \in Alive => q \in Alive'
    BY <1>2
  <2> QED
    BY <1>1, <2>1, <2>2, NobodyInside, CallChanges
<1>4. /\ Members \in UserSets
      /\ \A j \in SLOTS : \A q : q \in Members[j] <=>
            (q = 0 /\ fd[0] = j) \/ (q \in Pids /\ InCall(call[q], j))
  BY <1>1, MembersNow
<1>5. CASE Idle(p)
  <2>1. call[p] = NoCall /\ lost' = lost
    BY <1>1, <1>5, NobodyInside DEF Ends, CallsOK, ProcOK, Idle
  <2>2. \A j \in SLOTS : \A q : q \in Members[j] <=>
            (q = 0 /\ fd'[0] = j) \/ (q \in Pids /\ InCall(call'[q], j))
    BY <1>1, <1>3, <1>4, <2>1
  <2>3. Members' = Members
    BY <1>1, <1>3, <1>4, <2>2, MembersNext
  <2>4. KInv(k, Members, lost, h, Reach')
    <3>1. \A q \in Alive' : \A j \in SLOTS :
            (q \in Alive => j \in Knows(procs[q])) /\ (q \in Members[j] \/ j = h)
               => j \in Knows(procs'[q])
      BY <1>1, <1>2 DEF Alive
    <3> QED
      BY <1>1, <3>1, ReachNext
  <2> QED
    BY <1>1, <1>3, <2>1, <2>3, <2>4 DEF PipesInUse
<1>6. CASE ~Idle(p)
  <2>1. PICK i \in SLOTS : InCall(call[p], i) /\ Knows(procs[p]) = {i}
    BY <1>1, <1>6, NobodyInside DEF CallsOK, ProcOK, Idle
  <2>2. lost' = Missed(lost, i)
    BY <1>6, <2>1, NobodyInside DEF Ends, Missed
  <2> PICK U, P : U = Left(Members, i, p) /\ P = Reach
    OBVIOUS
  <2>3. P[p] = {i} /\ p \in Members[i]
    BY <1>1, <1>4, <2>1, ReachOf DEF Reach, ShellTypes, Alive
  <2>4. KInv(k, U, Missed(lost, i), h, P)
    <3>1. KInv(k, Members, lost, h, P) /\ (p # 0 => P[p] \subseteq {i})
          /\ (p = 0 => i = h) /\ (p = 0 => h = NO_PIPE) /\ (p # 0 => h = h)
      BY <1>1, <2>3
    <3> QED
      BY ONLY <2>3, <3>1, i \in SLOTS, U = Left(Members, i, p), UserIsLost
  <2>5. U \in UserSets
    BY <2>4 DEF KInv
  <2>6. \A j \in SLOTS : U[j] = IF j = i THEN Members[i] \ {p} ELSE Members[j]
    BY <1>4 DEF Left, UserSets
  <2>7. \A j \in SLOTS : InCall(call[p], j) => j = i
    BY <2>1, NobodyInside
  <2>8. \A j \in SLOTS : \A q : q \in U[j] <=>
            (q = 0 /\ fd'[0] = j) \/ (q \in Pids /\ InCall(call'[q], j))
    <3>1. ASSUME NEW j \in SLOTS, NEW q
          PROVE  q \in U[j] <=> (q = 0 /\ fd'[0] = j) \/ (q \in Pids /\ InCall(call'[q], j))
      <4>1. CASE q = p
        <5>1. q \notin U[j]
          BY <1>1, <1>4, <2>6, <2>7, <4>1
        <5>2. ~InCall(call'[q], j)
          BY <1>3, <4>1, NobodyInside
        <5> QED
          BY <1>1, <4>1, <5>1, <5>2
      <4>2. CASE q # p
        <5>1. q \in U[j] <=> q \in Members[j]
          BY <2>6, <4>2
        <5>2. q \in Pids => call'[q] = call[q]
          BY <1>3, <4>2
        <5> QED
          BY <1>1, <1>4, <5>1, <5>2
      <4> QED
        BY <4>1, <4>2
    <3> QED
      BY <3>1
  <2>9. Members' = U
    BY <1>1, <1>3, <2>5, <2>8, MembersNext
  <2>10. KInv(k, U, lost', h, Reach')
    <3>1. \A q \in Alive' : \A j \in SLOTS :
            (q \in Alive => j \in Knows(procs[q])) /\ (q \in U[j] \/ j = h)
               => j \in Knows(procs'[q])
      BY <1>1, <1>2 DEF Alive
    <3>2. KInv(k, U, lost', h, Reach)
      BY <2>2, <2>4
    <3> QED
      BY <1>1, <3>1, <3>2, ReachNext
  <2> QED
    BY <1>1, <1>3, <2>9, <2>10 DEF PipesInUse
<1> QED
  BY <1>5, <1>6

LEMMA ExitKeeps ==
  ASSUME ShellInv, JobInv', NEW p \in Alive, Exit(p)
  PROVE  CallsOK' /\ PipesInUse'
<1> PICK k, i : k = kernel' /\ i = procs[p].output
  OBVIOUS
<1>1. /\ KInv(kernel, Members, lost, fd[0], Reach) /\ k = Hangup(kernel, i) /\ Ends(p)
      /\ kernel \in KernelStates
  BY DEF ShellInv, PipesInUse, Exit, KInv
<1>2. CASE FindPipe(kernel, i) = NO_PIPE
  BY <1>1, <1>2, EndsKeeps DEF Hangup
<1>3. CASE FindPipe(kernel, i) # NO_PIPE
  <2>1. i \in SLOTS /\ k = SetEof(kernel, i)
    BY <1>1, <1>3 DEF FindPipe, Claimed, Hangup
  <2> PICK yes \in BOOLEAN : yes = TRUE
    OBVIOUS
  <2> DEFINE e == [Pipe(kernel, i) EXCEPT !.eof = yes]
  <2>2. Pipe(kernel, i) \in PipeRecord
    BY <1>1, <2>1, KernelFields
  <2>3. e \in PipeRecord /\ Alike(e, Pipe(kernel, i))
    <3> PICK f \in PipeRecord : f = Pipe(kernel, i)
      BY <2>2
    <3> DEFINE g == [f EXCEPT !.eof = yes]
    <3>1. /\ g \in PipeRecord /\ g.claimed = f.claimed /\ g.interested = f.interested
          /\ g.read_sem = f.read_sem /\ g.write_sem = f.write_sem /\ g.amount = f.amount
          /\ g.stored = f.stored /\ g.taken = f.taken /\ g.read_pos = f.read_pos
          /\ g.write_pos = f.write_pos /\ g.pipe = f.pipe
      BY DEF PipeRecord
    <3> HIDE DEF g
    <3>2. InOrder(g) = InOrder(f)
      BY <3>1 DEF InOrder
    <3>3. Alike(g, f)
      BY <3>1, <3>2 DEF Alike
    <3> QED
      BY <3>1, <3>3 DEF g
  <2> HIDE DEF e
  <2>4. k = With(kernel, i, e, kernel.active_pipes, kernel.sems, kernel.asleep)
    <3>1. k = [kernel EXCEPT !.pipeList[i].eof = yes]
      BY <2>1 DEF SetEof
    <3> QED
      BY <1>1, <2>1, <3>1 DEF KernelStates, With, e, Pipe
  <2>5. /\ k \in KernelStates /\ k.sems = kernel.sems /\ k.active_pipes = kernel.active_pipes
        /\ Pipe(k, i) = e /\ \A j \in SLOTS \ {i} : Pipe(k, j) = Pipe(kernel, j)
    BY <1>1, <2>1, <2>3, <2>4, KernelFields, KernelWith
  <2>6. \A j \in SLOTS : Alike(Pipe(k, j), Pipe(kernel, j))
    BY <2>3, <2>5 DEF Alike
  <2>7. KInv(k, Members, lost, fd[0], Reach)
    BY <1>1, <2>5, <2>6, StaysAlike
  <2> QED
    BY <1>1, <2>7, EndsKeeps
<1> QED
  BY <1>2, <1>3

LEMMA CtrlCKeeps ==
  ASSUME ShellInv, JobInv', CtrlC
  PROVE  CallsOK' /\ PipesInUse'
<1> PICK k, p : k = kernel' /\ p = Min(Foreground)
  OBVIOUS
<1>1. /\ KInv(kernel, Members, lost, fd[0], Reach) /\ Ends(p) /\ kernel \in KernelStates
      /\ k = [kernel EXCEPT !.asleep = kernel.asleep \ {p}]
  BY DEF ShellInv, PipesInUse, CtrlC, KInv
<1>2. p \in Alive
  <2>1. Foreground # {} /\ Foreground \subseteq Alive /\ Foreground \subseteq Nat
    BY ShellAssumption DEF CtrlC, Foreground, Alive, Pids
  <2> QED
    BY <2>1, MinOfNaturals
<1>3. /\ k \in KernelStates /\ k.sems = kernel.sems /\ k.active_pipes = kernel.active_pipes
      /\ k.pipeList = kernel.pipeList
  BY <1>1 DEF KernelStates
<1>4. \A j \in SLOTS : Alike(Pipe(k, j), Pipe(kernel, j))
  BY <1>3 DEF Alike, Pipe
<1>5. KInv(k, Members, lost, fd[0], Reach)
  BY <1>1, <1>3, <1>4, StaysAlike
<1> QED
  BY <1>1, <1>2, <1>5, EndsKeeps

-----------------------------------------------------------------------------
(* The theorems about the shell.                                           *)

LEMMA ShellStarts ==
  ASSUME ShellInit
  PROVE  ShellInv
<1> PICK k, h, P : k = kernel /\ h = NO_PIPE /\ P = Reach
  OBVIOUS
<1>1. JobInv
  BY JobAtStart
<1>2. /\ PipeInit /\ procs = [p \in Pids |-> Dead] /\ lost = [i \in SLOTS |-> 0]
      /\ kernel = Kernel0 /\ call = [p \in Procs |-> NoCall] /\ fd = [p \in Procs |-> NO_PIPE]
      /\ ~hole /\ hole \in BOOLEAN
  BY DEF ShellInit, PipeInit
<1>3. CallsOK
  <2>1. call \in [Procs -> Calls] /\ call[0] = NoCall /\ \A p \in Pids : call[p] = NoCall
    BY <1>2, NobodyInside, ShellAssumption DEF Pids
  <2>2. \A p \in Pids : fd[p] = NO_PIPE /\ procs[p].input = NO_PIPE
    BY <1>2 DEF Pids, Dead
  <2> QED
    BY <2>1, <2>2 DEF CallsOK, ProcOK
<1>4. k \in KernelStates
  BY <1>2, PipeStarts DEF PipeInv, KernelOK
<1>5. /\ k.sems.active = 0 /\ k.active_pipes = 0
      /\ \A s \in SEMS : k.sems.list[s].interested = {} /\ k.sems.list[s].name = NO_NAME
      /\ \A i \in SLOTS : Pipe(k, i) = FreePipe
  BY <1>2 DEF Kernel0, NoSemaphores, Pipe
<1>6. \A i \in SLOTS : ~Pipe(k, i).claimed
  BY <1>5 DEF FreePipe
<1>7. Claimed(k) = {} /\ OpenSems(k.sems) = {} /\ Cardinality({}) = 0
  BY <1>5, <1>6, FS_EmptySet DEF Claimed, OpenSems
<1>8. Tidy(k)
  <2>1. k.sems \in SemTables
    BY <1>4, KernelFields
  <2> QED
    BY <1>5, <1>7, <2>1 DEF Tidy, TableOK
<1>9. /\ Members \in UserSets /\ \A i \in SLOTS : Members[i] = {}
  <2>1. /\ Members \in UserSets
        /\ \A i \in SLOTS : \A p : p \in Members[i] <=>
               (p = 0 /\ fd[0] = i) \/ (p \in Pids /\ InCall(call[p], i))
    BY <1>1, <1>3, MembersNow DEF JobInv
  <2>2. \A p \in Pids : call[p] = NoCall
    BY <1>2 DEF Pids
  <2>3. fd[0] = NO_PIPE
    BY <1>2, ShellAssumption
  <2> QED
    BY <2>1, <2>2, <2>3, NobodyInside
<1>10. lost \in Losses /\ \A i \in SLOTS : lost[i] = 0
  BY <1>2 DEF Losses
<1>11. P \in Places /\ P[0] = SLOTS
  <2>1. procs \in [Pids -> ProcInfo] /\ Alive \in SUBSET Pids
    BY <1>1 DEF JobInv, ShellTypes, Alive
  <2> QED
    BY <2>1, ReachOf DEF Reach
<1>12. \A i \in SLOTS : OnePipe(k, i, Members[i], lost[i], h, P)
  BY <1>6, <1>9, <1>10 DEF OnePipe, Counted
<1>13. KInv(k, Members, lost, h, P)
  BY <1>4, <1>8, <1>9, <1>10, <1>11, <1>12 DEF KInv
<1>14. fd[0] = NO_PIPE
  BY <1>2, ShellAssumption
<1>15. InSight(kernel)
  BY <1>7 DEF InSight
<1> QED
  BY <1>1, <1>2, <1>3, <1>13, <1>14, <1>15 DEF ShellInv, PipesInUse

LEMMA ShellSteps ==
  ASSUME ShellInv, Roomy(kernel), Roomy(kernel'), [ShellNext]_shellVars
  PROVE  ShellInv'
<1>1. JobInv'
  BY JobStep DEF ShellInv
<1>2. CASE ShellNext
  <2>1. ~hole /\ ShellStep /\ hole' \in BOOLEAN /\ (hole' <=> ~InSight(kernel'))
    BY <1>2 DEF ShellNext
  <2>2. ASSUME NEW line \in Lines, Interpret(line) PROVE CallsOK' /\ PipesInUse'
    BY <1>1, <2>2, InterpretKeeps
  <2>3. ASSUME NEW p \in Alive, NEW n \in ReadSizes, ReadPipe(p, n)
        PROVE  CallsOK' /\ PipesInUse'
    BY <1>1, <2>1, <2>3, ReadPipeKeeps
  <2>4. ASSUME NEW p \in Alive, NEW n \in WriteSizes, WritePipe(p, n)
        PROVE  CallsOK' /\ PipesInUse'
    BY <1>1, <2>1, <2>4, WritePipeKeeps
  <2>5. ASSUME NEW p \in Alive, GoesOn(p) PROVE CallsOK' /\ PipesInUse'
    BY <1>1, <2>5, GoesOnKeeps
  <2>6. ASSUME NEW p \in Alive, Exit(p) PROVE CallsOK' /\ PipesInUse'
    BY <1>1, <2>6, ExitKeeps
  <2>7. CallsOK' /\ PipesInUse'
    BY <1>1, <2>1, <2>2, <2>3, <2>4, <2>5, <2>6, CreateAloneKeeps, CreateProducerKeeps,
       CreateConsumerKeeps, WaitedAloneKeeps, ClosesPipelineKeeps, CtrlCKeeps DEF ShellStep
  <2> QED
    BY <1>1, <2>1, <2>7 DEF ShellInv
<1>3. CASE UNCHANGED shellVars
  <2>1. /\ kernel' = kernel /\ call' = call /\ fd' = fd /\ procs' = procs /\ lost' = lost
        /\ hole' = hole
    BY <1>3 DEF shellVars
  <2>2. CallsOK' /\ PipesInUse'
    BY <2>1 DEF ShellInv, CallsOK, PipesInUse, Members, Reach, Alive
  <2> QED
    BY <1>1, <2>1, <2>2 DEF ShellInv
<1> QED
  BY <1>2, <1>3

(* As long as at most seven pipes are claimed at a time, the pipes of the  *)
(* shell are kept for their users, with processes that are killed, born    *)
(* again, and in the background.                                           *)
THEOREM ShellInvariance == ShellSpec /\ []Roomy(kernel) => []ShellInv
<1>1. ShellInit => ShellInv
  BY ShellStarts
<1>2. ShellInv /\ Roomy(kernel) /\ Roomy(kernel)' /\ [ShellNext]_shellVars => ShellInv'
  BY ShellSteps DEF Roomy
<1> QED
  BY <1>1, <1>2, PTL DEF ShellSpec

(* ... so a pipe counts exactly those that will close it and those that    *)
(* never will, who were killed in a transfer ...                           *)
THEOREM ShellIsSound == ShellSpec /\ []Roomy(kernel) => []ShellSound
<1>1. ShellInv => ShellSound
  <2> SUFFICES ASSUME ShellInv PROVE ShellSound
    OBVIOUS
  <2>1. /\ ShellTypes /\ CallsOK /\ KInv(kernel, Members, lost, fd[0], Reach)
        /\ kernel \in KernelStates /\ hole \in BOOLEAN
    BY DEF ShellInv, JobInv, PipesInUse, KInv
  <2>2. PipeTypeOK
    <3>1. /\ kernel.pipeList \in [SLOTS -> PipeRecord] /\ kernel.active_pipes \in 0..MAX_PIPES
          /\ kernel.asleep \subseteq Procs
      BY <2>1, KernelFields
    <3>2. \A p \in Procs : call[p].pos \in SLOTS \cup {NO_PIPE} /\ call[p].left \in Nat
      BY <2>1 DEF CallsOK, Calls
    <3> QED
      BY <2>1, <3>1, <3>2 DEF PipeTypeOK, ShellTypes
  <2>3. /\ job.pids \subseteq Pids
        /\ job.at \in {"prompt", "alone", "producer", "consumer", "waits", "pipeline"}
        /\ (fd[0] # NO_PIPE) = (job.at \in {"producer", "consumer", "pipeline"})
    BY <2>1 DEF ShellTypes, PLACES_OF_JOB
  <2>4. hole \in BOOLEAN
    BY <2>1
  <2>5. ShellTypeOK
    BY <2>1, <2>2, <2>3, <2>4 DEF ShellTypeOK, ShellTypes, ProcInfo
  <2>6. ASSUME NEW i \in Claimed(kernel)
        PROVE  Pipe(kernel, i).interested =
                 Cardinality({p \in Procs : fd[p] = i} \cup {p \in Pids : call[p].pos = i}) + lost[i]
    <3>1. i \in SLOTS /\ Pipe(kernel, i).claimed
      BY DEF Claimed
    <3>2. Members[i] = {p \in Procs : fd[p] = i} \cup {p \in Pids : call[p].pos = i}
      BY <3>1 DEF Members, UsersIn
    <3>3. Pipe(kernel, i).interested = Cardinality(Members[i]) + lost[i]
      BY <2>1, <3>1 DEF KInv, OnePipe, Counted
    <3> QED
      BY <3>2, <3>3
  <2> QED
    BY <2>5, <2>6 DEF ShellSound, InterestIsUsers
<1> QED
  BY <1>1, ShellInvariance, PTL

(* ... and the pipe of the pipeline that the shell is starting keeps its   *)
(* bytes in order and its semaphores count them.                           *)
THEOREM PipelinesAreInOrder == ShellSpec /\ []Roomy(kernel) => []PipelineInOrder
<1>1. ShellInv => PipelineInOrder
  <2> SUFFICES ASSUME ShellInv PROVE BytesInOrder /\ PermitsMatchBytes
    BY DEF PipelineInOrder
  <2>1. /\ ShellTypes /\ CallsOK /\ KInv(kernel, Members, lost, fd[0], Reach)
    BY DEF ShellInv, JobInv, PipesInUse
  <2>2. ASSUME NEW i \in Held
        PROVE  Kept(kernel, i)
    <3>1. i \in SLOTS /\ fd[0] = i
      <4>1. PICK p \in Procs : fd[p] = i /\ i \in SLOTS
        BY DEF Held
      <4>2. p \in Pids => fd[p] = NO_PIPE
        BY <2>1 DEF CallsOK
      <4> QED
        BY <4>1, <4>2, NobodyInside DEF Pids
    <3>2. Pipe(kernel, i).claimed
      BY <2>1, <3>1, NobodyInside DEF KInv
    <3> QED
      BY <2>1, <3>1, <3>2 DEF KInv, OnePipe, Holds
  <2> QED
    BY <2>2 DEF BytesInOrder, PermitsMatchBytes, Kept
<1> QED
  BY <1>1, ShellInvariance, PTL

=============================================================================
