----------------------------- MODULE Semaphores -----------------------------
(***************************************************************************)
(* The named semaphores of the kernel (Kernel/semaphores/semaphores.c)     *)
(* over the scheduler.                                                     *)
(*                                                                         *)
(* The calls run with interrupts masked and give every lock back before    *)
(* they yield, so between steps a lock is free, unless its semaphore was   *)
(* never opened: lock bytes start at 0, which means taken, and whoever     *)
(* grabs such a semaphore spins for ever (stuck).  sem_wait is cut at its  *)
(* yield: the rest, Resume, is all that can happen once the waiter is      *)
(* dispatched again.                                                       *)
(***************************************************************************)
EXTENDS Scheduler, SemTable

CONSTANTS
    Names,              \* names callers pass to sem_open
    InitValues,         \* initial values callers pass to sem_open
    SemArgs,            \* ids callers pass to the other calls
    Strays,             \* whether callers pass ids of semaphores they do not have open
    SpuriousArgs,       \* pids unblocked by others than sem_post
    Deaths,             \* whether processes die
    MaxValue,           \* bound: sem_post only below it
    MaxQueue            \* bound: sem_wait blocks only below it

ASSUME SemAssumption ==
    /\ MAX_OPEN = MAX_PROCESSES      \* sem_open counts against the wrong constant
    /\ NO_NAME \notin Names
    /\ InitValues \subseteq Int /\ SemArgs \subseteq Int /\ SpuriousArgs \subseteq Int
    /\ Strays \in BOOLEAN /\ Deaths \in BOOLEAN
    /\ MaxValue \in Nat /\ MaxQueue \in Nat

NOT_IN  == -1       \* inWait: not inside sem_wait

VARIABLES
    sems,           \* semaphoreList and active
    inWait,         \* the semaphore each process is waiting for
    stuck           \* somebody spins on a lock with interrupts masked

semVars == <<sched, sems, inWait, stuck>>

(* The pids the calls may store: a killed process calls as NO_PROC.        *)
Callers == PIDS \cup {NO_PROC}

Current == sched.currentPID

Value(s) == sems.list[s].sem_value
Queue(s) == sems.list[s].waiting

InSemWait == Current \in PIDS /\ inWait[Current] # NOT_IN

(* A process on the CPU may enter a call.                                  *)
MayCall == InSyscall /\ ~InSemWait /\ ~stuck

(* grab_semaphore on a valid id gets through, or never comes back.         *)
Grabs(s) == InRange(s) /\ sems.list[s].lock = 1
Spins(s) == InRange(s) /\ sems.list[s].lock = 0

-----------------------------------------------------------------------------
SemOpen(name, initValue) ==
    /\ MayCall
    /\ sems' = OpenSem(sems, Current, name, initValue)
    /\ UNCHANGED <<sched, inWait, stuck>>

SemClose(s) ==
    /\ MayCall
    /\ Grabs(s)
    /\ sems' = CloseSem(sems, s, Current)
    /\ UNCHANGED <<sched, inWait, stuck>>

WaitsFor(p, s) == inWait' = [q \in PIDS |-> IF q = p THEN s ELSE inWait[q]]

(* Blocking with the lock still held.                                      *)
EnqueueMut(s, p) ==
    /\ Len(Queue(s)) < MaxQueue
    /\ sems' = [EnqueueSem(sems, s, p) EXCEPT !.list[s].lock = 0]
    /\ sched' = YieldCpu(Block(sched, p))
    /\ WaitsFor(p, s)

Enqueue(s, p) ==
    /\ Len(Queue(s)) < MaxQueue
    /\ sems' = EnqueueSem(sems, s, p)
    /\ sched' = YieldCpu(Block(sched, p))
    /\ WaitsFor(p, s)

Take(s, p) ==
    /\ sems' = TakeSem(sems, s, 1)
    /\ WaitsFor(p, NOT_IN)
    /\ UNCHANGED sched

(* The loop of sem_wait, with the semaphore grabbed.                       *)
WaitTurn(s, p) == IF Value(s) <= 0 THEN Enqueue(s, p) ELSE Take(s, p)

SemWait(s) ==
    /\ MayCall
    /\ Grabs(s)
    /\ Interested(sems, s, Current)
    /\ WaitTurn(s, Current)
    /\ UNCHANGED stuck

(* An if in place of the loop: whatever woke the waiter lets it through.   *)
ResumeMut ==
    /\ InSemWait /\ ~stuck
    /\ Take(inWait[Current], Current)
    /\ UNCHANGED stuck

(* A waiter that has been dispatched grabs the semaphore again and looks   *)
(* at the value again.                                                     *)
Resume ==
    /\ InSemWait /\ ~stuck
    /\ Grabs(inWait[Current])
    /\ WaitTurn(inWait[Current], Current)
    /\ UNCHANGED stuck

(* Waking only on the step from zero, as if a value above it meant that    *)
(* nobody waits.                                                           *)
SemPostMut(s) ==
    /\ MayCall
    /\ Grabs(s)
    /\ Interested(sems, s, Current)
    /\ Value(s) < MaxValue
    /\ IF Queue(s) # <<>> /\ Value(s) = 0
       THEN /\ sems' = PostSem(sems, s, 1)
            /\ sched' = Unblock(sched, Head(Queue(s)))
       ELSE /\ sems' = TakeSem(sems, s, -1)
            /\ UNCHANGED sched
    /\ UNCHANGED <<inWait, stuck>>

SemPost(s) ==
    /\ MayCall
    /\ Grabs(s)
    /\ Interested(sems, s, Current)
    /\ Value(s) < MaxValue
    /\ sems' = PostSem(sems, s, 1)
    /\ sched' = IF Queue(s) = <<>> THEN sched ELSE Unblock(sched, Head(Queue(s)))
    /\ UNCHANGED <<inWait, stuck>>

(* Any call on a semaphore that was never opened: acquire retries for ever *)
(* and no interrupt can take the CPU away.                                 *)
SpinForever(s) ==
    /\ MayCall
    /\ Spins(s)
    /\ ~Strays => Interested(sems, s, Current)
    /\ stuck' = TRUE
    /\ UNCHANGED <<sched, sems, inWait>>

-----------------------------------------------------------------------------
(* The rest of the system: switches, new processes in the first free slot, *)
(* wake-ups from elsewhere, deaths.                                        *)
FreeSlots == {p \in PIDS : sched.rsp[p] = NULL}

Others ==
    \/ Tick
    \/ FreeSlots # {} /\ \E prio \in PriorityArgs : Create(Min(FreeSlots), prio)
    \/ \E p \in SpuriousArgs : Wake(p)

SystemStep ==
    /\ ~InSemWait /\ ~stuck
    /\ Others
    /\ UNCHANGED <<sems, inWait, stuck>>

(* kill by somebody else, and exit_process: neither touches a semaphore.   *)
Die ==
    /\ ~InSemWait /\ ~stuck
    /\ Deaths
    /\ \/ \E p \in PIDS \ {0} : /\ Kill({p})
                                /\ inWait' = [inWait EXCEPT ![p] = NOT_IN]
       \/ Exit /\ UNCHANGED inWait
    /\ UNCHANGED <<sems, stuck>>

SemInit ==
    /\ Init
    /\ sems = NoSemaphores
    /\ inWait = [p \in PIDS |-> NOT_IN]
    /\ stuck = FALSE

SemNext ==
    \/ \E name \in Names, v \in InitValues : SemOpen(name, v)
    \/ \E s \in SemArgs : SemClose(s)
    \/ \E s \in SemArgs : SemWait(s)
    \/ \E s \in SemArgs : SemPost(s)
    \/ \E s \in SemArgs : SpinForever(s)
    \/ Resume
    \/ SystemStep
    \/ Die

SemSpec == SemInit /\ [][SemNext]_semVars

(* The timer keeps interrupting and a resumed waiter goes on, unless       *)
(* somebody spins.                                                         *)
SemFairSpec == SemSpec /\ WF_semVars(SystemStep /\ Tick) /\ WF_semVars(Resume)

-----------------------------------------------------------------------------
(* Properties.                                                             *)

(* Types; sem_value is a natural number: nobody, woken by whatever, takes  *)
(* a permit that is not there.                                             *)
SemTypeOK ==
    /\ TypeOK
    /\ sems.list \in [SEMS -> Semaphore(Names, Callers)]
    /\ \A s \in SEMS : Value(s) \in Nat
    /\ sems.active \in 0..MAX_SEMAPHORES
    /\ inWait \in [PIDS -> SEMS \cup {NOT_IN}]
    /\ stuck \in BOOLEAN

(* active counts the open semaphores and stays within sem_open's limit;    *)
(* and a semaphore that somebody waits on is open for the waiter: it is    *)
(* not closed under a waiter's feet, nor its slot given to another.        *)
SlotsSound ==
    /\ sems.active = Cardinality(OpenSems(sems)) /\ sems.active <= MAX_PROCESSES
    /\ \A p \in PIDS : inWait[p] # NOT_IN => Interested(sems, inWait[p], p)

(* Processes inside sem_wait on s that sem_post has taken off the queue    *)
(* and that have not looked at the value yet.                              *)
Woken(s) == {p \in PIDS : inWait[p] = s
                          /\ \A i \in 1..Len(Queue(s)) :
                                 Queue(s)[i] # p}

(* No wake-up is lost: while processes sleep in the queue, every permit    *)
(* has a woken process on its way to take it.  Late callers of sem_wait    *)
(* may take the permit first; the woken process then queues again.         *)
NoLostWakeup ==
    \A s \in SEMS : Queue(s) # <<>>
                        => Value(s) <= Cardinality(Woken(s))

(* The queue holds exactly the sleeping waiters, each once, so it fits the *)
(* array of MAX_PROCESSES entries.                                         *)
QueueIsTheSleepers ==
    \A s \in SEMS :
        LET queue == Queue(s)
        IN  /\ \A i, j \in 1..Len(queue) : queue[i] = queue[j] => i = j
            /\ \A p \in PIDS : (\E i \in 1..Len(queue) : queue[i] = p)
                    <=> (inWait[p] = s /\ sched.status[p] = "BLOCKED")

(* "0 if successful, -1 if error" (semaphores.h, of every call): no call   *)
(* spins for ever on a lock with interrupts masked.                        *)
NobodySpins == ~stuck

(* The first slot as the semaphore its users see.                          *)
Counting == INSTANCE CountingSemaphore WITH
    Users   <- PIDS,
    open    <- sems.list[0].interested # {},
    value   <- sems.list[0].sem_value,
    waiters <- {p \in PIDS : inWait[p] = 0}

(* As long as nobody dies, the queue, the locks, the wake-ups and the      *)
(* scheduler together implement a counting semaphore: permits are taken    *)
(* once, only by those who ask, and do not lie idle beside a waiter.       *)
ImplementsCounting == Counting!SSpec

=============================================================================
