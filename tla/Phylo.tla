--------------------------------- MODULE Phylo ---------------------------------
(***************************************************************************)
(* The dining philosophers (programs/phylo.c) over the kernel's semaphore  *)
(* table: philosophers who may be invited and excused while others eat, a  *)
(* mutex for the table and a semaphore for each seat.                      *)
(*                                                                         *)
(* A philosopher's pid is its seat: only the last seat is ever emptied,    *)
(* and its next philosopher gets the pid that was freed.  Whatever is done *)
(* between taking the mutex and posting it is one step.                    *)
(***************************************************************************)
EXTENDS SemTable, SequencesExt

CONSTANTS
    MAX_PHILOSOPHERS,
    MIN_PHILOSOPHERS,
    Arguments,              \* the numbers of philosophers the program is started with
    MAX_TURNS               \* a bound, by philosophers at the table: starts and commands so far

ASSUME PhyloAssumption ==
    /\ MIN_PHILOSOPHERS \in Nat \ {0} /\ MAX_PHILOSOPHERS \in Nat
    /\ MAX_SEMAPHORES > MAX_PHILOSOPHERS /\ MAX_OPEN > MAX_PHILOSOPHERS
    /\ Arguments \subseteq MIN_PHILOSOPHERS..MAX_PHILOSOPHERS

SEATS == 0..MAX_PHILOSOPHERS - 1
MAIN == MAX_PHILOSOPHERS
MUTEX == <<"phylo_mutex">>
SeatName(id) == <<"phy", id>>

VARIABLES
    table,      \* by seat, philosophers[id].state
    seat,       \* by seat, philosophers[id].sem
    mutex,
    num,        \* num_philosophers
    initial_philosophers,
    sems, asleep,
    at,         \* where each process is
    turns,      \* starts and commands so far
    leftover    \* history: a permit was granted to a philosopher who was killed before taking it

phyloVars == <<table, seat, mutex, num, initial_philosophers, sems, asleep, at, turns, leftover>>

LEFT(id, n) == (id + n - 1) % n
RIGHT(id, n) == (id + 1) % n

Awake(p) == p \notin asleep

-----------------------------------------------------------------------------
(* Semaphores.  A turn of sem_wait passes on to a place in the program, or *)
(* blocks and comes back for another turn; on a semaphore that p has not   *)
(* opened it fails, which nobody notices, and so does sem_post.            *)
MayUse(t, s, p) == s # NO_SEM /\ Interested(t, s, p)

WaitOn(s, p, next) ==
    IF MayUse(sems, s, p) /\ sems.list[s].sem_value <= 0
    THEN /\ sems' = EnqueueSem(sems, s, p)
         /\ asleep' = asleep \cup {p}
         /\ UNCHANGED at
    ELSE /\ sems' = IF MayUse(sems, s, p) THEN TakeSem(sems, s, 1) ELSE sems
         /\ at' = [at EXCEPT ![p] = next]
         /\ UNCHANGED asleep

(* What p posts in turn, and whom that wakes; the mutex comes last.        *)
Nothing(t) == [sems |-> t, woken |-> {}]

Post(acc, p, s) ==
    IF ~MayUse(acc.sems, s, p) THEN acc
    ELSE [sems |-> PostSem(acc.sems, s, 1), woken |-> acc.woken \cup WokenBy(acc.sems, s, 1)]

PostsMutex(acc, p) ==
    LET all == Post(acc, p, mutex)
    IN  sems' = all.sems /\ asleep' = asleep \ all.woken

-----------------------------------------------------------------------------
(* try_to_eat.                                                             *)

CanEat(t, id) ==
    t[id] = "hungry" /\ t[LEFT(id, num)] # "eating" /\ t[RIGHT(id, num)] # "eating"

TryToEat(t, id) == IF CanEat(t, id) THEN [t EXCEPT ![id] = "eating"] ELSE t

GrantedMut(t, id) == seat[id]

Granted(t, id) == IF CanEat(t, id) THEN seat[id] ELSE NO_SEM

(* philosopher_action: the semaphores it opens, whose ids it writes into   *)
(* the shared table, then its endless loop.                                *)
OpenSeat(acc, id, i) ==
    [sems |-> OpenSem(acc.sems, id, SeatName(i), 0),
     seat |-> [acc.seat EXCEPT ![i] = OpenedSem(acc.sems, id, SeatName(i), 0)]]

OpenSeats(acc, id, ids) ==
    LET opened[k \in 0..Len(ids)] == IF k = 0 THEN acc ELSE OpenSeat(opened[k - 1], id, ids[k])
    IN  opened[Len(ids)]

OtherSeats(id) ==
    IF id = 0 THEN [k \in 1..MAX_PHILOSOPHERS |-> k - 1]
    ELSE <<0, LEFT(id, MAX_PHILOSOPHERS), RIGHT(id, MAX_PHILOSOPHERS)>>

SitsDown(id) ==
    /\ at[id] = "comes"
    /\ LET own == OpenSeat([sems |-> sems, seat |-> seat], id, id)
           all == OpenSeats([own EXCEPT !.sems = OpenSem(own.sems, id, MUTEX, 1)], id, OtherSeats(id))
       IN  /\ OpenedSem(own.sems, id, MUTEX, 1) = mutex
           /\ sems' = all.sems /\ seat' = all.seat
    /\ at' = [at EXCEPT ![id] = "thinks"]
    /\ UNCHANGED <<table, mutex, num, asleep, turns, leftover>>

TakesMutex(id) ==
    /\ Awake(id)
    /\ \/ at[id] = "thinks" /\ WaitOn(mutex, id, "is hungry")
       \/ at[id] = "dines"  /\ WaitOn(mutex, id, "is done")
    /\ UNCHANGED <<table, seat, mutex, num, turns, leftover>>

GetsHungry(id) ==
    /\ at[id] = "is hungry"
    /\ LET hungry == [table EXCEPT ![id] = "hungry"]
       IN  /\ table' = TryToEat(hungry, id)
           /\ PostsMutex(Post(Nothing(sems), id, Granted(hungry, id)), id)
    /\ at' = [at EXCEPT ![id] = "waits"]
    /\ UNCHANGED <<seat, mutex, num, turns, leftover>>

Dines(id) ==
    /\ at[id] = "waits" /\ Awake(id)
    /\ WaitOn(seat[id], id, "dines")
    /\ UNCHANGED <<table, seat, mutex, num, turns, leftover>>

IsDone(id) ==
    /\ at[id] = "is done"
    /\ LET thinking == [table EXCEPT ![id] = "thinking"]
           left     == TryToEat(thinking, LEFT(id, num))
       IN  /\ table' = TryToEat(left, RIGHT(id, num))
           /\ PostsMutex(Post(Post(Nothing(sems), id, Granted(thinking, LEFT(id, num))),
                              id, Granted(left, RIGHT(id, num))), id)
    /\ at' = [at EXCEPT ![id] = "thinks"]
    /\ UNCHANGED <<seat, mutex, num, turns, leftover>>

-----------------------------------------------------------------------------
(* phylo: the process at the keyboard.                                     *)
Goes(place) == at' = [at EXCEPT ![MAIN] = place]

Begins ==
    /\ at[MAIN] = "over"
    /\ turns' = turns + 1
    /\ sems' = OpenSem(sems, MAIN, MUTEX, 1)
    /\ mutex' = OpenedSem(sems, MAIN, MUTEX, 1)
    /\ table' = [id \in SEATS |-> "none"]
    /\ seat' = [id \in SEATS |-> NO_SEM]
    /\ initial_philosophers' \in {n \in Arguments : turns < MAX_TURNS[n]}
    /\ Goes("setup")
    /\ UNCHANGED <<num, asleep, leftover>>

MayRemove == num > MIN_PHILOSOPHERS

Commands ==
    /\ at[MAIN] = "polls"
    /\ \/ num < MAX_PHILOSOPHERS /\ turns < MAX_TURNS[num + 1] /\ Goes("add")
       \/ MayRemove /\ Goes("remove")
       \/ Goes("ps")
       \/ Goes("quit")
    /\ turns < MAX_TURNS[num] /\ turns' = turns + 1
    /\ UNCHANGED <<table, seat, mutex, num, sems, asleep, leftover>>

Setup ==
    /\ at[MAIN] = "setup"
    /\ Goes(IF num < initial_philosophers THEN "add" ELSE "polls")
    /\ UNCHANGED <<table, seat, mutex, num, sems, asleep, turns, leftover>>

(* Every command takes the mutex first.                                    *)
MainTakesMutex ==
    /\ at[MAIN] \in {"add", "remove", "ps", "quit"} /\ Awake(MAIN)
    /\ WaitOn(mutex, MAIN, CASE at[MAIN] = "add" -> "adds" [] at[MAIN] = "remove" -> "removes"
                             [] at[MAIN] = "ps" -> "lists" [] at[MAIN] = "quit" -> "quits")
    /\ UNCHANGED <<table, seat, mutex, num, turns, leftover>>

PsListed ==
    /\ at[MAIN] = "lists"
    /\ PostsMutex(Nothing(sems), MAIN)
    /\ Goes("polls")
    /\ UNCHANGED <<table, seat, mutex, num, turns, leftover>>

(* add_philosopher, in the seat that is free.                              *)
AddPhilosopher ==
    /\ at[MAIN] = "adds"
    /\ PostsMutex(Nothing(OpenSem(sems, MAIN, SeatName(num), 0)), MAIN)
    /\ seat' = [seat EXCEPT ![num] = OpenedSem(sems, MAIN, SeatName(num), 0)]
    /\ table' = [table EXCEPT ![num] = "none"]
    /\ at' = [at EXCEPT ![num] = "comes", ![MAIN] = IF num + 1 < initial_philosophers
                                                      THEN "setup" ELSE "polls"]
    /\ num' = num + 1
    /\ UNCHANGED <<mutex, turns, leftover>>

(* remove_philosopher: it waits, on the very semaphore of the one who is   *)
(* to go, while that one keeps two neighbours apart.                       *)
LastSeat == num - 1

KeepsApartMut == FALSE

KeepsApart == table[LEFT(LastSeat, num)] = "eating" /\ table[RIGHT(LastSeat, num)] = "eating"

StandsBackMut ==
    /\ at[MAIN] = "removes" /\ KeepsApart
    /\ Goes("stands back")
    /\ UNCHANGED <<table, seat, mutex, num, sems, asleep, turns, leftover>>

StandsBack ==
    /\ at[MAIN] = "removes" /\ KeepsApart
    /\ PostsMutex(Nothing(sems), MAIN)
    /\ Goes("stands back")
    /\ UNCHANGED <<table, seat, mutex, num, turns, leftover>>

WaitsForSeat ==
    /\ at[MAIN] = "stands back" /\ Awake(MAIN)
    /\ WaitOn(seat[LastSeat], MAIN, "remove")
    /\ UNCHANGED <<table, seat, mutex, num, turns, leftover>>

Permit(id) == seat[id] # NO_SEM /\ sems.list[seat[id]].sem_value > 0

(* A semaphore in slot 0 is not closed.                                    *)
CloseSeat(t, s) == IF s > 0 THEN CloseSem(t, s, MAIN) ELSE t

RemovePhilosopher ==
    /\ at[MAIN] = "removes" /\ ~KeepsApart
    /\ LET left == Post(Nothing(CloseSeat(sems, seat[LastSeat])), MAIN, mutex)
       IN  sems' = left.sems /\ asleep' = asleep \ ({LastSeat} \cup left.woken)
    /\ table' = [table EXCEPT ![LastSeat] = "none"]
    /\ seat' = [seat EXCEPT ![LastSeat] = NO_SEM]
    /\ at' = [at EXCEPT ![LastSeat] = "gone", ![MAIN] = "polls"]
    /\ num' = num - 1
    /\ leftover' = (leftover \/ Permit(LastSeat))
    /\ UNCHANGED <<mutex, turns>>

(* The end of the feast.                                                   *)
Quits ==
    /\ at[MAIN] = "quits"
    /\ LET closed[k \in 0..num] ==
               IF k = 0 THEN sems ELSE CloseSeat(closed[k - 1], seat[num - k])
       IN  sems' = CloseSem(Post(Nothing(closed[num]), MAIN, mutex).sems, mutex, MAIN)
    /\ asleep' = {}
    /\ table' = [id \in SEATS |-> "none"]
    /\ seat' = [id \in SEATS |-> NO_SEM]
    /\ at' = [p \in SEATS \cup {MAIN} |-> IF p = MAIN THEN "over" ELSE "gone"]
    /\ num' = 0
    /\ leftover' = (leftover \/ \E id \in 0..LastSeat : Permit(id))
    /\ UNCHANGED <<mutex, turns>>

PhyloInit ==
    /\ table = [id \in SEATS |-> "none"]
    /\ seat = [id \in SEATS |-> NO_SEM]
    /\ mutex = NO_SEM
    /\ num = 0
    /\ initial_philosophers = 0
    /\ sems = NoSemaphores
    /\ asleep = {}
    /\ at = [p \in SEATS \cup {MAIN} |-> IF p = MAIN THEN "over" ELSE "gone"]
    /\ turns = 0
    /\ leftover = FALSE

(* A bound: what follows a semaphore out of sem_get's sight is not explored.*)
InSight == OpenSems(sems) \subseteq 0..sems.active - 1

PhyloStep ==
    \/ Begins
    \/ /\ \/ Setup \/ Commands \/ MainTakesMutex \/ PsListed \/ AddPhilosopher
          \/ StandsBack \/ WaitsForSeat \/ RemovePhilosopher \/ Quits
          \/ \E id \in SEATS :
                SitsDown(id) \/ TakesMutex(id) \/ GetsHungry(id) \/ Dines(id) \/ IsDone(id)
       /\ UNCHANGED initial_philosophers

PhyloNext == InSight /\ PhyloStep

PhyloSpec == PhyloInit /\ [][PhyloNext]_phyloVars

-----------------------------------------------------------------------------
(* Properties.                                                             *)

PhyloTypeOK ==
    /\ table \in [SEATS -> {"none", "thinking", "hungry", "eating"}]
    /\ num \in 0..MAX_PHILOSOPHERS
    /\ asleep \subseteq SEATS \cup {MAIN}
    /\ \A id \in SEATS : id >= num => at[id] = "gone"
    /\ at[MAIN] = "polls" => num >= MIN_PHILOSOPHERS
    /\ leftover \in BOOLEAN

(* Whoever is between taking the mutex and posting it, with philosophers   *)
(* killed while they wait for it and one feast after another, is alone.    *)
Inside == {p \in SEATS : at[p] \in {"is hungry", "is done"}}
          \cup {p \in {MAIN} : at[p] \in {"adds", "removes", "lists", "quits"}}

MutexHeldOnce ==
    at[MAIN] # "over" => sems.list[mutex].sem_value + Cardinality(Inside) = 1

(* The table and its mutex stay sound.                                     *)
PhyloSound == PhyloTypeOK /\ MutexHeldOnce

(* No two neighbours eat, while seats come and go and the ring of          *)
(* neighbours changes with them.                                           *)
NeighboursDoNotEat ==
    \A id \in 0..num - 1 :
        table[id] = "eating" /\ RIGHT(id, num) # id => table[RIGHT(id, num)] # "eating"

(* A philosopher dines only after the table has granted it, unless a       *)
(* permit was left in the semaphore of a seat by one who was killed before *)
(* taking it.                                                              *)
DinersAreGranted ==
    ~leftover => \A id \in SEATS : at[id] \in {"dines", "is done"} => table[id] = "eating"

=============================================================================
