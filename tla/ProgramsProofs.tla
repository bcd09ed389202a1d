---------------------------- MODULE ProgramsProofs ----------------------------
(***************************************************************************)
(* Proofs about programs of userland and the disk utility.                 *)
(*                                                                         *)
(* The dining philosophers of programs/phylo.c: whatever the semaphores    *)
(* let through, no two neighbours eat, while seats come and go; the mutex  *)
(* of the table is held once; and nobody dines who was not granted it.     *)
(*                                                                         *)
(* The game of programs/eliminator.c: the types, that no pixel is entered  *)
(* twice and that two players never meet.                                  *)
(*                                                                         *)
(* cat, wc and filter of lib/commands.c: they do with all of their input   *)
(* what they are for, however it is cut into reads.                        *)
(*                                                                         *)
(* The disk utility of Bootloader/BMFS/bmfs.c: every file is found, once,  *)
(* and keeps what was written to it unless create was misled.              *)
(***************************************************************************)
EXTENDS Phylo, Eliminator, Streams, Bmfs, DataLemmas

-----------------------------------------------------------------------------
(* The philosophers.                                                       *)
States == {"none", "thinking", "hungry", "eating"}

PhyloPlaces == {"over", "setup", "polls", "add", "adds", "remove", "removes", "stands back",
           "ps", "lists", "quit", "quits", "gone", "comes", "thinks", "is hungry",
           "waits", "dines", "is done"}

(* The table t for n philosophers: no two neighbours eat.                  *)
Ring(t, n) ==
    \A id \in 0..n - 1 :
        t[id] = "eating" /\ RIGHT(id, n) # id => t[RIGHT(id, n)] # "eating"

(* How many sit at the table while the process at the keyboard is busy.    *)
Seated ==
    /\ at \in [SEATS \cup {MAIN} -> PhyloPlaces]
    /\ at[MAIN] # "over" => initial_philosophers \in Arguments
    /\ at[MAIN] \in {"add", "adds"} => num < MAX_PHILOSOPHERS
    /\ at[MAIN] \in {"polls", "ps", "lists"} => num >= MIN_PHILOSOPHERS
    /\ at[MAIN] \in {"remove", "removes", "stands back"} => num > MIN_PHILOSOPHERS

TableInv == PhyloTypeOK /\ Seated /\ Ring(table, num)

-----------------------------------------------------------------------------
(* The neighbours of a seat.                                               *)
LEMMA Neighbours ==
  ASSUME NEW n \in Nat \ {0}, NEW id \in 0..n - 1
  PROVE  /\ RIGHT(id, n) = IF id = n - 1 THEN 0 ELSE id + 1
         /\ LEFT(id, n) = IF id = 0 THEN n - 1 ELSE id - 1
<1>1. ASSUME NEW a \in Nat, a < n PROVE a % n = a /\ (a + n) % n = a
  BY <1>1
<1>2. RIGHT(id, n) = IF id = n - 1 THEN 0 ELSE id + 1
  <2>1. CASE id = n - 1
    BY <1>1, <2>1 DEF RIGHT
  <2>2. CASE id # n - 1
    BY <1>1, <2>2 DEF RIGHT
  <2> QED
    BY <2>1, <2>2
<1>3. LEFT(id, n) = IF id = 0 THEN n - 1 ELSE id - 1
  <2>1. CASE id = 0
    BY <1>1, <2>1 DEF LEFT
  <2>2. CASE id # 0
    BY <1>1, <2>2 DEF LEFT
  <2> QED
    BY <2>1, <2>2
<1> QED
  BY <1>2, <1>3

LEMMA Around ==
  ASSUME NEW n \in Nat \ {0}, NEW id \in 0..n - 1
  PROVE  /\ RIGHT(id, n) \in 0..n - 1 /\ LEFT(id, n) \in 0..n - 1
         /\ \A j \in 0..n - 1 : RIGHT(j, n) = id => j = LEFT(id, n)
BY Neighbours

(* try_to_eat keeps neighbours apart.                                      *)
LEMMA TryKeepsRing ==
  ASSUME NEW t \in [SEATS -> States], num \in 1..MAX_PHILOSOPHERS, NEW id \in 0..num - 1,
         Ring(t, num)
  PROVE  TryToEat(t, id) \in [SEATS -> States] /\ Ring(TryToEat(t, id), num)
<1>1. id \in SEATS /\ num \in Nat \ {0}
  BY PhyloAssumption DEF SEATS
<1>2. CASE ~CanEat(t, id)
  BY <1>2 DEF TryToEat
<1>3. CASE CanEat(t, id)
  <2> DEFINE u == [t EXCEPT ![id] = "eating"]
  <2>1. u \in [SEATS -> States] /\ u[id] = "eating" /\ \A j \in SEATS : j # id => u[j] = t[j]
    BY <1>1 DEF States
  <2> HIDE DEF u
  <2>2. ASSUME NEW j \in 0..num - 1, u[j] = "eating", RIGHT(j, num) # j
        PROVE  u[RIGHT(j, num)] # "eating"
    <3>1. j \in SEATS /\ RIGHT(j, num) \in SEATS
      <4>1. RIGHT(j, num) \in 0..num - 1
        BY <1>1, <2>2, Around
      <4> QED
        BY <2>2, <4>1, PhyloAssumption DEF SEATS
    <3>2. CASE j = id
      BY <1>3, <2>1, <2>2, <3>1, <3>2 DEF CanEat
    <3>3. CASE j # id /\ RIGHT(j, num) = id
      <4>1. j = LEFT(id, num)
        BY <1>1, <3>3, Around
      <4> QED
        BY <1>3, <2>1, <2>2, <3>1, <3>3, <4>1 DEF CanEat
    <3>4. CASE j # id /\ RIGHT(j, num) # id
      BY <2>1, <2>2, <3>1, <3>4 DEF Ring
    <3> QED
      BY <3>2, <3>3, <3>4
  <2>3. Ring(u, num)
    BY <2>2 DEF Ring
  <2>4. TryToEat(t, id) = u
    BY <1>3 DEF TryToEat, u
  <2> QED
    BY <2>1, <2>3, <2>4
<1> QED
  BY <1>2, <1>3

(* Who does not eat is nobody's neighbour who eats.                        *)
LEMMA FastingKeepsRing ==
  ASSUME NEW t \in [SEATS -> States], NEW n \in 0..MAX_PHILOSOPHERS, NEW id \in SEATS,
         NEW s \in States \ {"eating"}, Ring(t, n)
  PROVE  [t EXCEPT ![id] = s] \in [SEATS -> States] /\ Ring([t EXCEPT ![id] = s], n)
<1> DEFINE u == [t EXCEPT ![id] = s]
<1>1. /\ u \in [SEATS -> States]
      /\ \A j \in SEATS : u[j] = "eating" => t[j] = "eating"
  BY DEF States
<1> HIDE DEF u
<1>2. ASSUME NEW j \in 0..n - 1, u[j] = "eating", RIGHT(j, n) # j
      PROVE  u[RIGHT(j, n)] # "eating"
  <2>1. n \in Nat \ {0} /\ j \in SEATS
    BY PhyloAssumption DEF SEATS
  <2>2. RIGHT(j, n) \in SEATS
    <3>1. RIGHT(j, n) \in 0..n - 1
      BY <1>2, <2>1, Around
    <3> QED
      BY <3>1, PhyloAssumption DEF SEATS
  <2> QED
    BY <1>1, <1>2, <2>1, <2>2 DEF Ring
<1>3. Ring(u, n)
  BY <1>2 DEF Ring
<1> QED
  BY <1>1, <1>3 DEF u


-----------------------------------------------------------------------------
(* A turn of sem_wait moves a process on or puts it to sleep.              *)
LEMMA WaitMoves ==
  ASSUME NEW s, NEW p, NEW next, WaitOn(s, p, next)
  PROVE  \/ at' = at /\ asleep' = asleep \cup {p}
         \/ at' = [at EXCEPT ![p] = next] /\ asleep' = asleep
BY DEF WaitOn

(* The process at the keyboard has no seat.                                *)
LEMMA MainStands ==
  ASSUME TableInv
  PROVE  /\ MAIN \notin SEATS /\ SEATS \subseteq Nat /\ MAIN \in Nat
         /\ num \in 0..MAIN /\ \A id \in SEATS : id >= num => at[id] = "gone"
         /\ \A id \in 0..num - 1 : id \in SEATS
BY PhyloAssumption DEF TableInv, PhyloTypeOK, SEATS, MAIN

(* One process moving on, or falling asleep, while the table stays as it   *)
(* is.                                                                     *)
LEMMA MovesKeep ==
  ASSUME TableInv, UNCHANGED <<table, num, leftover, initial_philosophers>>,
         asleep' \subseteq SEATS \cup {MAIN},
         NEW p \in SEATS, p < num, NEW next \in PhyloPlaces,
         at' = at \/ at' = [at EXCEPT ![p] = next]
  PROVE  TableInv'
<1>1. MAIN \notin SEATS /\ SEATS \subseteq Int /\ num \in Nat
  BY MainStands
<1>2. at \in [SEATS \cup {MAIN} -> PhyloPlaces]
  BY DEF TableInv, Seated
<1>3. /\ at' \in [SEATS \cup {MAIN} -> PhyloPlaces] /\ at'[MAIN] = at[MAIN]
      /\ \A id \in SEATS : id # p => at'[id] = at[id]
  BY <1>1, <1>2
<1>4. PhyloTypeOK'
  <2>1. \A id \in SEATS : id >= num' => at'[id] = "gone"
    BY <1>1, <1>3 DEF TableInv, PhyloTypeOK
  <2> QED
    BY <1>3, <2>1 DEF TableInv, PhyloTypeOK
<1>5. Seated'
  BY <1>3 DEF TableInv, Seated
<1>6. Ring(table, num)'
  BY DEF TableInv, Ring, RIGHT
<1> QED
  BY <1>4, <1>5, <1>6 DEF TableInv

LEMMA TableChanges ==
  ASSUME TableInv, UNCHANGED <<num, leftover, initial_philosophers>>,
         asleep' \subseteq SEATS \cup {MAIN},
         table' \in [SEATS -> States], Ring(table', num),
         NEW p \in SEATS, p < num, NEW next \in PhyloPlaces, at' = [at EXCEPT ![p] = next]
  PROVE  TableInv'
<1>1. MAIN \notin SEATS /\ SEATS \subseteq Int /\ num \in Nat
  BY MainStands
<1>2. at \in [SEATS \cup {MAIN} -> PhyloPlaces]
  BY DEF TableInv, Seated
<1>3. /\ at' \in [SEATS \cup {MAIN} -> PhyloPlaces] /\ at'[MAIN] = at[MAIN]
      /\ \A id \in SEATS : id # p => at'[id] = at[id]
  BY <1>1, <1>2
<1>4. PhyloTypeOK'
  <2>1. \A id \in SEATS : id >= num' => at'[id] = "gone"
    BY <1>1, <1>3 DEF TableInv, PhyloTypeOK
  <2> QED
    BY <1>3, <2>1 DEF TableInv, PhyloTypeOK, States
<1>5. Seated'
  BY <1>3 DEF TableInv, Seated
<1>6. Ring(table, num)'
  BY DEF TableInv, Ring, RIGHT
<1> QED
  BY <1>4, <1>5, <1>6 DEF TableInv

LEMMA MainSleeps ==
  ASSUME TableInv, UNCHANGED <<table, num, leftover, at, initial_philosophers>>,
         asleep' \subseteq SEATS \cup {MAIN}
  PROVE  TableInv'
<1>1. PhyloTypeOK'
  BY DEF TableInv, PhyloTypeOK
<1>2. Seated'
  BY DEF TableInv, Seated
<1>3. Ring(table, num)'
  BY DEF TableInv, Ring, RIGHT
<1> QED
  BY <1>1, <1>2, <1>3 DEF TableInv

LEMMA MainGoes ==
  ASSUME TableInv, UNCHANGED <<table, num, leftover, initial_philosophers>>,
         asleep' \subseteq SEATS \cup {MAIN},
         NEW next \in PhyloPlaces, at' = [at EXCEPT ![MAIN] = next],
         next # "over" => initial_philosophers \in Arguments,
         next \in {"add", "adds"} => num < MAX_PHILOSOPHERS,
         next \in {"polls", "ps", "lists"} => num >= MIN_PHILOSOPHERS,
         next \in {"remove", "removes", "stands back"} => num > MIN_PHILOSOPHERS
  PROVE  TableInv'
<1>1. MAIN \notin SEATS
  BY MainStands
<1>2. at \in [SEATS \cup {MAIN} -> PhyloPlaces]
  BY DEF TableInv, Seated
<1>3. /\ at' \in [SEATS \cup {MAIN} -> PhyloPlaces] /\ at'[MAIN] = next
      /\ \A id \in SEATS : at'[id] = at[id]
  BY <1>1, <1>2
<1>4. PhyloTypeOK'
  BY <1>3 DEF TableInv, PhyloTypeOK
<1>5. Seated'
  BY <1>3 DEF Seated
<1>6. Ring(table, num)'
  BY DEF TableInv, Ring, RIGHT
<1> QED
  BY <1>4, <1>5, <1>6 DEF TableInv

(* The turns of sem_wait of a philosopher and of the process at the        *)
(* keyboard.                                                               *)
LEMMA PhilosopherWaits ==
  ASSUME TableInv, UNCHANGED <<table, num, leftover, initial_philosophers>>,
         NEW s, NEW p \in SEATS, at[p] # "gone", NEW next \in PhyloPlaces, WaitOn(s, p, next)
  PROVE  TableInv'
<1>1. p < num
  BY MainStands
<1>2. asleep' \subseteq SEATS \cup {MAIN}
  BY WaitMoves DEF TableInv, PhyloTypeOK
<1>3. at' = at \/ at' = [at EXCEPT ![p] = next]
  BY WaitMoves
<1> QED
  BY <1>1, <1>2, <1>3, MovesKeep

LEMMA MainWaits ==
  ASSUME TableInv, UNCHANGED <<table, num, leftover, initial_philosophers>>,
         NEW s, NEW next \in PhyloPlaces, WaitOn(s, MAIN, next), next # "over",
         initial_philosophers \in Arguments,
         next \in {"add", "adds"} => num < MAX_PHILOSOPHERS,
         next \in {"polls", "ps", "lists"} => num >= MIN_PHILOSOPHERS,
         next \in {"remove", "removes", "stands back"} => num > MIN_PHILOSOPHERS
  PROVE  TableInv'
<1>1. asleep' \subseteq SEATS \cup {MAIN}
  BY WaitMoves DEF TableInv, PhyloTypeOK
<1>2. at' = at \/ at' = [at EXCEPT ![MAIN] = next]
  BY Zenon DEF WaitOn
<1>3. CASE at' = at
  BY <1>1, <1>3, MainSleeps
<1>4. CASE at' = [at EXCEPT ![MAIN] = next]
  BY <1>1, <1>4, MainGoes
<1> QED
  BY <1>2, <1>3, <1>4


-----------------------------------------------------------------------------
(* The steps of a philosopher.                                             *)
LEMMA PhilosopherSteps ==
  ASSUME TableInv, NEW id \in SEATS, UNCHANGED initial_philosophers,
         SitsDown(id) \/ TakesMutex(id) \/ GetsHungry(id) \/ Dines(id) \/ IsDone(id)
  PROVE  TableInv'
<1>1. /\ at[id] # "gone" => id \in 0..num - 1 /\ id < num /\ num \in 1..MAX_PHILOSOPHERS
      /\ num \in 0..MAX_PHILOSOPHERS
  BY MainStands DEF MAIN
<1>2. /\ table \in [SEATS -> States] /\ Ring(table, num) /\ asleep \subseteq SEATS \cup {MAIN}
  BY DEF TableInv, PhyloTypeOK, States
<1>3. CASE SitsDown(id)
  <2>1. /\ UNCHANGED <<table, num, leftover, asleep>> /\ at[id] = "comes"
        /\ at' = [at EXCEPT ![id] = "thinks"]
    BY <1>3 DEF SitsDown
  <2> QED
    <3>1. id < num /\ "thinks" \in PhyloPlaces /\ asleep' \subseteq SEATS \cup {MAIN}
      BY <1>1, <1>2, <2>1 DEF PhyloPlaces
    <3> QED
      BY <2>1, <3>1, MovesKeep
<1>4. CASE TakesMutex(id)
  <2>1. /\ UNCHANGED <<table, num, leftover>> /\ at[id] # "gone"
        /\ WaitOn(mutex, id, "is hungry") \/ WaitOn(mutex, id, "is done")
    BY <1>4 DEF TakesMutex
  <2>2. "is hungry" \in PhyloPlaces /\ "is done" \in PhyloPlaces
    BY DEF PhyloPlaces
  <2> QED
    BY <2>1, <2>2, PhilosopherWaits
<1>5. CASE Dines(id)
  <2>1. /\ UNCHANGED <<table, num, leftover>> /\ at[id] # "gone"
        /\ WaitOn(seat[id], id, "dines")
    BY <1>5 DEF Dines
  <2>2. "dines" \in PhyloPlaces
    BY DEF PhyloPlaces
  <2> QED
    BY <2>1, <2>2, PhilosopherWaits
<1>6. CASE GetsHungry(id)
  <2> DEFINE hungry == [table EXCEPT ![id] = "hungry"]
  <2>1. /\ at[id] = "is hungry" /\ table' = TryToEat(hungry, id)
        /\ at' = [at EXCEPT ![id] = "waits"] /\ UNCHANGED <<num, leftover>>
        /\ asleep' \subseteq asleep
    BY <1>6 DEF GetsHungry, PostsMutex
  <2>2. hungry \in [SEATS -> States] /\ Ring(hungry, num)
    BY <1>1, <1>2, FastingKeepsRing DEF States
  <2> HIDE DEF hungry
  <2>3. table' \in [SEATS -> States] /\ Ring(table', num)
    BY <1>1, <2>1, <2>2, TryKeepsRing
  <2> QED
    <3>1. id < num /\ "waits" \in PhyloPlaces /\ asleep' \subseteq SEATS \cup {MAIN}
      BY <1>1, <1>2, <2>1 DEF PhyloPlaces
    <3> QED
      BY ONLY TableInv, UNCHANGED initial_philosophers, id \in SEATS,
              <2>1, <2>3, <3>1, TableChanges
<1>7. CASE IsDone(id)
  <2> DEFINE thinking == [table EXCEPT ![id] = "thinking"]
             left == TryToEat(thinking, LEFT(id, num))
  <2>1. /\ at[id] = "is done" /\ table' = TryToEat(left, RIGHT(id, num))
        /\ at' = [at EXCEPT ![id] = "thinks"] /\ UNCHANGED <<num, leftover>>
        /\ asleep' \subseteq asleep
    BY <1>7 DEF IsDone, PostsMutex
  <2>2. thinking \in [SEATS -> States] /\ Ring(thinking, num)
    BY <1>1, <1>2, FastingKeepsRing DEF States
  <2>3. LEFT(id, num) \in 0..num - 1 /\ RIGHT(id, num) \in 0..num - 1
    <3>1. num \in Nat \ {0} /\ id \in 0..num - 1
      <4>1. at[id] # "gone"
        BY <1>7 DEF IsDone
      <4> QED
        BY ONLY <4>1, <1>1, PhyloAssumption
    <3> QED
      BY <3>1, Around
  <2> HIDE DEF thinking
  <2>4. left \in [SEATS -> States] /\ Ring(left, num)
    BY <1>1, <2>1, <2>2, <2>3, TryKeepsRing
  <2> HIDE DEF left
  <2>5. table' \in [SEATS -> States] /\ Ring(table', num)
    BY <1>1, <2>1, <2>3, <2>4, TryKeepsRing
  <2> QED
    <3>1. id < num /\ "thinks" \in PhyloPlaces /\ asleep' \subseteq SEATS \cup {MAIN}
      BY <1>1, <1>2, <2>1 DEF PhyloPlaces
    <3> QED
      BY <2>1, <2>5, <3>1, TableChanges
<1> QED
  BY <1>3, <1>4, <1>5, <1>6, <1>7


-----------------------------------------------------------------------------
(* The steps of the process at the keyboard.                               *)
LEMMA MainGoesOn ==
  ASSUME TableInv, UNCHANGED initial_philosophers,
         Setup \/ Commands \/ MainTakesMutex \/ PsListed \/ StandsBack \/ WaitsForSeat
  PROVE  TableInv'
<1>1. /\ num \in Nat /\ MAX_PHILOSOPHERS \in Nat /\ MIN_PHILOSOPHERS \in Nat
      /\ asleep \subseteq SEATS \cup {MAIN}
      /\ \A n \in Arguments : n \in MIN_PHILOSOPHERS..MAX_PHILOSOPHERS
  BY PhyloAssumption DEF TableInv, PhyloTypeOK
<1>2. CASE Setup
  <2>1. /\ at[MAIN] = "setup" /\ UNCHANGED <<table, num, leftover, asleep>>
        /\ at' = [at EXCEPT ![MAIN] = IF num < initial_philosophers THEN "add" ELSE "polls"]
    BY <1>2 DEF Setup, Goes
  <2>2. initial_philosophers \in Arguments
    BY <2>1 DEF TableInv, Seated
  <2>3. CASE num < initial_philosophers
    <3>1. num < MAX_PHILOSOPHERS /\ "add" \in PhyloPlaces /\ at' = [at EXCEPT ![MAIN] = "add"]
      BY <1>1, <2>1, <2>2, <2>3 DEF PhyloPlaces
    <3> QED
      BY <1>1, <2>1, <2>2, <3>1, MainGoes
  <2>4. CASE ~(num < initial_philosophers)
    <3>1. num >= MIN_PHILOSOPHERS /\ "polls" \in PhyloPlaces /\ at' = [at EXCEPT ![MAIN] = "polls"]
      BY <1>1, <2>1, <2>2, <2>4 DEF PhyloPlaces
    <3> QED
      BY <1>1, <2>1, <2>2, <3>1, MainGoes
  <2> QED
    BY <2>3, <2>4
<1>3. CASE Commands
  <2>1. /\ at[MAIN] = "polls" /\ UNCHANGED <<table, num, leftover, asleep>>
        /\ \E next \in {"add", "remove", "ps", "quit"} :
              /\ at' = [at EXCEPT ![MAIN] = next]
              /\ next = "add" => num < MAX_PHILOSOPHERS
              /\ next = "remove" => num > MIN_PHILOSOPHERS
    BY <1>3 DEF Commands, Goes, MayRemove
  <2>2. PICK next \in {"add", "remove", "ps", "quit"} :
              /\ at' = [at EXCEPT ![MAIN] = next]
              /\ next = "add" => num < MAX_PHILOSOPHERS
              /\ next = "remove" => num > MIN_PHILOSOPHERS
    BY <2>1
  <2>3. initial_philosophers \in Arguments /\ num >= MIN_PHILOSOPHERS /\ next \in PhyloPlaces
    BY <2>1 DEF TableInv, Seated, PhyloPlaces
  <2> QED
    BY <1>1, <2>1, <2>2, <2>3, MainGoes
<1>4. CASE MainTakesMutex
  <2>1. /\ UNCHANGED <<table, num, leftover>>
        /\ \E next \in {"adds", "removes", "lists", "quits"} :
              /\ WaitOn(mutex, MAIN, next)
              /\ next = "adds" => at[MAIN] = "add"
              /\ next = "removes" => at[MAIN] = "remove"
              /\ next = "lists" => at[MAIN] = "ps"
        /\ at[MAIN] \in {"add", "remove", "ps", "quit"}
    BY <1>4 DEF MainTakesMutex
  <2>2. PICK next \in {"adds", "removes", "lists", "quits"} :
              /\ WaitOn(mutex, MAIN, next)
              /\ next = "adds" => at[MAIN] = "add"
              /\ next = "removes" => at[MAIN] = "remove"
              /\ next = "lists" => at[MAIN] = "ps"
    BY <2>1
  <2>3. /\ initial_philosophers \in Arguments /\ next \in PhyloPlaces
        /\ next = "adds" => num < MAX_PHILOSOPHERS
        /\ next = "removes" => num > MIN_PHILOSOPHERS
        /\ next = "lists" => num >= MIN_PHILOSOPHERS
    BY <2>1, <2>2 DEF TableInv, Seated, PhyloPlaces
  <2> QED
    BY <2>1, <2>2, <2>3, MainWaits
<1>5. CASE PsListed
  <2>1. /\ at[MAIN] = "lists" /\ UNCHANGED <<table, num, leftover>>
        /\ at' = [at EXCEPT ![MAIN] = "polls"] /\ asleep' \subseteq asleep
    BY <1>5 DEF PsListed, Goes, PostsMutex
  <2>2. initial_philosophers \in Arguments /\ num >= MIN_PHILOSOPHERS /\ "polls" \in PhyloPlaces
    BY <2>1 DEF TableInv, Seated, PhyloPlaces
  <2> QED
    BY <1>1, <2>1, <2>2, MainGoes
<1>6. CASE StandsBack
  <2>1. /\ at[MAIN] = "removes" /\ UNCHANGED <<table, num, leftover>>
        /\ at' = [at EXCEPT ![MAIN] = "stands back"] /\ asleep' \subseteq asleep
    BY <1>6 DEF StandsBack, Goes, PostsMutex
  <2>2. initial_philosophers \in Arguments /\ num > MIN_PHILOSOPHERS /\ "stands back" \in PhyloPlaces
    BY <2>1 DEF TableInv, Seated, PhyloPlaces
  <2> QED
    BY <1>1, <2>1, <2>2, MainGoes
<1>7. CASE WaitsForSeat
  <2>1. /\ at[MAIN] = "stands back" /\ UNCHANGED <<table, num, leftover>>
        /\ WaitOn(seat[LastSeat], MAIN, "remove")
    BY <1>7 DEF WaitsForSeat
  <2>2. initial_philosophers \in Arguments /\ num > MIN_PHILOSOPHERS /\ "remove" \in PhyloPlaces
    BY <2>1 DEF TableInv, Seated, PhyloPlaces
  <2> QED
    BY <2>1, <2>2, MainWaits
<1> QED
  BY <1>2, <1>3, <1>4, <1>5, <1>6, <1>7


(* A seat more: between the last and the first, for one who does not eat.  *)
LEMMA SeatAdded ==
  ASSUME TableInv, UNCHANGED initial_philosophers, AddPhilosopher
  PROVE  TableInv'
<1>1. /\ MAIN \notin SEATS /\ SEATS \subseteq Nat /\ num \in Nat /\ num < MAIN /\ MAIN \in Nat
      /\ \A id \in SEATS : id >= num => at[id] = "gone"
      /\ MIN_PHILOSOPHERS \in Nat
  BY MainStands, PhyloAssumption DEF TableInv, Seated, AddPhilosopher, MAIN
<1>2. num \in SEATS /\ \A id \in 0..num : id \in SEATS
  BY <1>1 DEF SEATS, MAIN
<1>3. /\ at \in [SEATS \cup {MAIN} -> PhyloPlaces] /\ at[MAIN] = "adds"
      /\ initial_philosophers \in Arguments
      /\ table \in [SEATS -> States] /\ Ring(table, num)
  BY DEF TableInv, PhyloTypeOK, Seated, AddPhilosopher, States
<1>4. /\ table' = [table EXCEPT ![num] = "none"] /\ num' = num + 1 /\ leftover' = leftover
      /\ asleep' \subseteq asleep
      /\ at' = [at EXCEPT ![num] = "comes", ![MAIN] = IF num + 1 < initial_philosophers
                                                        THEN "setup" ELSE "polls"]
  BY DEF AddPhilosopher, PostsMutex
<1>5. /\ at'[MAIN] = IF num + 1 < initial_philosophers THEN "setup" ELSE "polls"
      /\ \A id \in SEATS : id # num => at'[id] = at[id]
      /\ at' \in [SEATS \cup {MAIN} -> PhyloPlaces]
  BY <1>1, <1>2, <1>3, <1>4 DEF PhyloPlaces
<1>6. /\ table'[num] = "none" /\ \A id \in SEATS : id # num => table'[id] = table[id]
      /\ table' \in [SEATS -> States]
  BY <1>2, <1>3, <1>4 DEF States
<1>7. PhyloTypeOK'
  <2>1. \A id \in SEATS : id >= num' => at'[id] = "gone"
    BY <1>1, <1>4, <1>5
  <2>2. num' \in 0..MAX_PHILOSOPHERS
    BY <1>1, <1>4 DEF MAIN
  <2>3. at'[MAIN] = "polls" => num' >= MIN_PHILOSOPHERS
    BY <1>1, <1>3, <1>4, <1>5, PhyloAssumption
  <2> QED
    BY <1>4, <1>6, <2>1, <2>2, <2>3 DEF TableInv, PhyloTypeOK, States
<1>8. Seated'
  <2>1. at'[MAIN] = "polls" => num' >= MIN_PHILOSOPHERS
    BY <1>1, <1>3, <1>4, <1>5, PhyloAssumption
  <2>2. at'[MAIN] \in {"setup", "polls"}
    BY <1>5
  <2> QED
    BY <1>3, <1>5, <2>1, <2>2 DEF Seated
<1>9. Ring(table', num + 1)
  <2>1. ASSUME NEW id \in 0..num, table'[id] = "eating", RIGHT(id, num + 1) # id
        PROVE  table'[RIGHT(id, num + 1)] # "eating"
    <3>1. /\ num + 1 \in Nat \ {0} /\ id \in 0..num + 1 - 1
      BY <1>1
    <3>2. RIGHT(id, num + 1) = IF id = num THEN 0 ELSE id + 1
      BY <1>1, <3>1, Neighbours
    <3>3. id # num /\ table[id] = "eating" /\ id \in 0..num - 1 /\ num \in Nat \ {0}
      BY <1>1, <1>2, <1>6, <2>1
    <3>4. CASE id = num - 1
      BY <1>1, <1>6, <3>2, <3>3, <3>4
    <3>5. CASE id # num - 1
      <4>1. RIGHT(id, num) = id + 1
        BY <3>3, <3>5, Neighbours
      <4>2. table[id + 1] # "eating"
        BY <1>1, <1>3, <3>3, <4>1 DEF Ring
      <4>3. id + 1 \in SEATS /\ id + 1 # num
        BY <1>1, <1>2, <3>3, <3>5
      <4> QED
        BY <1>6, <3>2, <3>3, <4>2, <4>3
    <3> QED
      BY <3>4, <3>5
  <2> QED
    BY <1>1, <2>1 DEF Ring
<1>10. Ring(table, num)'
  BY <1>4, <1>9 DEF Ring, RIGHT
<1> QED
  BY <1>7, <1>8, <1>10 DEF TableInv

(* A seat less: its neighbours do not both eat.                            *)
LEMMA SeatRemoved ==
  ASSUME TableInv, UNCHANGED initial_philosophers, RemovePhilosopher
  PROVE  TableInv'
<1> DEFINE last == num - 1
<1>1. /\ MAIN \notin SEATS /\ SEATS \subseteq Nat /\ num \in Nat /\ num > MIN_PHILOSOPHERS
      /\ num <= MAIN /\ MAIN \in Nat
      /\ \A id \in SEATS : id >= num => at[id] = "gone"
      /\ MIN_PHILOSOPHERS \in Nat \ {0}
  BY MainStands, PhyloAssumption DEF TableInv, Seated, RemovePhilosopher
<1>2. last \in SEATS /\ last \in Nat \ {0} /\ \A id \in 0..last : id \in SEATS
  BY <1>1 DEF SEATS, MAIN
<1>3. /\ at \in [SEATS \cup {MAIN} -> PhyloPlaces] /\ at[MAIN] = "removes"
      /\ initial_philosophers \in Arguments
      /\ table \in [SEATS -> States] /\ Ring(table, num)
  BY DEF TableInv, PhyloTypeOK, Seated, RemovePhilosopher, States
<1>4. /\ table' = [table EXCEPT ![last] = "none"] /\ num' = last
      /\ ~(table[LEFT(last, num)] = "eating" /\ table[RIGHT(last, num)] = "eating")
      /\ at' = [at EXCEPT ![last] = "gone", ![MAIN] = "polls"]
      /\ asleep' \subseteq asleep
  BY DEF RemovePhilosopher, LastSeat, KeepsApart
<1>5. leftover' \in BOOLEAN
  BY DEF RemovePhilosopher, TableInv, PhyloTypeOK
<1> HIDE DEF last
<1>6. /\ at'[MAIN] = "polls" /\ at'[last] = "gone"
      /\ \A id \in SEATS : id # last => at'[id] = at[id]
      /\ at' \in [SEATS \cup {MAIN} -> PhyloPlaces]
  BY <1>1, <1>2, <1>3, <1>4 DEF PhyloPlaces
<1>7. /\ \A id \in SEATS : id # last => table'[id] = table[id]
      /\ table' \in [SEATS -> States]
  BY <1>2, <1>3, <1>4 DEF States
<1>8. PhyloTypeOK'
  <2>1. \A id \in SEATS : id >= num' => at'[id] = "gone"
    BY <1>1, <1>4, <1>6 DEF last
  <2>2. num' \in 0..MAX_PHILOSOPHERS /\ num' >= MIN_PHILOSOPHERS
    BY <1>1, <1>4 DEF MAIN, last
  <2> QED
    BY <1>4, <1>5, <1>7, <2>1, <2>2 DEF TableInv, PhyloTypeOK, States
<1>9. Seated'
  <2>1. num' >= MIN_PHILOSOPHERS
    BY <1>1, <1>4 DEF last
  <2> QED
    BY <1>3, <1>6, <2>1 DEF Seated
<1>10. Ring(table', last)
  <2>1. ASSUME NEW id \in 0..last - 1, table'[id] = "eating", RIGHT(id, last) # id
        PROVE  table'[RIGHT(id, last)] # "eating"
    <3>1. /\ id \in SEATS /\ id # last /\ table[id] = "eating" /\ num = last + 1
      BY <1>1, <1>2, <1>7, <2>1 DEF last
    <3>2. /\ RIGHT(id, last) = IF id = last - 1 THEN 0 ELSE id + 1
          /\ RIGHT(id, num) = id + 1
          /\ LEFT(last, num) = last - 1 /\ RIGHT(last, num) = 0
      <4>1. num \in Nat \ {0} /\ id \in 0..num - 1 /\ last \in 0..num - 1 /\ num - 1 = last
        BY <1>2, <3>1
      <4> QED
        BY <1>2, <2>1, <4>1, Neighbours
    <3>3. CASE id = last - 1
      <4>1. table[0] # "eating" /\ 0 \in SEATS /\ 0 # last
        BY <1>2, <1>4, <3>1, <3>2, <3>3
      <4> QED
        BY <1>7, <3>2, <3>3, <4>1
    <3>4. CASE id # last - 1
      <4>1. id + 1 \in SEATS /\ id + 1 # last /\ id \in 0..num - 1
        BY <1>2, <2>1, <3>1, <3>4
      <4>2. table[id + 1] # "eating"
        BY <1>1, <1>2, <1>3, <3>1, <3>2, <4>1 DEF Ring
      <4> QED
        BY <1>7, <3>2, <3>4, <4>1, <4>2
    <3> QED
      BY <3>3, <3>4
  <2> QED
    BY <2>1 DEF Ring
<1>11. Ring(table, num)'
  BY <1>4, <1>10 DEF Ring, RIGHT
<1> QED
  BY <1>8, <1>9, <1>11 DEF TableInv

(* A feast beginning and ending, with nobody at the table.                 *)
LEMMA FeastBeginsAndEnds ==
  ASSUME TableInv, Begins \/ (Quits /\ UNCHANGED initial_philosophers)
  PROVE  TableInv'
<1>1. MAIN \notin SEATS /\ asleep \subseteq SEATS \cup {MAIN} /\ MAX_PHILOSOPHERS \in Nat
  BY MainStands, PhyloAssumption DEF TableInv, PhyloTypeOK
<1>2. CASE Begins
  <2>1. /\ table' = [id \in SEATS |-> "none"] /\ UNCHANGED <<num, asleep, leftover>>
        /\ initial_philosophers' \in Arguments /\ at' = [at EXCEPT ![MAIN] = "setup"]
    BY <1>2 DEF Begins, Goes
  <2>2. /\ at' \in [SEATS \cup {MAIN} -> PhyloPlaces] /\ at'[MAIN] = "setup"
        /\ \A id \in SEATS : at'[id] = at[id]
    BY <1>1, <2>1 DEF TableInv, Seated, PhyloPlaces
  <2>3. PhyloTypeOK'
    BY <2>1, <2>2 DEF TableInv, PhyloTypeOK
  <2>4. Seated'
    BY <2>1, <2>2 DEF Seated
  <2>5. Ring(table, num)'
    <3>1. \A id \in 0..num - 1 : id \in SEATS
      BY MainStands
    <3> QED
      BY <2>1, <3>1 DEF Ring
  <2> QED
    BY <2>3, <2>4, <2>5 DEF TableInv
<1>3. CASE Quits
  <2>1. /\ table' = [id \in SEATS |-> "none"] /\ num' = 0 /\ asleep' = {}
        /\ leftover' \in BOOLEAN
        /\ at' = [p \in SEATS \cup {MAIN} |-> IF p = MAIN THEN "over" ELSE "gone"]
    BY <1>3 DEF Quits, TableInv, PhyloTypeOK
  <2>2. PhyloTypeOK'
    BY <1>1, <2>1 DEF PhyloTypeOK
  <2>3. Seated'
    BY <1>1, <2>1 DEF Seated, PhyloPlaces
  <2>4. Ring(table, num)'
    BY <2>1 DEF Ring
  <2> QED
    BY <2>2, <2>3, <2>4 DEF TableInv
<1> QED
  BY <1>2, <1>3

(* The inductive invariant of the table: the types, how many may sit at it *)
(* while the process at the keyboard is busy, and that no neighbours eat.  *)
THEOREM TableInvariance == PhyloSpec => []TableInv
<1>1. PhyloInit => TableInv
  <2>1. MAX_PHILOSOPHERS \in Nat /\ MAIN \notin SEATS
    BY PhyloAssumption DEF MAIN, SEATS
  <2> SUFFICES ASSUME PhyloInit PROVE TableInv
    OBVIOUS
  <2>2. /\ at \in [SEATS \cup {MAIN} -> PhyloPlaces] /\ at[MAIN] = "over"
        /\ \A id \in SEATS : at[id] = "gone"
    BY <2>1 DEF PhyloInit, PhyloPlaces
  <2>3. PhyloTypeOK
    <3>1. /\ table \in [SEATS -> {"none", "thinking", "hungry", "eating"}]
          /\ num \in 0..MAX_PHILOSOPHERS /\ asleep = {} /\ leftover = FALSE
      BY <2>1 DEF PhyloInit
    <3> QED
      BY <2>2, <3>1 DEF PhyloTypeOK
  <2>4. Seated
    BY <2>2 DEF Seated
  <2>5. Ring(table, num)
    BY DEF PhyloInit, Ring
  <2> QED
    BY <2>3, <2>4, <2>5 DEF TableInv
<1>2. TableInv /\ [PhyloNext]_phyloVars => TableInv'
  <2> SUFFICES ASSUME TableInv, [PhyloNext]_phyloVars PROVE TableInv'
    OBVIOUS
  <2>1. CASE UNCHANGED phyloVars
    BY <2>1, MainSleeps DEF phyloVars, TableInv, PhyloTypeOK
  <2>2. CASE Begins
    BY <2>2, FeastBeginsAndEnds
  <2>3. CASE /\ \/ Setup \/ Commands \/ MainTakesMutex \/ PsListed \/ AddPhilosopher
                \/ StandsBack \/ WaitsForSeat \/ RemovePhilosopher \/ Quits
                \/ \E id \in SEATS :
                      SitsDown(id) \/ TakesMutex(id) \/ GetsHungry(id) \/ Dines(id) \/ IsDone(id)
             /\ UNCHANGED initial_philosophers
    BY <2>3, MainGoesOn, SeatAdded, SeatRemoved, FeastBeginsAndEnds, PhilosopherSteps
  <2> QED
    BY <2>1, <2>2, <2>3 DEF PhyloNext, PhyloStep
<1> QED
  BY <1>1, <1>2, PTL DEF PhyloSpec

(* No two neighbours eat, for any number of philosophers, while            *)
(* remove_philosopher makes neighbours of two who were none                *)
(* (try_to_eat and remove_philosopher of phylo.c).                         *)
THEOREM NeighboursNeverEat == PhyloSpec => []NeighboursDoNotEat
<1>1. TableInv => NeighboursDoNotEat
  BY DEF TableInv, Ring, NeighboursDoNotEat
<1> QED
  BY <1>1, TableInvariance, PTL

-----------------------------------------------------------------------------
(* The semaphores of the feast.                                            *)
People == SEATS \cup {MAIN}

PhyloNames == {MUTEX} \cup {SeatName(i) : i \in SEATS}

PhyloSems == Semaphore(PhyloNames, People)

SemTables == [list : [SEMS -> PhyloSems], active : Int]

(* Whoever has a semaphore open gave it a name of its own.                 *)
SoundTable(t) ==
    /\ t \in SemTables
    /\ \A s \in SEMS : /\ t.list[s].sem_value >= 0
                       /\ t.list[s].interested = {} <=> t.list[s].name = NO_NAME
    /\ \A r, s \in SEMS : t.list[r].name = t.list[s].name /\ t.list[r].name # NO_NAME => r = s
    /\ t.active = Cardinality(OpenSems(t))

Visible(t) == OpenSems(t) \subseteq 0..t.active - 1

LEMMA SeatNames ==
  /\ \A i, j : SeatName(i) = SeatName(j) => i = j
  /\ \A i : SeatName(i) # MUTEX /\ SeatName(i) # NO_NAME
  /\ MUTEX # NO_NAME
<1>1. ASSUME NEW i, NEW j, SeatName(i) = SeatName(j) PROVE i = j
  BY <1>1 DEF SeatName
<1>2. ASSUME NEW i PROVE SeatName(i) # MUTEX /\ SeatName(i) # NO_NAME
  <2>1. Len(SeatName(i)) = 2 /\ Len(MUTEX) = 1 /\ Len(NO_NAME) = 0
    BY DEF SeatName, MUTEX, NO_NAME
  <2> QED
    BY <2>1
<1>3. MUTEX # NO_NAME
  <2>1. Len(MUTEX) = 1 /\ Len(NO_NAME) = 0
    BY DEF MUTEX, NO_NAME
  <2> QED
    BY <2>1
<1> QED
  BY <1>1, <1>2, <1>3

LEMMA PhyloNamed ==
  /\ MUTEX \in PhyloNames /\ \A i \in SEATS : SeatName(i) \in PhyloNames
  /\ \A name \in PhyloNames : name # NO_NAME
<1>1. MUTEX \in PhyloNames /\ \A i \in SEATS : SeatName(i) \in PhyloNames
  BY DEF PhyloNames
<1>2. ASSUME NEW name \in PhyloNames PROVE name # NO_NAME
  BY SeatNames DEF PhyloNames
<1> QED
  BY <1>1, <1>2

LEMMA SeatsAndSlots ==
  /\ MAX_PHILOSOPHERS \in Nat /\ MAX_SEMAPHORES \in Nat /\ MAX_OPEN \in Nat
  /\ MAX_PHILOSOPHERS < MAX_SEMAPHORES /\ MAX_PHILOSOPHERS < MAX_OPEN
  /\ SEMS \subseteq Nat /\ NO_SEM \notin SEMS /\ IsFiniteSet(SEMS)
  /\ Cardinality(SEMS) = MAX_SEMAPHORES
  /\ SEATS \subseteq Nat /\ MAIN \notin SEATS
<1>1. /\ MAX_PHILOSOPHERS \in Nat /\ MAX_SEMAPHORES \in Nat /\ MAX_OPEN \in Nat
      /\ MAX_PHILOSOPHERS < MAX_SEMAPHORES /\ MAX_PHILOSOPHERS < MAX_OPEN
  BY PhyloAssumption, SemTableAssumption
<1>2. SEMS \subseteq Nat /\ NO_SEM \notin SEMS
  BY <1>1 DEF SEMS, NO_SEM
<1>3. IsFiniteSet(SEMS) /\ Cardinality(SEMS) = MAX_SEMAPHORES
  <2> DEFINE m == MAX_SEMAPHORES - 1
  <2>1. m \in Int /\ ~(0 > m) /\ m - 0 + 1 = MAX_SEMAPHORES
    BY <1>1
  <2>2. IsFiniteSet(0..m) /\ Cardinality(0..m) = IF 0 > m THEN 0 ELSE m - 0 + 1
    <3> HIDE DEF m
    <3> QED
      BY <2>1, FS_Interval
  <2> QED
    BY <2>1, <2>2 DEF SEMS
<1>4. SEATS \subseteq Nat /\ MAIN \notin SEATS
  BY <1>1 DEF SEATS, MAIN
<1> QED
  BY <1>1, <1>2, <1>3, <1>4

(* No more people, and no more names, than seats and one.                  *)
LEMMA FewPeople ==
  ASSUME NEW p \in People, NEW who, who \subseteq People \ {p}
  PROVE  IsFiniteSet(who) /\ Cardinality(who) <= MAX_PHILOSOPHERS
<1>1. People = 0..MAX_PHILOSOPHERS
  BY PhyloAssumption DEF People, SEATS, MAIN
<1>2. MAX_PHILOSOPHERS \in Int /\ MAX_PHILOSOPHERS >= 0
  BY PhyloAssumption
<1>3. IsFiniteSet(People) /\ Cardinality(People) = MAX_PHILOSOPHERS + 1
  BY <1>1, <1>2, FS_Interval
<1>4. IsFiniteSet(People \ {p}) /\ Cardinality(People \ {p}) = Cardinality(People) - 1
  BY <1>3, FS_RemoveElement
<1>5. IsFiniteSet(who) /\ Cardinality(who) <= Cardinality(People \ {p})
  BY <1>4, FS_Subset
<1> QED
  BY <1>2, <1>3, <1>4, <1>5

LEMMA FewNames ==
  ASSUME NEW name \in PhyloNames
  PROVE  IsFiniteSet(PhyloNames \ {name}) /\ Cardinality(PhyloNames \ {name}) <= MAX_PHILOSOPHERS
<1> DEFINE naming == [i \in 0..MAX_PHILOSOPHERS |-> IF i \in SEATS THEN SeatName(i) ELSE MUTEX]
<1>1. MAX_PHILOSOPHERS \in Int /\ MAX_PHILOSOPHERS >= 0 /\ MAX_PHILOSOPHERS \in 0..MAX_PHILOSOPHERS
  BY PhyloAssumption
<1>2. IsFiniteSet(0..MAX_PHILOSOPHERS) /\ Cardinality(0..MAX_PHILOSOPHERS) = MAX_PHILOSOPHERS + 1
  BY <1>1, FS_Interval
<1>3. naming \in Surjection(0..MAX_PHILOSOPHERS, PhyloNames)
  <2>1. naming \in [0..MAX_PHILOSOPHERS -> PhyloNames]
    BY PhyloNamed
  <2>2. ASSUME NEW n \in PhyloNames PROVE \E i \in 0..MAX_PHILOSOPHERS : naming[i] = n
    <3>1. CASE n = MUTEX
      <4>1. MAX_PHILOSOPHERS \notin SEATS
        BY <1>1 DEF SEATS
      <4> QED
        BY <1>1, <3>1, <4>1
    <3>2. CASE n # MUTEX
      <4>1. PICK i \in SEATS : n = SeatName(i)
        BY <3>2 DEF PhyloNames
      <4>2. i \in 0..MAX_PHILOSOPHERS
        BY <1>1 DEF SEATS
      <4> QED
        BY <4>1, <4>2
    <3> QED
      BY <3>1, <3>2
  <2> QED
    BY <2>1, <2>2 DEF Surjection
<1>4. IsFiniteSet(PhyloNames) /\ Cardinality(PhyloNames) <= MAX_PHILOSOPHERS + 1
  BY <1>2, <1>3, FS_Surjection
<1>5. /\ IsFiniteSet(PhyloNames \ {name})
      /\ Cardinality(PhyloNames \ {name}) = Cardinality(PhyloNames) - 1
  BY <1>4, FS_RemoveElement
<1>6. Cardinality(PhyloNames) \in Nat
  BY <1>4, FS_CardinalityType
<1> QED
  BY <1>1, <1>4, <1>5, <1>6

(* A name nobody gave leaves a slot free.                                  *)
LEMMA SlotsLeft ==
  ASSUME NEW t, SoundTable(t), NEW name \in PhyloNames, \A s \in SEMS : t.list[s].name # name
  PROVE  /\ t.active \in Nat /\ t.active <= MAX_PHILOSOPHERS
         /\ IsFiniteSet(OpenSems(t)) /\ OpenSems(t) # SEMS
<1> DEFINE open == OpenSems(t)
           f == [s \in open |-> t.list[s].name]
<1>1. \A s \in open : s \in SEMS /\ t.list[s].interested # {}
  BY DEF OpenSems
<1>2. \A s \in open : t.list[s].name # NO_NAME /\ t.list[s].name \in PhyloNames \ {name}
  <2>1. \A s \in SEMS : t.list[s].name \in PhyloNames \cup {NO_NAME}
    BY DEF SoundTable, SemTables, PhyloSems, Semaphore
  <2> QED
    BY <1>1, <2>1 DEF SoundTable
<1>3. f \in Injection(open, PhyloNames \ {name})
  <2>1. \A r, s \in open : f[r] = f[s] => r = s
    BY <1>1, <1>2 DEF SoundTable
  <2> QED
    BY <1>2, <2>1 DEF Injection, IsInjective
<1> HIDE DEF f
<1>4. IsFiniteSet(open) /\ Cardinality(open) <= Cardinality(PhyloNames \ {name})
  BY <1>3, FewNames, FS_Injection
<1>5. Cardinality(open) \in Nat /\ Cardinality(PhyloNames \ {name}) \in Nat
  BY <1>4, FewNames, FS_CardinalityType
<1>6. Cardinality(open) <= MAX_PHILOSOPHERS
  <2>1. Cardinality(PhyloNames \ {name}) <= MAX_PHILOSOPHERS
    BY FewNames
  <2>2. MAX_PHILOSOPHERS \in Nat
    BY PhyloAssumption
  <2> HIDE DEF open
  <2> QED
    BY <1>4, <1>5, <2>1, <2>2
<1>7. open # SEMS
  BY <1>5, <1>6, SeatsAndSlots
<1> QED
  BY <1>4, <1>5, <1>6, <1>7 DEF SoundTable

(* u is t with e in slot s.                                                *)
Puts(t, u, s, e) ==
    /\ u \in SemTables /\ e \in PhyloSems /\ u.list[s] = e
    /\ \A r \in SEMS \ {s} : u.list[r] = t.list[r]

LEMMA SemFields ==
  ASSUME NEW e \in PhyloSems
  PROVE  /\ e.name \in PhyloNames \cup {NO_NAME} /\ e.sem_value \in Int
         /\ e.interested \in SUBSET People /\ e.waiting \in Seq(People)
BY DEF PhyloSems, Semaphore

LEMMA TableOfSems ==
  ASSUME NEW t, SoundTable(t)
  PROVE  /\ t \in SemTables /\ t.active \in Int
         /\ \A s \in SEMS : t.list[s] \in PhyloSems /\ t.list[s].sem_value \in Nat
<1>1. t \in SemTables
  BY DEF SoundTable
<1>2. t.active \in Int /\ \A s \in SEMS : t.list[s] \in PhyloSems
  BY <1>1 DEF SemTables
<1>3. ASSUME NEW s \in SEMS PROVE t.list[s].sem_value \in Nat
  <2>1. t.list[s].sem_value \in Int
    BY <1>2, SemFields
  <2>2. t.list[s].sem_value >= 0
    BY DEF SoundTable
  <2> QED
    BY <2>1, <2>2
<1> QED
  BY <1>1, <1>2, <1>3

LEMMA PutSem ==
  ASSUME NEW t \in SemTables, NEW s \in SEMS, NEW e \in PhyloSems, NEW n \in Int,
         NEW u, u = WithSem(t, s, e, n)
  PROVE  Puts(t, u, s, e) /\ u.active = n
<1>1. t.list \in [SEMS -> PhyloSems]
  BY DEF SemTables
<1>2. u = [list |-> [t.list EXCEPT ![s] = e], active |-> n]
  BY DEF WithSem
<1> QED
  BY <1>1, <1>2 DEF SemTables, Puts

(* A slot that keeps its name, its users and a value that is no debt.      *)
LEMMA SameName ==
  ASSUME NEW t, SoundTable(t), NEW s \in SEMS, NEW u, NEW e, Puts(t, u, s, e),
         e.sem_value >= 0, e.name = t.list[s].name, t.list[s].interested \subseteq e.interested,
         e.interested # {} => e.name # NO_NAME, u.active = t.active
  PROVE  SoundTable(u) /\ OpenSems(u) = OpenSems(t)
<1>1. u.list[s] = e /\ \A r \in SEMS : r # s => u.list[r] = t.list[r]
  BY DEF Puts
<1>2. \A r \in SEMS : /\ u.list[r].name = t.list[r].name
                      /\ u.list[r].interested = {} <=> t.list[r].interested = {}
  BY <1>1 DEF SoundTable
<1>3. OpenSems(u) = OpenSems(t)
  BY <1>2 DEF OpenSems
<1>4. \A r \in SEMS : /\ u.list[r].sem_value >= 0
                      /\ u.list[r].interested = {} <=> u.list[r].name = NO_NAME
  BY <1>1, <1>2 DEF SoundTable
<1>5. \A q, r \in SEMS : u.list[q].name = u.list[r].name /\ u.list[q].name # NO_NAME => q = r
  BY <1>2 DEF SoundTable
<1>6. u \in SemTables
  BY DEF Puts
<1>7. u.active = Cardinality(OpenSems(u))
  BY <1>3 DEF SoundTable
<1> QED
  BY <1>3, <1>4, <1>5, <1>6, <1>7 DEF SoundTable

(* sem_open by p of a name: it never fails, and gives p the semaphore that *)
(* has the name, or a new one.                                             *)
Gets(t, u, r, p, name, v) ==
    /\ \A s \in SEMS : s # r => u.list[s] = t.list[s]
    /\ u.list[r].name = name /\ p \in u.list[r].interested
    /\ \/ /\ t.list[r].name = name /\ u.list[r].sem_value = t.list[r].sem_value
          /\ t.list[r].interested \subseteq u.list[r].interested
       \/ /\ \A s \in SEMS : t.list[s].name # name
          /\ t.list[r].name = NO_NAME /\ u.list[r].sem_value = v

LEMMA GetsKnown ==
  ASSUME NEW t, SoundTable(t), Visible(t), NEW p \in People, NEW name \in PhyloNames, NEW v \in Nat,
         NEW s \in SEMS, t.list[s].name = name,
         NEW r, r = OpenedSem(t, p, name, v), NEW u, u = OpenSem(t, p, name, v)
  PROVE  r = s /\ SoundTable(u) /\ Visible(u) /\ Gets(t, u, r, p, name, v)
<1>0. name # NO_NAME
  BY PhyloNamed
<1>1. s < t.active
  <2>1. t.list[s].interested # {}
    BY <1>0 DEF SoundTable
  <2>2. s \in 0..t.active - 1
    BY <2>1 DEF OpenSems, Visible
  <2>3. t.active \in Int
    BY TableOfSems
  <2> QED
    BY <2>2, <2>3
<1>2. SemGet(t, name) = s
  <2>1. \A q \in SEMS : t.list[q].name = name => q = s
    BY <1>0 DEF SoundTable
  <2>2. Matching(t, name) = {s}
    BY <1>1, <2>1 DEF Matching
  <2>3. {s} \subseteq Nat /\ {s} # {}
    BY SeatsAndSlots
  <2>4. Min({s}) = s
    BY <2>3, MinOfNaturals
  <2> QED
    BY <2>2, <2>4 DEF SemGet
<1>3. t.list[s] \in PhyloSems /\ t.active \in Int /\ t \in SemTables
  BY TableOfSems
<1>4. CanJoin(t, s, p)
  <2>1. CASE p \in t.list[s].interested
    BY <2>1 DEF CanJoin, Interested
  <2>2. CASE p \notin t.list[s].interested
    <3> DEFINE who == t.list[s].interested
    <3>1. who \subseteq People \ {p}
      BY <1>3, <2>2, SemFields
    <3> HIDE DEF who
    <3>2. IsFiniteSet(who) /\ Cardinality(who) <= MAX_PHILOSOPHERS
      BY <3>1, FewPeople
    <3>3. Cardinality(who) \in Nat
      BY <3>2, FS_CardinalityType
    <3>4. Cardinality(who) < MAX_OPEN
      BY <3>2, <3>3, SeatsAndSlots
    <3> QED
      BY <3>4 DEF CanJoin, who
  <2> QED
    BY <2>1, <2>2
<1>5. s # NO_SEM
  BY SeatsAndSlots
<1>6. r = s
  BY <1>2, <1>4, <1>5 DEF OpenedSem
<1> DEFINE a == t.list[s]
<1>7. PICK who \in SUBSET People : who = a.interested \cup {p}
  BY <1>3, SemFields
<1> DEFINE e == [a EXCEPT !.interested = who]
<1>8. u = WithSem(t, s, e, t.active)
  BY <1>2, <1>5, <1>6, <1>7 DEF OpenSem, JoinSem
<1> HIDE DEF a
<1>9. a \in PhyloSems
  BY <1>3 DEF a
<1>10. /\ e \in PhyloSems /\ e.name = a.name /\ e.interested = who /\ e.sem_value = a.sem_value
  BY <1>9 DEF PhyloSems, Semaphore
<1> HIDE DEF e
<1>11. Puts(t, u, s, e) /\ u.active = t.active
  BY <1>3, <1>8, <1>10, PutSem
<1>12. e.sem_value >= 0
  BY <1>10 DEF SoundTable, a
<1>13. SoundTable(u) /\ OpenSems(u) = OpenSems(t)
  BY <1>0, <1>7, <1>10, <1>11, <1>12, SameName DEF a
<1>14. Visible(u)
  BY <1>11, <1>13 DEF Visible
<1>15. Gets(t, u, s, p, name, v)
  BY <1>7, <1>10, <1>11 DEF Gets, Puts, a
<1> QED
  BY <1>6, <1>13, <1>14, <1>15

LEMMA GetsNew ==
  ASSUME NEW t, SoundTable(t), Visible(t), NEW p \in People, NEW name \in PhyloNames, NEW v \in Nat,
         \A s \in SEMS : t.list[s].name # name,
         NEW r, r = OpenedSem(t, p, name, v), NEW u, u = OpenSem(t, p, name, v)
  PROVE  r \in SEMS /\ SoundTable(u) /\ Visible(u) /\ Gets(t, u, r, p, name, v)
<1>1. SemGet(t, name) = NO_SEM
  BY DEF SemGet, Matching
<1>2. /\ t.active \in Nat /\ t.active <= MAX_PHILOSOPHERS
      /\ IsFiniteSet(OpenSems(t)) /\ OpenSems(t) # SEMS
  BY SlotsLeft
<1>3. CanCreate(t, v)
  BY <1>2, SeatsAndSlots DEF CanCreate
<1>4. r = Min(SEMS \ OpenSems(t))
  BY <1>1, <1>3 DEF OpenedSem
<1>5. r \in SEMS \ OpenSems(t) /\ \A s \in SEMS \ OpenSems(t) : r <= s
  <2>1. SEMS \ OpenSems(t) # {} /\ SEMS \ OpenSems(t) \subseteq Nat
    BY <1>2, SeatsAndSlots DEF OpenSems
  <2> QED
    BY <1>4, <2>1, MinOfNaturals
<1>6. r \in SEMS /\ t.list[r].interested = {} /\ t.list[r].name = NO_NAME
  BY <1>5 DEF OpenSems, SoundTable
<1>7. r <= t.active
  <2>1. t.active \in SEMS
    BY <1>2, SeatsAndSlots DEF SEMS
  <2>2. t.active \notin OpenSems(t)
    BY <1>2 DEF Visible
  <2> QED
    BY <1>5, <2>1, <2>2
<1> DEFINE e == [ name |-> name, sem_value |-> v, lock |-> 1, interested |-> {p},
                  waiting |-> t.list[r].waiting ]
<1>8. t.list[r].waiting \in Seq(People)
  BY <1>6, TableOfSems, SemFields
<1>9. /\ e \in PhyloSems /\ e.name = name /\ e.sem_value = v /\ e.interested = {p}
  BY <1>8 DEF PhyloSems, Semaphore
<1>10. u = WithSem(t, r, e, t.active + 1)
  <2>1. r # NO_SEM
    BY <1>6, SeatsAndSlots
  <2> QED
    BY <1>1, <1>3, <1>4, <2>1 DEF OpenSem, CreateSem
<1> HIDE DEF e
<1>11. PICK n \in Int : n = t.active + 1
  BY <1>2
<1>12. Puts(t, u, r, e) /\ u.active = n
  BY <1>6, <1>9, <1>10, <1>11, PutSem, TableOfSems
<1>13. u.list[r] = e /\ \A s \in SEMS : s # r => u.list[s] = t.list[s]
  BY <1>12 DEF Puts
<1>14. OpenSems(u) = OpenSems(t) \cup {r}
  BY <1>6, <1>9, <1>13 DEF OpenSems
<1>15. u.active = Cardinality(OpenSems(u))
  <2>1. Cardinality(OpenSems(t) \cup {r}) = Cardinality(OpenSems(t)) + 1
    BY <1>2, <1>5, FS_AddElement
  <2> QED
    BY <1>11, <1>12, <1>14, <2>1 DEF SoundTable
<1>16. SoundTable(u)
  <2>1. \A s \in SEMS : /\ u.list[s].sem_value >= 0
                        /\ u.list[s].interested = {} <=> u.list[s].name = NO_NAME
    BY <1>9, <1>13, PhyloNamed DEF SoundTable
  <2>2. \A q, s \in SEMS : u.list[q].name = u.list[s].name /\ u.list[q].name # NO_NAME => q = s
    BY <1>9, <1>13 DEF SoundTable
  <2> QED
    BY <1>12, <1>15, <2>1, <2>2 DEF SoundTable, Puts
<1>17. Visible(u)
  <2>1. r \in 0..t.active /\ 0..t.active - 1 \subseteq 0..t.active /\ n - 1 = t.active
    BY <1>2, <1>6, <1>7, <1>11, SeatsAndSlots
  <2> QED
    BY <1>12, <1>14, <2>1 DEF Visible
<1>18. Gets(t, u, r, p, name, v)
  BY <1>6, <1>9, <1>13 DEF Gets
<1> QED
  BY <1>6, <1>16, <1>17, <1>18

LEMMA Gotten ==
  ASSUME NEW t, SoundTable(t), Visible(t), NEW p \in People, NEW name \in PhyloNames, NEW v \in Nat,
         NEW r, r = OpenedSem(t, p, name, v), NEW u, u = OpenSem(t, p, name, v)
  PROVE  r \in SEMS /\ SoundTable(u) /\ Visible(u) /\ Gets(t, u, r, p, name, v)
<1>1. CASE \E s \in SEMS : t.list[s].name = name
  BY <1>1, GetsKnown
<1>2. CASE \A s \in SEMS : t.list[s].name # name
  BY <1>2, GetsNew
<1> QED
  BY <1>1, <1>2

(* sem_close by p: the others keep the semaphore as it is.                 *)
Leaves(t, u, s, p) ==
    /\ SoundTable(u)
    /\ \A r \in SEMS : r # s => u.list[r] = t.list[r]
    /\ \A q \in t.list[s].interested : q # p => q \in u.list[s].interested
    /\ \/ u.list[s].name = NO_NAME
       \/ u.list[s].name = t.list[s].name /\ u.list[s].sem_value = t.list[s].sem_value

LEMMA Closes ==
  ASSUME NEW t, SoundTable(t), NEW p \in People, NEW s \in SEMS, NEW u, u = CloseSem(t, s, p)
  PROVE  Leaves(t, u, s, p)
<1> DEFINE a == t.list[s]
<1>0. a \in PhyloSems /\ t.active \in Int /\ t \in SemTables
  BY TableOfSems
<1>1. CASE p \notin a.interested
  BY <1>1 DEF CloseSem, Interested, Leaves
<1>2. CASE a.interested = {p}
  <2> PICK none \in SUBSET People : none = {}
    OBVIOUS
  <2> PICK zero \in Int : zero = 0
    OBVIOUS
  <2> DEFINE e == [a EXCEPT !.name = NO_NAME, !.sem_value = zero, !.interested = none]
  <2>1. u = WithSem(t, s, e, t.active - 1)
    BY <1>2 DEF CloseSem, Interested
  <2>2. a.name # NO_NAME
    BY <1>2 DEF SoundTable
  <2> HIDE DEF a
  <2>3. e \in PhyloSems /\ e.name = NO_NAME /\ e.interested = none /\ e.sem_value = zero
    BY <1>0 DEF PhyloSems, Semaphore
  <2> HIDE DEF e
  <2> PICK n \in Int : n = t.active - 1
    BY <1>0
  <2>4. Puts(t, u, s, e) /\ u.active = n
    BY <1>0, <2>1, <2>3, PutSem
  <2>5. u.list[s] = e /\ \A r \in SEMS : r # s => u.list[r] = t.list[r]
    BY <2>4 DEF Puts
  <2>6. OpenSems(u) = OpenSems(t) \ {s} /\ s \in OpenSems(t)
    BY <1>2, <2>3, <2>5 DEF OpenSems, a
  <2>7. u.active = Cardinality(OpenSems(u))
    <3>1. IsFiniteSet(OpenSems(t))
      BY SeatsAndSlots, FS_Subset DEF OpenSems
    <3>2. Cardinality(OpenSems(t) \ {s}) = Cardinality(OpenSems(t)) - 1
      BY <2>6, <3>1, FS_RemoveElement
    <3> QED
      BY <2>4, <2>6, <3>2 DEF SoundTable
  <2>8. SoundTable(u)
    <3>1. \A r \in SEMS : /\ u.list[r].sem_value >= 0
                          /\ u.list[r].interested = {} <=> u.list[r].name = NO_NAME
      BY <2>3, <2>5 DEF SoundTable
    <3>2. \A q, r \in SEMS : u.list[q].name = u.list[r].name /\ u.list[q].name # NO_NAME => q = r
      BY <2>3, <2>5 DEF SoundTable
    <3> QED
      BY <2>4, <2>7, <3>1, <3>2 DEF SoundTable, Puts
  <2> QED
    BY <1>2, <2>3, <2>5, <2>8 DEF Leaves, a
<1>3. CASE p \in a.interested /\ a.interested # {p}
  <2> PICK who \in SUBSET People : who = a.interested \ {p}
    BY <1>0, SemFields
  <2> DEFINE e == [a EXCEPT !.interested = who]
  <2>1. u = WithSem(t, s, e, t.active)
    BY <1>3 DEF CloseSem, Interested
  <2> HIDE DEF a
  <2>2. e \in PhyloSems /\ e.name = a.name /\ e.interested = who /\ e.sem_value = a.sem_value
    BY <1>0 DEF PhyloSems, Semaphore
  <2> HIDE DEF e
  <2>3. Puts(t, u, s, e) /\ u.active = t.active
    BY <1>0, <2>1, <2>2, PutSem
  <2>4. u.list[s] = e /\ \A r \in SEMS : r # s => u.list[r] = t.list[r]
    BY <2>3 DEF Puts
  <2>5. \A r \in SEMS : /\ u.list[r].name = t.list[r].name
                        /\ u.list[r].sem_value = t.list[r].sem_value
                        /\ u.list[r].interested = {} <=> t.list[r].interested = {}
    BY <1>3, <2>2, <2>4 DEF a
  <2>6. OpenSems(u) = OpenSems(t)
    BY <2>5 DEF OpenSems
  <2>7. SoundTable(u)
    <3>1. \A r \in SEMS : /\ u.list[r].sem_value >= 0
                          /\ u.list[r].interested = {} <=> u.list[r].name = NO_NAME
      BY <2>5 DEF SoundTable
    <3>2. \A q, r \in SEMS : u.list[q].name = u.list[r].name /\ u.list[q].name # NO_NAME => q = r
      BY <2>5 DEF SoundTable
    <3> QED
      BY <2>3, <2>6, <3>1, <3>2 DEF SoundTable, Puts
  <2> QED
    BY <2>2, <2>4, <2>5, <2>7 DEF Leaves, a
<1> QED
  BY <1>1, <1>2, <1>3

(* The turns of sem_wait and sem_post change values and queues, and leave  *)
(* the names and their users.                                              *)
SameUsers(t, u) ==
    \A r \in SEMS : u.list[r].name = t.list[r].name /\ u.list[r].interested = t.list[r].interested

Valued(t, u, s, v) ==
    /\ SoundTable(u) /\ SameUsers(t, u)
    /\ u.list[s].sem_value = v
    /\ \A r \in SEMS : r # s => u.list[r].sem_value = t.list[r].sem_value

LEMMA ValuePut ==
  ASSUME NEW t, SoundTable(t), NEW s \in SEMS, NEW v \in Nat, NEW queue \in Seq(People),
         NEW u, u = WithSem(t, s, [t.list[s] EXCEPT !.sem_value = v, !.waiting = queue], t.active)
  PROVE  Valued(t, u, s, v)
<1> DEFINE a == t.list[s]
           e == [a EXCEPT !.sem_value = v, !.waiting = queue]
<1>1. a \in PhyloSems /\ t.active \in Int /\ t \in SemTables
  BY TableOfSems
<1>2. u = WithSem(t, s, e, t.active)
  OBVIOUS
<1> HIDE DEF a
<1>3. e \in PhyloSems /\ e.name = a.name /\ e.interested = a.interested /\ e.sem_value = v
  <2>1. v \in Int
    OBVIOUS
  <2> QED
    BY <1>1, <2>1 DEF PhyloSems, Semaphore
<1> HIDE DEF e
<1>4. Puts(t, u, s, e) /\ u.active = t.active
  BY <1>1, <1>2, <1>3, PutSem
<1>5. e.interested # {} => e.name # NO_NAME
  BY <1>3 DEF a, SoundTable
<1>6. SoundTable(u)
  BY <1>3, <1>4, <1>5, SameName DEF a
<1> QED
  BY <1>3, <1>4, <1>6 DEF Valued, SameUsers, Puts, a

LEMMA ValueTaken ==
  ASSUME NEW t, SoundTable(t), NEW s \in SEMS, t.list[s].sem_value > 0, NEW u, u = TakeSem(t, s, 1)
  PROVE  Valued(t, u, s, t.list[s].sem_value - 1)
<1> DEFINE a == t.list[s]
           queue == a.waiting
<1>1. a \in PhyloSems /\ a.sem_value \in Nat /\ queue \in Seq(People)
  BY TableOfSems, SemFields
<1>2. PICK v \in Nat : v = a.sem_value - 1
  BY <1>1
<1>3. u = WithSem(t, s, [a EXCEPT !.sem_value = v], t.active)
  BY <1>2 DEF TakeSem
<1>4. [a EXCEPT !.sem_value = v] = [a EXCEPT !.sem_value = v, !.waiting = queue]
  BY <1>1 DEF PhyloSems, Semaphore
<1> HIDE DEF queue
<1>5. Valued(t, u, s, v)
  BY <1>1, <1>3, <1>4, ValuePut
<1> QED
  BY <1>2, <1>5

LEMMA ValueStays ==
  ASSUME NEW t, SoundTable(t), NEW s \in SEMS, NEW p \in People, NEW u, u = EnqueueSem(t, s, p)
  PROVE  Valued(t, u, s, t.list[s].sem_value)
<1> DEFINE a == t.list[s]
           v == a.sem_value
<1>1. a \in PhyloSems /\ v \in Nat /\ a.waiting \in Seq(People)
  BY TableOfSems, SemFields
<1>2. PICK queue \in Seq(People) : queue = Append(a.waiting, p)
  <2>1. \A w \in Seq(People) : Append(w, p) \in Seq(People)
    OBVIOUS
  <2> QED
    BY <1>1, <2>1
<1>3. u = WithSem(t, s, [a EXCEPT !.waiting = queue], t.active)
  BY <1>2 DEF EnqueueSem
<1>4. [a EXCEPT !.waiting = queue] = [a EXCEPT !.sem_value = v, !.waiting = queue]
  BY <1>1 DEF PhyloSems, Semaphore
<1> HIDE DEF v
<1>5. Valued(t, u, s, v)
  BY <1>1, <1>3, <1>4, ValuePut
<1> QED
  BY <1>5 DEF v

LEMMA ValuePosted ==
  ASSUME NEW t, SoundTable(t), NEW s \in SEMS, NEW u, u = PostSem(t, s, 1)
  PROVE  Valued(t, u, s, t.list[s].sem_value + 1)
<1> DEFINE a == t.list[s]
<1>1. a \in PhyloSems /\ a.sem_value \in Nat /\ a.waiting \in Seq(People)
  BY TableOfSems, SemFields
<1>2. PICK v \in Nat : v = a.sem_value + 1
  BY <1>1
<1>3. PICK queue \in Seq(People) : queue = SubSeq(a.waiting, 1 + 1, Len(a.waiting))
  <2>1. \A w \in Seq(People) : SubSeq(w, 1 + 1, Len(w)) \in Seq(People)
    OBVIOUS
  <2> QED
    BY <1>1, <2>1
<1>4. u = WithSem(t, s, [a EXCEPT !.sem_value = v, !.waiting = queue], t.active)
  BY <1>2, <1>3 DEF PostSem
<1>5. Valued(t, u, s, v)
  BY <1>4, ValuePut
<1> QED
  BY <1>2, <1>5

-----------------------------------------------------------------------------
(* Who holds the mutex, and who was granted a seat.                        *)
SeatsNamed(t, st) ==
    /\ st \in [SEATS -> SEMS \cup {NO_SEM}]
    /\ \A i \in SEATS : st[i] # NO_SEM => t.list[st[i]].name = SeatName(i)

MutexKept ==
    /\ at[MAIN] = "over" => \A s \in SEMS : sems.list[s].name = MUTEX => sems.list[s].sem_value = 1
    /\ at[MAIN] # "over" =>
          /\ mutex \in SEMS /\ sems.list[mutex].name = MUTEX /\ MAIN \in sems.list[mutex].interested
          /\ \/ sems.list[mutex].sem_value = 1 /\ Inside = {}
             \/ sems.list[mutex].sem_value = 0 /\ \E p \in People : Inside = {p}

PeopleKept ==
    \A id \in SEATS :
       /\ at[MAIN] = "over" => at[id] = "gone"
       /\ at[id] # "gone" => seat[id] # NO_SEM
       /\ at[id] \notin {"gone", "comes"} =>
             id \in sems.list[mutex].interested /\ id \in sems.list[seat[id]].interested

(* The permits of a seat: one while its philosopher was granted the table  *)
(* and does not know it yet.                                               *)
PermitsOf(tab, a, i) == IF tab[i] = "eating" /\ a[i] = "waits" THEN 1 ELSE 0

SeatGranted(t, tab, a, i) ==
    /\ a[i] \in {"dines", "is done"} => tab[i] = "eating"
    /\ tab[i] = "eating" => a[i] \in {"waits", "dines", "is done"}
    /\ tab[i] = "hungry" => a[i] = "waits"
    /\ \A s \in SEMS : t.list[s].name = SeatName(i) => t.list[s].sem_value <= PermitsOf(tab, a, i)

Granting == ~leftover => \A i \in SEATS : SeatGranted(sems, table, at, i)

FeastInv ==
    TableInv /\ SoundTable(sems) /\ SeatsNamed(sems, seat) /\ MutexKept /\ PeopleKept /\ Granting

(* Where a process holds the mutex.                                        *)
LockPlaces(p) == IF p = MAIN THEN {"adds", "removes", "lists", "quits"} ELSE {"is hungry", "is done"}

LEMMA InsidePlaces ==
  /\ \A p : p \in Inside <=> p \in People /\ at[p] \in LockPlaces(p)
  /\ \A p : p \in Inside' <=> p \in People /\ at'[p] \in LockPlaces(p)
<1>1. MAIN \notin SEATS
  BY SeatsAndSlots
<1>2. \A p : p \in Inside <=> p \in People /\ at[p] \in LockPlaces(p)
  BY <1>1 DEF Inside, People, LockPlaces
<1>3. \A p : p \in Inside' <=> p \in People /\ at'[p] \in LockPlaces(p)
  BY <1>1 DEF Inside, People, LockPlaces
<1> QED
  BY <1>2, <1>3

(* p goes on to next.                                                      *)
LEMMA Going ==
  ASSUME TableInv, NEW p \in People, NEW next, at' = [at EXCEPT ![p] = next]
  PROVE  at'[p] = next /\ \A q \in People : q # p => at'[q] = at[q]
<1>1. at \in [People -> PhyloPlaces]
  BY DEF TableInv, Seated, People
<1> QED
  BY <1>1

LEMMA SeatsArePeople == MAIN \in People /\ \A id \in SEATS : id \in People /\ id # MAIN
BY SeatsAndSlots DEF People

(* A turn of sem_wait: p sleeps, or goes on, with a permit if it may use   *)
(* the semaphore.                                                          *)
LEMMA Waits ==
  ASSUME SoundTable(sems), NEW s \in SEMS \cup {NO_SEM}, NEW p \in People, NEW next, WaitOn(s, p, next)
  PROVE  /\ SoundTable(sems') /\ SameUsers(sems, sems')
         /\ \A r \in SEMS : /\ r # s => sems'.list[r].sem_value = sems.list[r].sem_value
                            /\ sems'.list[r].sem_value <= sems.list[r].sem_value
         /\ \/ at' = at /\ \A r \in SEMS : sems'.list[r].sem_value = sems.list[r].sem_value
            \/ /\ at' = [at EXCEPT ![p] = next]
               /\ MayUse(sems, s, p) => /\ s \in SEMS /\ sems.list[s].sem_value > 0
                                        /\ sems'.list[s].sem_value = sems.list[s].sem_value - 1
<1>1. \A r \in SEMS : sems.list[r].sem_value \in Nat
  BY TableOfSems
<1>2. MayUse(sems, s, p) => s \in SEMS
  BY DEF MayUse
<1>3. CASE MayUse(sems, s, p) /\ sems.list[s].sem_value <= 0
  <2>1. s \in SEMS /\ sems' = EnqueueSem(sems, s, p) /\ at' = at
    BY <1>2, <1>3 DEF WaitOn
  <2>2. Valued(sems, sems', s, sems.list[s].sem_value)
    BY <2>1, ValueStays
  <2> QED
    BY <1>1, <2>1, <2>2 DEF Valued
<1>4. CASE MayUse(sems, s, p) /\ ~(sems.list[s].sem_value <= 0)
  <2>1. s \in SEMS /\ sems' = TakeSem(sems, s, 1) /\ at' = [at EXCEPT ![p] = next]
    BY <1>2, <1>4 DEF WaitOn
  <2>2. sems.list[s].sem_value > 0
    BY <1>1, <1>4, <2>1
  <2>3. Valued(sems, sems', s, sems.list[s].sem_value - 1)
    BY <2>1, <2>2, ValueTaken
  <2> QED
    BY <1>1, <2>1, <2>2, <2>3 DEF Valued
<1>5. CASE ~MayUse(sems, s, p)
  <2>1. sems' = sems /\ at' = [at EXCEPT ![p] = next]
    BY <1>5 DEF WaitOn
  <2> QED
    BY <1>1, <1>5, <2>1 DEF SameUsers
<1> QED
  BY <1>3, <1>4, <1>5

(* What p posts: a permit more if it may use the semaphore.                *)
Added(t, s, p) == IF s \in SEMS /\ p \in t.list[s].interested THEN 1 ELSE 0

LEMMA PostsOne ==
  ASSUME NEW acc, SoundTable(acc.sems), NEW s \in SEMS \cup {NO_SEM}, NEW p \in People,
         NEW u, u = Post(acc, p, s).sems
  PROVE  /\ SoundTable(u) /\ SameUsers(acc.sems, u)
         /\ \A r \in SEMS : /\ r # s => u.list[r].sem_value = acc.sems.list[r].sem_value
                            /\ r = s => u.list[r].sem_value
                                          = acc.sems.list[r].sem_value + Added(acc.sems, s, p)
<1> DEFINE t == acc.sems
<1>1. \A r \in SEMS : t.list[r].sem_value \in Nat
  BY TableOfSems
<1>2. MayUse(t, s, p) <=> s \in SEMS /\ p \in t.list[s].interested
  BY SeatsAndSlots DEF MayUse, Interested
<1>3. CASE MayUse(t, s, p)
  <2>1. u = PostSem(t, s, 1)
    BY <1>3 DEF Post
  <2>2. Valued(t, u, s, t.list[s].sem_value + 1)
    BY <1>2, <1>3, <2>1, ValuePosted
  <2> QED
    BY <1>2, <1>3, <2>2 DEF Valued, Added
<1>4. CASE ~MayUse(t, s, p)
  <2>1. u = t
    BY <1>4 DEF Post
  <2> QED
    BY <1>1, <1>2, <1>4, <2>1 DEF SameUsers, Added
<1> QED
  BY <1>3, <1>4

LEMMA SameUsersTwice ==
  ASSUME NEW t, NEW u, NEW w, SameUsers(t, u), SameUsers(u, w)
  PROVE  SameUsers(t, w)
BY DEF SameUsers

(* The seats and their people, when nobody comes, leaves or opens          *)
(* semaphores.                                                             *)
LEMMA PeopleStay ==
  ASSUME TableInv, SeatsNamed(sems, seat), MutexKept, PeopleKept, SameUsers(sems, sems'),
         UNCHANGED <<seat, mutex>>, at[MAIN] # "over", at'[MAIN] # "over",
         \A id \in SEATS : at'[id] = at[id] \/ at[id] \notin {"gone", "comes"}
  PROVE  SeatsNamed(sems, seat)' /\ PeopleKept'
<1>1. \A i \in SEATS : seat[i] # NO_SEM => seat[i] \in SEMS
  BY DEF SeatsNamed
<1>2. SeatsNamed(sems, seat)'
  BY <1>1 DEF SeatsNamed, SameUsers
<1>3. PeopleKept'
  <2> SUFFICES ASSUME NEW id \in SEATS
               PROVE  /\ at'[id] # "gone" => seat[id] # NO_SEM
                      /\ at'[id] \notin {"gone", "comes"} =>
                            /\ id \in sems'.list[mutex].interested
                            /\ id \in sems'.list[seat[id]].interested
    BY DEF PeopleKept
  <2>1. at[id] # "gone" => seat[id] # NO_SEM
    BY DEF PeopleKept
  <2>2. at[id] \notin {"gone", "comes"} =>
           id \in sems.list[mutex].interested /\ id \in sems.list[seat[id]].interested
    BY DEF PeopleKept
  <2>3. mutex \in SEMS
    BY DEF MutexKept
  <2> QED
    BY <1>1, <2>1, <2>2, <2>3 DEF SameUsers
<1> QED
  BY <1>2, <1>3

(* The mutex, when p moves neither into nor out of the places where it is  *)
(* held.                                                                   *)
LEMMA MutexAside ==
  ASSUME MutexKept, SameUsers(sems, sems'), UNCHANGED mutex, at[MAIN] # "over", at'[MAIN] # "over",
         sems'.list[mutex].sem_value = sems.list[mutex].sem_value,
         \A p \in People : at'[p] \in LockPlaces(p) <=> at[p] \in LockPlaces(p)
  PROVE  MutexKept'
<1>1. Inside' = Inside
  BY InsidePlaces
<1> QED
  BY <1>1 DEF MutexKept, SameUsers

LEMMA MutexTaken ==
  ASSUME MutexKept, SameUsers(sems, sems'), UNCHANGED mutex, at[MAIN] # "over", at'[MAIN] # "over",
         sems.list[mutex].sem_value > 0,
         sems'.list[mutex].sem_value = sems.list[mutex].sem_value - 1,
         NEW p \in People, at'[p] \in LockPlaces(p), \A q \in People : q # p => at'[q] = at[q]
  PROVE  MutexKept'
<1>1. sems.list[mutex].sem_value = 1 /\ Inside = {}
  BY DEF MutexKept
<1>2. Inside' = {p}
  BY <1>1, InsidePlaces
<1> QED
  BY <1>1, <1>2 DEF MutexKept, SameUsers

LEMMA MutexLeft ==
  ASSUME MutexKept, SameUsers(sems, sems'), UNCHANGED mutex, at[MAIN] # "over", at'[MAIN] # "over",
         NEW p \in People, at[p] \in LockPlaces(p), at'[p] \notin LockPlaces(p),
         sems'.list[mutex].sem_value = sems.list[mutex].sem_value + 1,
         \A q \in People : q # p => at'[q] = at[q] \/ at'[q] \notin LockPlaces(q)
  PROVE  MutexKept'
<1>1. p \in Inside
  BY InsidePlaces
<1>2. sems.list[mutex].sem_value = 0 /\ Inside = {p}
  BY <1>1 DEF MutexKept
<1>3. \A q \in People : at[q] \in LockPlaces(q) => q = p
  BY <1>2, InsidePlaces
<1>4. Inside' = {}
  BY <1>3, InsidePlaces
<1> QED
  BY <1>2, <1>4 DEF MutexKept, SameUsers

(* A seat keeps its grant where its philosopher does not move, or only to  *)
(* and from places in which it has no permit, and its semaphore gains none.*)
Rests(before, after) ==
    \/ after = before
    \/ before \in {"comes", "thinks"} /\ after \in {"thinks", "is hungry"}
    \/ before = "dines" /\ after = "is done"

LEMMA GrantStays ==
  ASSUME SoundTable(sems), SoundTable(sems'), SameUsers(sems, sems'), NEW i \in SEATS,
         SeatGranted(sems, table, at, i), table'[i] = table[i],
         \A s \in SEMS : sems.list[s].name = SeatName(i) =>
            sems'.list[s].sem_value <= sems.list[s].sem_value,
         Rests(at[i], at'[i])
  PROVE  SeatGranted(sems', table', at', i)
<1>1. /\ at[i] \in {"dines", "is done"} => table[i] = "eating"
      /\ table[i] = "eating" => at[i] \in {"waits", "dines", "is done"}
      /\ table[i] = "hungry" => at[i] = "waits"
  BY DEF SeatGranted
<1>2. at'[i] = "waits" <=> at[i] = "waits"
  BY DEF Rests
<1>3. PermitsOf(table', at', i) = PermitsOf(table, at, i) /\ PermitsOf(table, at, i) \in Int
  BY <1>2 DEF PermitsOf
<1>4. ASSUME NEW s \in SEMS, sems'.list[s].name = SeatName(i)
      PROVE  sems'.list[s].sem_value <= PermitsOf(table, at, i)
  <2>1. sems.list[s].name = SeatName(i)
    BY <1>4 DEF SameUsers
  <2>2. sems.list[s].sem_value <= PermitsOf(table, at, i)
    BY <2>1 DEF SeatGranted
  <2>3. sems.list[s].sem_value \in Int
    BY TableOfSems
  <2>4. sems'.list[s].sem_value \in Int
    BY TableOfSems
  <2> QED
    BY <1>3, <2>1, <2>2, <2>3, <2>4
<1>5. /\ at'[i] \in {"dines", "is done"} => table'[i] = "eating"
      /\ table'[i] = "eating" => at'[i] \in {"waits", "dines", "is done"}
      /\ table'[i] = "hungry" => at'[i] = "waits"
  BY <1>1 DEF Rests
<1> QED
  BY <1>3, <1>4, <1>5 DEF SeatGranted

LEMMA GrantsStay ==
  ASSUME Granting, leftover' = leftover,
         \A i \in SEATS : SeatGranted(sems, table, at, i) => SeatGranted(sems', table', at', i)
  PROVE  Granting'
BY DEF Granting

FeastKept ==
    SoundTable(sems) /\ SeatsNamed(sems, seat) /\ MutexKept /\ PeopleKept /\ Granting

(* Where the process at the keyboard goes, outside the mutex.              *)
LEMMA MainMoves ==
  ASSUME FeastInv, UNCHANGED <<table, seat, mutex, sems, leftover>>,
         NEW next, at' = [at EXCEPT ![MAIN] = next], at[MAIN] # "over", next # "over",
         at[MAIN] \notin LockPlaces(MAIN), next \notin LockPlaces(MAIN)
  PROVE  FeastKept'
<1>1. at'[MAIN] = next /\ \A q \in People : q # MAIN => at'[q] = at[q]
  BY SeatsArePeople, Going DEF FeastInv
<1>2. SameUsers(sems, sems') /\ SoundTable(sems')
  BY DEF SameUsers, FeastInv
<1>3. \A id \in SEATS : at'[id] = at[id]
  BY <1>1, SeatsArePeople
<1>4. SeatsNamed(sems, seat)' /\ PeopleKept'
  BY <1>1, <1>2, <1>3, PeopleStay DEF FeastInv
<1>5. MutexKept'
  <2>1. \A p \in People : at'[p] \in LockPlaces(p) <=> at[p] \in LockPlaces(p)
    BY <1>1
  <2> QED
    BY <1>1, <1>2, <2>1, MutexAside DEF FeastInv
<1>6. Granting'
  <2>1. \A i \in SEATS : SeatGranted(sems, table, at, i) => SeatGranted(sems', table', at', i)
    BY <1>3 DEF SeatGranted, PermitsOf
  <2> QED
    BY <2>1, GrantsStay DEF FeastInv
<1> QED
  BY <1>2, <1>4, <1>5, <1>6 DEF FeastKept

LEMMA MainReads ==
  ASSUME FeastInv, Setup \/ Commands
  PROVE  FeastKept'
<1>1. /\ UNCHANGED <<table, seat, mutex, sems, leftover>> /\ at[MAIN] \in {"setup", "polls"}
      /\ \E next \in {"add", "polls", "remove", "ps", "quit"} : at' = [at EXCEPT ![MAIN] = next]
  BY DEF Setup, Commands, Goes
<1>2. PICK next \in {"add", "polls", "remove", "ps", "quit"} : at' = [at EXCEPT ![MAIN] = next]
  BY <1>1
<1>3. /\ at[MAIN] # "over" /\ next # "over"
      /\ at[MAIN] \notin LockPlaces(MAIN) /\ next \notin LockPlaces(MAIN)
  BY <1>1 DEF LockPlaces
<1> QED
  BY <1>1, <1>2, <1>3, MainMoves

(* A turn of sem_wait on the mutex.                                        *)
LEMMA LockTurns ==
  ASSUME FeastInv, UNCHANGED <<table, seat, mutex, leftover>>, at[MAIN] # "over",
         NEW p \in People, NEW next \in LockPlaces(p), next # "over", WaitOn(mutex, p, next),
         p \in sems.list[mutex].interested, at[p] \notin LockPlaces(p),
         p # MAIN => at[p] \notin {"gone", "comes"} /\ Rests(at[p], next)
  PROVE  FeastKept'
<1>1. mutex \in SEMS /\ sems.list[mutex].name = MUTEX
  BY DEF FeastInv, MutexKept
<1>2. MayUse(sems, mutex, p)
  BY <1>1, SeatsAndSlots DEF MayUse, Interested
<1>3. /\ SoundTable(sems') /\ SameUsers(sems, sems')
      /\ \A r \in SEMS : r # mutex => sems'.list[r].sem_value = sems.list[r].sem_value
      /\ \/ at' = at /\ \A r \in SEMS : sems'.list[r].sem_value = sems.list[r].sem_value
         \/ /\ at' = [at EXCEPT ![p] = next] /\ sems.list[mutex].sem_value > 0
            /\ sems'.list[mutex].sem_value = sems.list[mutex].sem_value - 1
  BY <1>1, <1>2, Waits DEF FeastInv
<1>4. \/ at' = at
      \/ at'[p] = next /\ \A q \in People : q # p => at'[q] = at[q]
  BY <1>3, Going DEF FeastInv
<1>5. at'[MAIN] # "over"
  BY <1>4, SeatsArePeople
<1>6. SeatsNamed(sems, seat)' /\ PeopleKept'
  <2>1. \A id \in SEATS : at'[id] = at[id] \/ at[id] \notin {"gone", "comes"}
    BY <1>4, SeatsArePeople
  <2> QED
    BY <1>3, <1>5, <2>1, PeopleStay DEF FeastInv
<1>7. MutexKept'
  <2>1. CASE at' = at /\ \A r \in SEMS : sems'.list[r].sem_value = sems.list[r].sem_value
    BY <1>1, <1>3, <2>1, MutexAside DEF FeastInv
  <2>2. CASE /\ at' = [at EXCEPT ![p] = next] /\ sems.list[mutex].sem_value > 0
             /\ sems'.list[mutex].sem_value = sems.list[mutex].sem_value - 1
    <3>1. at'[p] = next /\ \A q \in People : q # p => at'[q] = at[q]
      BY <2>2, Going DEF FeastInv
    <3>2. at'[p] \in LockPlaces(p)
      BY <3>1
    <3> QED
      BY <1>3, <1>5, <2>2, <3>1, <3>2, MutexTaken DEF FeastInv
  <2> QED
    BY <1>3, <2>1, <2>2
<1>8. Granting'
  <2>1. ASSUME NEW i \in SEATS, SeatGranted(sems, table, at, i)
        PROVE  SeatGranted(sems', table', at', i)
    <3>1. \A s \in SEMS : sems.list[s].name = SeatName(i) =>
             sems'.list[s].sem_value <= sems.list[s].sem_value
      <4>1. ASSUME NEW s \in SEMS, sems.list[s].name = SeatName(i)
            PROVE  sems'.list[s].sem_value <= sems.list[s].sem_value
        <5>1. s # mutex
          BY <1>1, <4>1, SeatNames
        <5>2. sems.list[s].sem_value \in Nat
          BY TableOfSems DEF FeastInv
        <5> QED
          BY <1>3, <5>1, <5>2
      <4> QED
        BY <4>1
    <3>2. Rests(at[i], at'[i])
      BY <1>4, SeatsArePeople DEF Rests
    <3>3. SoundTable(sems)
      BY DEF FeastInv
    <3> QED
      BY <1>3, <2>1, <3>1, <3>2, <3>3, GrantStays
  <2> QED
    BY <2>1, GrantsStay DEF FeastInv
<1> QED
  BY <1>3, <1>6, <1>7, <1>8 DEF FeastKept

LEMMA EverybodyLocks ==
  ASSUME FeastInv, MainTakesMutex \/ \E id \in SEATS : TakesMutex(id)
  PROVE  FeastKept'
<1>1. CASE MainTakesMutex
  <2>1. /\ UNCHANGED <<table, seat, mutex, leftover>> /\ at[MAIN] \in {"add", "remove", "ps", "quit"}
        /\ \E next \in {"adds", "removes", "lists", "quits"} : WaitOn(mutex, MAIN, next)
    BY <1>1 DEF MainTakesMutex
  <2>2. PICK next \in {"adds", "removes", "lists", "quits"} : WaitOn(mutex, MAIN, next)
    BY <2>1
  <2>3. at[MAIN] # "over" /\ next # "over" /\ next \in LockPlaces(MAIN) /\ at[MAIN] \notin LockPlaces(MAIN)
    BY <2>1 DEF LockPlaces
  <2>4. MAIN \in sems.list[mutex].interested
    BY <2>3 DEF FeastInv, MutexKept
  <2> QED
    BY <2>1, <2>2, <2>3, <2>4, SeatsArePeople, LockTurns
<1>2. CASE \E id \in SEATS : TakesMutex(id)
  <2>1. PICK id \in SEATS : TakesMutex(id)
    BY <1>2
  <2>2. /\ UNCHANGED <<table, seat, mutex, leftover>>
        /\ \/ at[id] = "thinks" /\ WaitOn(mutex, id, "is hungry")
           \/ at[id] = "dines" /\ WaitOn(mutex, id, "is done")
    BY <2>1 DEF TakesMutex
  <2>3. PICK next \in {"is hungry", "is done"} : WaitOn(mutex, id, next) /\ Rests(at[id], next)
    BY <2>2 DEF Rests
  <2>4. id \in People /\ id # MAIN
    BY SeatsArePeople
  <2>5. /\ next # "over" /\ next \in LockPlaces(id) /\ at[id] \notin LockPlaces(id)
        /\ at[id] \notin {"gone", "comes"}
    BY <2>2, <2>4 DEF LockPlaces
  <2>6. at[MAIN] # "over" /\ id \in sems.list[mutex].interested
    BY <2>5 DEF FeastInv, PeopleKept
  <2> QED
    BY <2>2, <2>3, <2>4, <2>5, <2>6, LockTurns
<1> QED
  BY <1>1, <1>2

(* A turn of sem_wait on the semaphore of a seat.                          *)
LEMMA SeatTurns ==
  ASSUME FeastInv, UNCHANGED <<table, seat, mutex, leftover>>, at[MAIN] # "over",
         NEW i \in SEATS, NEW p \in People, NEW next, next # "over", WaitOn(seat[i], p, next),
         at[p] \notin LockPlaces(p), next \notin LockPlaces(p),
         p # MAIN => p = i /\ at[p] = "waits" /\ next = "dines"
  PROVE  FeastKept'
<1>1. mutex \in SEMS /\ sems.list[mutex].name = MUTEX
  BY DEF FeastInv, MutexKept
<1>2. /\ seat[i] \in SEMS \cup {NO_SEM}
      /\ seat[i] # NO_SEM => seat[i] \in SEMS /\ sems.list[seat[i]].name = SeatName(i)
  BY DEF FeastInv, SeatsNamed
<1>3. mutex # seat[i]
  BY <1>1, <1>2, SeatNames, SeatsAndSlots
<1>4. /\ SoundTable(sems') /\ SameUsers(sems, sems')
      /\ \A r \in SEMS : /\ r # seat[i] => sems'.list[r].sem_value = sems.list[r].sem_value
                         /\ sems'.list[r].sem_value <= sems.list[r].sem_value
      /\ \/ at' = at
         \/ /\ at' = [at EXCEPT ![p] = next]
            /\ MayUse(sems, seat[i], p) =>
                  /\ seat[i] \in SEMS /\ sems.list[seat[i]].sem_value > 0
                  /\ sems'.list[seat[i]].sem_value = sems.list[seat[i]].sem_value - 1
  BY <1>2, Waits DEF FeastInv
<1>5. \/ at' = at
      \/ at'[p] = next /\ \A q \in People : q # p => at'[q] = at[q]
  BY <1>4, Going DEF FeastInv
<1>6. at'[MAIN] # "over"
  BY <1>5, SeatsArePeople
<1>7. SeatsNamed(sems, seat)' /\ PeopleKept'
  <2>1. \A id \in SEATS : at'[id] = at[id] \/ at[id] \notin {"gone", "comes"}
    BY <1>5, SeatsArePeople
  <2> QED
    BY <1>4, <1>6, <2>1, PeopleStay DEF FeastInv
<1>8. MutexKept'
  <2>1. \A q \in People : at'[q] \in LockPlaces(q) <=> at[q] \in LockPlaces(q)
    BY <1>5
  <2>2. sems'.list[mutex].sem_value = sems.list[mutex].sem_value
    BY <1>1, <1>3, <1>4
  <2> QED
    BY <1>4, <1>6, <2>1, <2>2, MutexAside DEF FeastInv
<1>9. Granting'
  <2>1. ASSUME NEW j \in SEATS, SeatGranted(sems, table, at, j)
        PROVE  SeatGranted(sems', table', at', j)
    <3>1. SoundTable(sems) /\ \A s \in SEMS : sems'.list[s].sem_value <= sems.list[s].sem_value
      BY <1>4 DEF FeastInv
    <3>2. CASE at'[j] = at[j]
      <4>1. Rests(at[j], at'[j])
        BY <3>2 DEF Rests
      <4> QED
        BY <1>4, <2>1, <3>1, <4>1, GrantStays
    <3>3. CASE at'[j] # at[j]
      <4>1. p = j /\ p = i /\ at[i] = "waits" /\ at'[i] = "dines" /\ at' = [at EXCEPT ![p] = next]
        BY <1>4, <1>5, <3>3, SeatsArePeople
      <4>2. seat[i] # NO_SEM /\ i \in sems.list[seat[i]].interested
        BY <4>1 DEF FeastInv, PeopleKept
      <4>3. MayUse(sems, seat[i], p)
        BY <4>1, <4>2 DEF MayUse, Interested
      <4>4. /\ sems.list[seat[i]].sem_value > 0 /\ seat[i] \in SEMS
            /\ sems'.list[seat[i]].sem_value = sems.list[seat[i]].sem_value - 1
        BY <1>4, <3>3, <4>1, <4>3
      <4>5. sems.list[seat[i]].sem_value <= PermitsOf(table, at, i)
        BY <1>2, <2>1, <4>1, <4>2 DEF SeatGranted
      <4>6. sems.list[seat[i]].sem_value \in Nat
        BY <4>4, TableOfSems DEF FeastInv
      <4>7. table[i] = "eating" /\ sems.list[seat[i]].sem_value <= 1
        BY <4>4, <4>5, <4>6 DEF PermitsOf
      <4>8. PermitsOf(table', at', i) = 0 /\ sems'.list[seat[i]].sem_value <= 0
        <5>1. at'[i] # "waits"
          BY <4>1
        <5> QED
          BY <4>4, <4>6, <4>7, <5>1 DEF PermitsOf
      <4>9. \A s \in SEMS : sems'.list[s].name = SeatName(i) => s = seat[i]
        BY <1>2, <1>4, <4>2, SeatNames DEF SameUsers, SoundTable
      <4>10. \A s \in SEMS : sems'.list[s].name = SeatName(i) =>
                sems'.list[s].sem_value <= PermitsOf(table', at', i)
        BY <4>8, <4>9
      <4>11. /\ at'[i] \in {"dines", "is done"} => table'[i] = "eating"
             /\ table'[i] = "eating" => at'[i] \in {"waits", "dines", "is done"}
             /\ table'[i] = "hungry" => at'[i] = "waits"
        BY <4>1, <4>7
      <4> QED
        BY <4>1, <4>10, <4>11 DEF SeatGranted
    <3> QED
      BY <3>2, <3>3
  <2> QED
    BY <2>1, GrantsStay DEF FeastInv
<1> QED
  BY <1>4, <1>7, <1>8, <1>9 DEF FeastKept

LEMMA EverybodyWaits ==
  ASSUME FeastInv, WaitsForSeat \/ \E id \in SEATS : Dines(id)
  PROVE  FeastKept'
<1>1. CASE WaitsForSeat
  <2>1. /\ UNCHANGED <<table, seat, mutex, leftover>> /\ at[MAIN] = "stands back"
        /\ WaitOn(seat[LastSeat], MAIN, "remove")
    BY <1>1 DEF WaitsForSeat
  <2>2. LastSeat \in SEATS
    <3>1. num \in 0..MAX_PHILOSOPHERS /\ num > MIN_PHILOSOPHERS
      BY <2>1 DEF FeastInv, TableInv, PhyloTypeOK, Seated
    <3> QED
      BY <3>1, PhyloAssumption DEF LastSeat, SEATS
  <2>3. at[MAIN] # "over" /\ at[MAIN] \notin LockPlaces(MAIN) /\ "remove" \notin LockPlaces(MAIN)
    BY <2>1 DEF LockPlaces
  <2> QED
    BY <2>1, <2>2, <2>3, SeatsArePeople, SeatTurns
<1>2. CASE \E id \in SEATS : Dines(id)
  <2>1. PICK id \in SEATS : Dines(id)
    BY <1>2
  <2>2. /\ UNCHANGED <<table, seat, mutex, leftover>> /\ at[id] = "waits"
        /\ WaitOn(seat[id], id, "dines")
    BY <2>1 DEF Dines
  <2>3. id \in People /\ id # MAIN
    BY SeatsArePeople
  <2>4. at[id] \notin LockPlaces(id) /\ "dines" \notin LockPlaces(id)
    BY <2>2, <2>3 DEF LockPlaces
  <2>5. at[MAIN] # "over"
    BY <2>2 DEF FeastInv, PeopleKept
  <2> QED
    BY <2>2, <2>3, <2>4, <2>5, SeatTurns
<1> QED
  BY <1>1, <1>2

(* try_to_eat posts the semaphore of the philosopher it grants the table.  *)
LEMMA TryPosts ==
  ASSUME NEW acc, SoundTable(acc.sems), SeatsNamed(acc.sems, seat), NEW tab, NEW j \in SEATS,
         NEW p \in People, NEW u, u = Post(acc, p, Granted(tab, j)).sems
  PROVE  /\ SoundTable(u) /\ SameUsers(acc.sems, u) /\ SeatsNamed(u, seat)
         /\ \A s \in SEMS : /\ acc.sems.list[s].name # SeatName(j) \/ ~CanEat(tab, j)
                                 => u.list[s].sem_value = acc.sems.list[s].sem_value
                            /\ u.list[s].sem_value <= acc.sems.list[s].sem_value + 1
<1>1. /\ seat[j] \in SEMS \cup {NO_SEM}
      /\ seat[j] # NO_SEM => seat[j] \in SEMS /\ acc.sems.list[seat[j]].name = SeatName(j)
  BY DEF SeatsNamed
<1>2. PICK g \in SEMS \cup {NO_SEM} :
         g = Granted(tab, j) /\ (g # NO_SEM => CanEat(tab, j) /\ g = seat[j])
  BY <1>1 DEF Granted
<1>3. u = Post(acc, p, g).sems
  BY <1>2
<1>4. /\ SoundTable(u) /\ SameUsers(acc.sems, u)
      /\ \A r \in SEMS : /\ r # g => u.list[r].sem_value = acc.sems.list[r].sem_value
                         /\ r = g => u.list[r].sem_value
                                       = acc.sems.list[r].sem_value + Added(acc.sems, g, p)
  BY <1>3, PostsOne
<1>5. \A s \in SEMS : acc.sems.list[s].sem_value \in Nat
  BY TableOfSems
<1>6. Added(acc.sems, g, p) \in {0, 1}
  BY DEF Added
<1>7. \A s \in SEMS : u.list[s].sem_value <= acc.sems.list[s].sem_value + 1
  BY <1>4, <1>5, <1>6
<1>8. \A s \in SEMS : acc.sems.list[s].name # SeatName(j) \/ ~CanEat(tab, j) => s # g
  BY <1>1, <1>2, SeatsAndSlots
<1>9. SeatsNamed(u, seat)
  BY <1>4 DEF SeatsNamed, SameUsers
<1> QED
  BY <1>4, <1>7, <1>8, <1>9

(* ... and grants it once.                                                 *)
LEMMA TryGrants ==
  ASSUME NEW acc, SoundTable(acc.sems), SeatsNamed(acc.sems, seat), NEW tab \in [SEATS -> States],
         NEW j \in SEATS, NEW p \in People, NEW u, u = Post(acc, p, Granted(tab, j)).sems,
         NEW a, NEW i \in SEATS, SeatGranted(acc.sems, tab, a, i)
  PROVE  SeatGranted(u, TryToEat(tab, j), a, i)
<1> DEFINE t == acc.sems
<1>1. /\ SoundTable(u) /\ SameUsers(t, u)
      /\ \A s \in SEMS : /\ t.list[s].name # SeatName(j) \/ ~CanEat(tab, j)
                              => u.list[s].sem_value = t.list[s].sem_value
                         /\ u.list[s].sem_value <= t.list[s].sem_value + 1
  BY TryPosts
<1> HIDE DEF t
<1>2. CASE i = j /\ CanEat(tab, j)
  <2>1. tab[i] = "hungry" /\ TryToEat(tab, j)[i] = "eating"
    BY <1>2 DEF CanEat, TryToEat
  <2>2. a[i] = "waits"
    BY <2>1 DEF SeatGranted
  <2>3. PermitsOf(tab, a, i) = 0 /\ PermitsOf(TryToEat(tab, j), a, i) = 1
    BY <2>1, <2>2 DEF PermitsOf
  <2>4. ASSUME NEW s \in SEMS, u.list[s].name = SeatName(i) PROVE u.list[s].sem_value <= 1
    <3>1. t.list[s].name = SeatName(i)
      BY <1>1, <2>4 DEF SameUsers
    <3>2. t.list[s].sem_value <= 0
      BY <2>3, <3>1 DEF SeatGranted, t
    <3>3. t.list[s].sem_value \in Nat /\ u.list[s].sem_value \in Nat
      <4>1. t.list[s].sem_value \in Nat
        BY TableOfSems DEF t
      <4>2. u.list[s].sem_value \in Nat
        BY <1>1, TableOfSems
      <4> QED
        BY <4>1, <4>2
    <3> QED
      BY <1>1, <3>2, <3>3
  <2> QED
    BY <2>1, <2>2, <2>3, <2>4 DEF SeatGranted
<1>3. CASE i # j \/ ~CanEat(tab, j)
  <2>1. TryToEat(tab, j)[i] = tab[i]
    BY <1>3 DEF TryToEat
  <2>2. PermitsOf(TryToEat(tab, j), a, i) = PermitsOf(tab, a, i)
    BY <2>1 DEF PermitsOf
  <2>3. ASSUME NEW s \in SEMS, u.list[s].name = SeatName(i)
        PROVE  u.list[s].sem_value <= PermitsOf(tab, a, i)
    <3>1. t.list[s].name = SeatName(i)
      BY <1>1, <2>3 DEF SameUsers
    <3>2. u.list[s].sem_value = t.list[s].sem_value
      BY <1>1, <1>3, <3>1, SeatNames
    <3>3. t.list[s].sem_value <= PermitsOf(tab, a, i)
      BY <3>1 DEF SeatGranted, t
    <3> QED
      BY <3>2, <3>3
  <2> QED
    BY <2>1, <2>2, <2>3 DEF SeatGranted
<1> QED
  BY <1>2, <1>3

(* p posts the mutex at the end of what it posted before.                  *)
LEMMA MutexPosted ==
  ASSUME NEW acc, SoundTable(acc.sems), NEW p \in People, mutex \in SEMS,
         p \in acc.sems.list[mutex].interested, PostsMutex(acc, p)
  PROVE  /\ SoundTable(sems') /\ SameUsers(acc.sems, sems')
         /\ sems'.list[mutex].sem_value = acc.sems.list[mutex].sem_value + 1
         /\ \A r \in SEMS : r # mutex => sems'.list[r].sem_value = acc.sems.list[r].sem_value
<1>1. sems' = Post(acc, p, mutex).sems
  BY DEF PostsMutex
<1>2. Added(acc.sems, mutex, p) = 1
  BY DEF Added
<1> QED
  BY <1>1, <1>2, PostsOne

LEMMA Unlocks ==
  ASSUME FeastInv, UNCHANGED <<seat, mutex, leftover>>, at[MAIN] # "over",
         NEW p \in People, at[p] \in LockPlaces(p), p \in sems.list[mutex].interested,
         NEW next, next \notin LockPlaces(p), next # "over", at' = [at EXCEPT ![p] = next],
         NEW acc, SoundTable(acc.sems), SameUsers(sems, acc.sems), PostsMutex(acc, p),
         acc.sems.list[mutex].sem_value = sems.list[mutex].sem_value,
         \A i \in SEATS : SeatGranted(sems, table, at, i) => SeatGranted(acc.sems, table', at', i)
  PROVE  FeastKept'
<1>1. mutex \in SEMS /\ sems.list[mutex].name = MUTEX
  BY DEF FeastInv, MutexKept
<1>2. p \in acc.sems.list[mutex].interested
  BY <1>1 DEF SameUsers
<1>3. /\ SoundTable(sems') /\ SameUsers(acc.sems, sems')
      /\ sems'.list[mutex].sem_value = acc.sems.list[mutex].sem_value + 1
      /\ \A r \in SEMS : r # mutex => sems'.list[r].sem_value = acc.sems.list[r].sem_value
  BY <1>1, <1>2, MutexPosted
<1>4. SameUsers(sems, sems')
  BY <1>3, SameUsersTwice
<1>5. at'[p] = next /\ \A q \in People : q # p => at'[q] = at[q]
  BY Going DEF FeastInv
<1>6. at'[MAIN] # "over"
  BY <1>5, SeatsArePeople
<1>7. SeatsNamed(sems, seat)' /\ PeopleKept'
  <2>1. \A id \in SEATS : at'[id] = at[id] \/ at[id] \notin {"gone", "comes"}
    BY <1>5, SeatsArePeople DEF LockPlaces
  <2> QED
    BY <1>4, <1>6, <2>1, PeopleStay DEF FeastInv
<1>8. MutexKept'
  <2>1. at'[p] \notin LockPlaces(p)
    BY <1>5
  <2>2. sems'.list[mutex].sem_value = sems.list[mutex].sem_value + 1
    BY <1>3
  <2> QED
    BY <1>4, <1>5, <1>6, <2>1, <2>2, MutexLeft DEF FeastInv
<1>9. Granting'
  <2>1. ASSUME NEW i \in SEATS, SeatGranted(sems, table, at, i)
        PROVE  SeatGranted(sems', table', at', i)
    <3>1. SeatGranted(acc.sems, table', at', i)
      BY <2>1
    <3>2. ASSUME NEW s \in SEMS, sems'.list[s].name = SeatName(i)
          PROVE  sems'.list[s].sem_value <= PermitsOf(table', at', i)
      <4>1. acc.sems.list[s].name = SeatName(i) /\ sems.list[s].name = SeatName(i)
        BY <1>3, <1>4, <3>2 DEF SameUsers
      <4>2. s # mutex
        BY <1>1, <4>1, SeatNames
      <4>3. acc.sems.list[s].sem_value <= PermitsOf(table', at', i)
        BY <3>1, <4>1 DEF SeatGranted
      <4> QED
        BY <1>3, <4>2, <4>3
    <3> QED
      BY <3>1, <3>2 DEF SeatGranted
  <2> QED
    BY <2>1, GrantsStay DEF FeastInv
<1> QED
  BY <1>3, <1>7, <1>8, <1>9 DEF FeastKept

LEMMA MainUnlocks ==
  ASSUME FeastInv, PsListed \/ StandsBack
  PROVE  FeastKept'
<1>1. /\ UNCHANGED <<table, seat, mutex, leftover>> /\ at[MAIN] \in {"lists", "removes"}
      /\ PostsMutex(Nothing(sems), MAIN)
      /\ \E next \in {"polls", "stands back"} : at' = [at EXCEPT ![MAIN] = next]
  BY DEF PsListed, StandsBack, Goes
<1>2. PICK next \in {"polls", "stands back"} : at' = [at EXCEPT ![MAIN] = next]
  BY <1>1
<1>3. /\ at[MAIN] # "over" /\ next # "over"
      /\ at[MAIN] \in LockPlaces(MAIN) /\ next \notin LockPlaces(MAIN)
  BY <1>1 DEF LockPlaces
<1>4. MAIN \in sems.list[mutex].interested /\ MAIN \in People
  BY <1>3, SeatsArePeople DEF FeastInv, MutexKept
<1>5. PICK acc : acc = Nothing(sems) /\ acc.sems = sems
  <2>1. Nothing(sems).sems = sems
    BY DEF Nothing
  <2> QED
    BY <2>1
<1>6. SoundTable(acc.sems) /\ SameUsers(sems, acc.sems)
  BY <1>5 DEF SameUsers, FeastInv
<1>7. \A i \in SEATS : SeatGranted(sems, table, at, i) => SeatGranted(acc.sems, table', at', i)
  <2>1. \A i \in SEATS : at'[i] = at[i]
    BY <1>2, <1>4, Going, SeatsArePeople DEF FeastInv
  <2> QED
    BY <1>1, <1>5, <2>1 DEF SeatGranted, PermitsOf
<1> QED
  BY <1>1, <1>2, <1>3, <1>4, <1>5, <1>6, <1>7, Unlocks

LEMMA AtTheTable ==
  ASSUME FeastInv, NEW id \in SEATS
  PROVE  /\ at[id] # "gone" => num \in Nat \ {0} /\ id \in 0..num - 1
         /\ \A j \in 0..num - 1 : j \in SEATS
BY MainStands DEF FeastInv

(* The philosopher at the mutex: it may use it, and its seat is at the     *)
(* table.                                                                  *)
LEMMA AtTheMutex ==
  ASSUME FeastInv, NEW id \in SEATS, at[id] \in {"is hungry", "is done"}
  PROVE  /\ at[MAIN] # "over" /\ id \in sems.list[mutex].interested /\ id \in People
         /\ at[id] \in LockPlaces(id) /\ mutex \in SEMS /\ sems.list[mutex].name = MUTEX
         /\ "waits" \notin LockPlaces(id) /\ "thinks" \notin LockPlaces(id)
         /\ num \in Nat \ {0} /\ id \in 0..num - 1 /\ LEFT(id, num) \in SEATS /\ RIGHT(id, num) \in SEATS
         /\ table \in [SEATS -> States]
<1>1. at[MAIN] # "over" /\ id \in sems.list[mutex].interested
  BY DEF FeastInv, PeopleKept
<1>2. mutex \in SEMS /\ sems.list[mutex].name = MUTEX
  BY <1>1 DEF FeastInv, MutexKept
<1>3. id \in People /\ id # MAIN
  BY SeatsArePeople
<1>4. at[id] \in LockPlaces(id) /\ "waits" \notin LockPlaces(id) /\ "thinks" \notin LockPlaces(id)
  BY <1>3 DEF LockPlaces
<1>5. num \in Nat \ {0} /\ id \in 0..num - 1 /\ \A j \in 0..num - 1 : j \in SEATS
  <2>1. at[id] # "gone"
    OBVIOUS
  <2> QED
    BY ONLY FeastInv, id \in SEATS, <2>1, AtTheTable
<1>6. LEFT(id, num) \in SEATS /\ RIGHT(id, num) \in SEATS
  BY <1>5, Around
<1>7. table \in [SEATS -> States]
  BY DEF FeastInv, TableInv, PhyloTypeOK, States
<1> QED
  BY <1>1, <1>2, <1>3, <1>4, <1>5, <1>6, <1>7

LEMMA HungryKeeps ==
  ASSUME FeastInv, NEW id \in SEATS, GetsHungry(id)
  PROVE  FeastKept'
<1> DEFINE hungry == [table EXCEPT ![id] = "hungry"]
<1>1. /\ at[id] = "is hungry" /\ table' = TryToEat(hungry, id) /\ at' = [at EXCEPT ![id] = "waits"]
      /\ UNCHANGED <<seat, mutex, leftover>>
      /\ PostsMutex(Post(Nothing(sems), id, Granted(hungry, id)), id)
  BY DEF GetsHungry
<1>2. /\ at[MAIN] # "over" /\ id \in sems.list[mutex].interested /\ id \in People
      /\ at[id] \in LockPlaces(id) /\ mutex \in SEMS /\ sems.list[mutex].name = MUTEX
      /\ "waits" \notin LockPlaces(id) /\ table \in [SEATS -> States]
  BY <1>1, AtTheMutex
<1>3. hungry \in [SEATS -> States] /\ hungry[id] = "hungry" /\ \A j \in SEATS : j # id => hungry[j] = table[j]
  BY <1>2 DEF States
<1> HIDE DEF hungry
<1>4. PICK acc : acc = Post(Nothing(sems), id, Granted(hungry, id))
  OBVIOUS
<1>5. Nothing(sems).sems = sems /\ SoundTable(sems) /\ SeatsNamed(sems, seat)
  BY DEF Nothing, FeastInv
<1>6. PICK none : none = Nothing(sems) /\ none.sems = sems
  BY <1>5
<1>7. /\ SoundTable(acc.sems) /\ SameUsers(sems, acc.sems)
      /\ \A s \in SEMS : sems.list[s].name # SeatName(id) =>
            acc.sems.list[s].sem_value = sems.list[s].sem_value
  BY <1>2, <1>4, <1>5, <1>6, TryPosts
<1>8. acc.sems.list[mutex].sem_value = sems.list[mutex].sem_value
  BY <1>2, <1>7, SeatNames
<1>9. ASSUME NEW i \in SEATS, SeatGranted(sems, table, at, i)
      PROVE  SeatGranted(acc.sems, table', at', i)
  <2>1. at'[id] = "waits" /\ \A q \in People : q # id => at'[q] = at[q]
    BY <1>1, <1>2, Going DEF FeastInv
  <2>2. SeatGranted(sems, hungry, at', i)
    <3>1. CASE i = id
      <4>1. PermitsOf(table, at, i) = 0 /\ PermitsOf(hungry, at', i) = 0
        BY <1>1, <1>3, <3>1 DEF PermitsOf
      <4> QED
        BY <1>3, <1>9, <2>1, <3>1, <4>1 DEF SeatGranted
    <3>2. CASE i # id
      <4>1. hungry[i] = table[i] /\ at'[i] = at[i]
        BY <1>3, <2>1, <3>2, SeatsArePeople
      <4> QED
        BY <1>9, <4>1 DEF SeatGranted, PermitsOf
    <3> QED
      BY <3>1, <3>2
  <2> QED
    BY <1>1, <1>2, <1>3, <1>4, <1>5, <1>6, <2>2, TryGrants
<1> QED
  BY <1>1, <1>2, <1>4, <1>7, <1>8, <1>9, Unlocks

LEMMA DoneKeeps ==
  ASSUME FeastInv, NEW id \in SEATS, IsDone(id)
  PROVE  FeastKept'
<1> DEFINE thinking == [table EXCEPT ![id] = "thinking"]
           left == TryToEat(thinking, LEFT(id, num))
<1>1. /\ at[id] = "is done" /\ table' = TryToEat(left, RIGHT(id, num))
      /\ at' = [at EXCEPT ![id] = "thinks"] /\ UNCHANGED <<seat, mutex, leftover>>
      /\ PostsMutex(Post(Post(Nothing(sems), id, Granted(thinking, LEFT(id, num))),
                         id, Granted(left, RIGHT(id, num))), id)
  BY DEF IsDone
<1>2. /\ at[MAIN] # "over" /\ id \in sems.list[mutex].interested /\ id \in People
      /\ at[id] \in LockPlaces(id) /\ mutex \in SEMS /\ sems.list[mutex].name = MUTEX
      /\ "thinks" \notin LockPlaces(id) /\ table \in [SEATS -> States]
      /\ LEFT(id, num) \in SEATS /\ RIGHT(id, num) \in SEATS
  BY <1>1, AtTheMutex
<1>3. /\ thinking \in [SEATS -> States] /\ thinking[id] = "thinking"
      /\ \A j \in SEATS : j # id => thinking[j] = table[j]
  BY <1>2 DEF States
<1> HIDE DEF thinking
<1>4. left \in [SEATS -> States]
  BY <1>2, <1>3 DEF TryToEat, States
<1>5. PICK mid : mid = TryToEat(thinking, LEFT(id, num)) /\ mid = left
  OBVIOUS
<1> HIDE DEF left
<1>6. PICK none : none = Nothing(sems) /\ none.sems = sems
  <2>1. Nothing(sems).sems = sems
    BY DEF Nothing
  <2> QED
    BY <2>1
<1>7. PICK one : one = Post(none, id, Granted(thinking, LEFT(id, num)))
  OBVIOUS
<1>8. PICK acc : acc = Post(one, id, Granted(mid, RIGHT(id, num)))
  OBVIOUS
<1>9. SoundTable(sems) /\ SeatsNamed(sems, seat)
  BY DEF FeastInv
<1>10. /\ SoundTable(one.sems) /\ SameUsers(sems, one.sems) /\ SeatsNamed(one.sems, seat)
       /\ \A s \in SEMS : sems.list[s].name # SeatName(LEFT(id, num)) =>
             one.sems.list[s].sem_value = sems.list[s].sem_value
  BY <1>2, <1>6, <1>7, <1>9, TryPosts
<1>11. /\ SoundTable(acc.sems) /\ SameUsers(one.sems, acc.sems)
       /\ \A s \in SEMS : one.sems.list[s].name # SeatName(RIGHT(id, num)) =>
             acc.sems.list[s].sem_value = one.sems.list[s].sem_value
  BY <1>2, <1>8, <1>10, TryPosts
<1>12. SameUsers(sems, acc.sems)
  BY <1>10, <1>11, SameUsersTwice
<1>13. acc.sems.list[mutex].sem_value = sems.list[mutex].sem_value
  <2>1. one.sems.list[mutex].name = MUTEX
    BY <1>2, <1>10 DEF SameUsers
  <2> QED
    BY <1>2, <1>10, <1>11, <2>1, SeatNames
<1>14. ASSUME NEW i \in SEATS, SeatGranted(sems, table, at, i)
       PROVE  SeatGranted(acc.sems, table', at', i)
  <2>1. at'[id] = "thinks" /\ \A q \in People : q # id => at'[q] = at[q]
    BY <1>1, <1>2, Going DEF FeastInv
  <2>2. SeatGranted(sems, thinking, at', i)
    <3>1. CASE i = id
      <4>1. PermitsOf(table, at, i) = 0 /\ PermitsOf(thinking, at', i) = 0
        BY <1>1, <1>3, <3>1 DEF PermitsOf
      <4> QED
        BY <1>3, <1>14, <2>1, <3>1, <4>1 DEF SeatGranted
    <3>2. CASE i # id
      <4>1. thinking[i] = table[i] /\ at'[i] = at[i]
        BY <1>3, <2>1, <3>2, SeatsArePeople
      <4> QED
        BY <1>14, <4>1 DEF SeatGranted, PermitsOf
    <3> QED
      BY <3>1, <3>2
  <2>3. SeatGranted(one.sems, mid, at', i)
    BY <1>2, <1>3, <1>5, <1>6, <1>7, <1>9, <2>2, TryGrants
  <2>4. SeatGranted(acc.sems, TryToEat(mid, RIGHT(id, num)), at', i)
    BY <1>2, <1>4, <1>5, <1>8, <1>10, <2>3, TryGrants
  <2> QED
    BY <1>1, <1>5, <2>4
<1>15. PostsMutex(acc, id)
  BY <1>1, <1>5, <1>6, <1>7, <1>8
<1> QED
  BY <1>1, <1>2, <1>11, <1>12, <1>13, <1>14, <1>15, Unlocks

-----------------------------------------------------------------------------
(* Opening the semaphores of seats: what is open stays, with its permits   *)
(* and users, and what is new has none.                                    *)
Opening(t, u) ==
    /\ SoundTable(u) /\ Visible(u)
    /\ \A s \in SEMS :
          /\ t.list[s].name # NO_NAME =>
                /\ u.list[s].name = t.list[s].name /\ u.list[s].sem_value = t.list[s].sem_value
                /\ t.list[s].interested \subseteq u.list[s].interested
          /\ t.list[s].name = NO_NAME /\ u.list[s].name # NO_NAME =>
                u.list[s].sem_value = 0 /\ u.list[s].name # MUTEX

LEMMA OpeningTwice ==
  ASSUME NEW t, NEW u, NEW w, Opening(t, u), Opening(u, w)
  PROVE  Opening(t, w)
<1>1. ASSUME NEW s \in SEMS
      PROVE  /\ t.list[s].name # NO_NAME =>
                /\ w.list[s].name = t.list[s].name /\ w.list[s].sem_value = t.list[s].sem_value
                /\ t.list[s].interested \subseteq w.list[s].interested
             /\ t.list[s].name = NO_NAME /\ w.list[s].name # NO_NAME =>
                w.list[s].sem_value = 0 /\ w.list[s].name # MUTEX
  BY DEF Opening
<1> QED
  BY <1>1 DEF Opening

(* A name that is open already, or that of a seat without permits.         *)
LEMMA OpensMore ==
  ASSUME NEW t, SoundTable(t), Visible(t), NEW p \in People, NEW name \in PhyloNames, NEW v \in Nat,
         \/ v = 0 /\ name # MUTEX
         \/ \E s \in SEMS : t.list[s].name = name,
         NEW r, r = OpenedSem(t, p, name, v), NEW u, u = OpenSem(t, p, name, v)
  PROVE  /\ Opening(t, u) /\ r \in SEMS /\ u.list[r].name = name /\ p \in u.list[r].interested
<1>1. r \in SEMS /\ SoundTable(u) /\ Visible(u) /\ Gets(t, u, r, p, name, v)
  BY Gotten
<1>2. u.list[r].name = name /\ p \in u.list[r].interested
  BY <1>1 DEF Gets
<1>3. ASSUME NEW s \in SEMS
      PROVE  /\ t.list[s].name # NO_NAME =>
                /\ u.list[s].name = t.list[s].name /\ u.list[s].sem_value = t.list[s].sem_value
                /\ t.list[s].interested \subseteq u.list[s].interested
             /\ t.list[s].name = NO_NAME /\ u.list[s].name # NO_NAME =>
                u.list[s].sem_value = 0 /\ u.list[s].name # MUTEX
  <2>1. CASE s # r
    BY <1>1, <2>1 DEF Gets
  <2>2. CASE s = r
    BY <1>1, <2>2, PhyloNamed DEF Gets
  <2> QED
    BY <2>1, <2>2
<1> QED
  BY <1>1, <1>2, <1>3 DEF Opening

(* The accumulated semaphores and seats.                                   *)
Arrived(t, st, acc) ==
    /\ Opening(t, acc.sems) /\ SeatsNamed(acc.sems, acc.seat)
    /\ \A i \in SEATS : st[i] # NO_SEM => acc.seat[i] # NO_SEM

LEMMA NamesStay ==
  ASSUME NEW t, NEW u, NEW st, Opening(t, u), SeatsNamed(t, st)
  PROVE  SeatsNamed(u, st)
<1>1. \A i \in SEATS : st[i] # NO_SEM => st[i] \in SEMS /\ t.list[st[i]].name # NO_NAME
  BY SeatNames DEF SeatsNamed
<1> QED
  BY <1>1 DEF SeatsNamed, Opening

LEMMA OpensSeat ==
  ASSUME NEW t, NEW st, NEW acc, Arrived(t, st, acc), NEW id \in SEATS, NEW i \in SEATS,
         NEW new, new = OpenSeat(acc, id, i)
  PROVE  /\ Arrived(t, st, new) /\ Opening(acc.sems, new.sems)
         /\ new.seat[i] \in SEMS /\ id \in new.sems.list[new.seat[i]].interested
<1> DEFINE r == OpenedSem(acc.sems, id, SeatName(i), 0)
           u == OpenSem(acc.sems, id, SeatName(i), 0)
<1>1. SoundTable(acc.sems) /\ Visible(acc.sems)
  BY DEF Arrived, Opening
<1>2. SeatName(i) \in PhyloNames /\ SeatName(i) # MUTEX /\ id \in People
  BY PhyloNamed, SeatNames, SeatsArePeople
<1>3. Opening(acc.sems, u) /\ r \in SEMS /\ u.list[r].name = SeatName(i) /\ id \in u.list[r].interested
  BY <1>1, <1>2, OpensMore
<1>4. new.sems = u /\ new.seat = [acc.seat EXCEPT ![i] = r]
  BY DEF OpenSeat
<1> HIDE DEF r, u
<1>5. SeatsNamed(u, acc.seat)
  BY <1>3, NamesStay DEF Arrived
<1>6. acc.seat \in [SEATS -> SEMS \cup {NO_SEM}]
  BY DEF Arrived, SeatsNamed
<1>7. /\ new.seat \in [SEATS -> SEMS \cup {NO_SEM}] /\ new.seat[i] = r
      /\ \A j \in SEATS : j # i => new.seat[j] = acc.seat[j]
  BY <1>3, <1>4, <1>6
<1>8. SeatsNamed(new.sems, new.seat)
  <2>1. ASSUME NEW j \in SEATS, new.seat[j] # NO_SEM PROVE u.list[new.seat[j]].name = SeatName(j)
    <3>1. CASE j = i
      BY <1>3, <1>7, <3>1
    <3>2. CASE j # i
      BY <1>5, <1>7, <2>1, <3>2 DEF SeatsNamed
    <3> QED
      BY <3>1, <3>2
  <2> QED
    BY <1>4, <1>7, <2>1 DEF SeatsNamed
<1>9. Opening(t, new.sems)
  BY <1>3, <1>4, OpeningTwice DEF Arrived
<1>10. \A j \in SEATS : st[j] # NO_SEM => new.seat[j] # NO_SEM
  <2>1. \A j \in SEATS : st[j] # NO_SEM => acc.seat[j] # NO_SEM
    BY DEF Arrived
  <2>2. r # NO_SEM
    BY <1>3, SeatsAndSlots
  <2> QED
    BY <1>7, <2>1, <2>2
<1> QED
  BY <1>3, <1>4, <1>7, <1>8, <1>9, <1>10 DEF Arrived

(* The loop over the seats ids: it exists, and each turn opens one more.   *)
SeatLoop(acc, id, ids, f, n) ==
    f = [k \in 0..n |-> IF k = 0 THEN acc ELSE OpenSeat(f[k - 1], id, ids[k])]

LEMMA SeatLoopExists ==
  ASSUME NEW acc, NEW id, NEW ids, NEW n \in Nat
  PROVE  \E f : SeatLoop(acc, id, ids, f, n)
<1> DEFINE bad == {i \in Nat : ~\E f : SeatLoop(acc, id, ids, f, i)}
<1> SUFFICES ASSUME bad # {} PROVE FALSE
  OBVIOUS
<1>1. PICK m \in bad : \A i \in bad : m <= i
  BY LeastNatural
<1>2. CASE m = 0
  <2> DEFINE f == [k \in 0..0 |-> acc]
  <2>1. f = [k \in 0..0 |-> IF k = 0 THEN acc ELSE OpenSeat(f[k - 1], id, ids[k])]
    OBVIOUS
  <2> HIDE DEF f
  <2> QED
    BY <1>1, <1>2, <2>1 DEF SeatLoop
<1>3. CASE m # 0
  <2>1. m - 1 \in Nat /\ m - 1 \notin bad
    BY <1>1, <1>3
  <2>2. PICK g : SeatLoop(acc, id, ids, g, m - 1)
    BY <2>1
  <2> DEFINE f == [k \in 0..m |-> IF k = m THEN OpenSeat(g[m - 1], id, ids[m]) ELSE g[k]]
  <2>3. ASSUME NEW k \in 0..m
        PROVE  f[k] = IF k = 0 THEN acc ELSE OpenSeat(f[k - 1], id, ids[k])
    <3>1. CASE k = m
      BY <1>1, <1>3, <2>1, <3>1
    <3>2. CASE k # m
      <4>1. k \in 0..m - 1 /\ (k # 0 => k - 1 \in 0..m - 1 /\ k - 1 # m)
        BY <1>1, <3>2
      <4>2. g[k] = IF k = 0 THEN acc ELSE OpenSeat(g[k - 1], id, ids[k])
        BY <2>2, <4>1 DEF SeatLoop
      <4> QED
        BY <1>1, <3>2, <4>1, <4>2
    <3> QED
      BY <3>1, <3>2
  <2>4. f = [k \in 0..m |-> f[k]]
    OBVIOUS
  <2> HIDE DEF f
  <2>5. SeatLoop(acc, id, ids, f, m)
    BY <2>3, <2>4, Zenon DEF SeatLoop
  <2> QED
    BY <1>1, <2>5
<1> QED
  BY <1>2, <1>3

LEMMA OpensSeats ==
  ASSUME NEW t, NEW st, NEW acc, Arrived(t, st, acc), NEW id \in SEATS, NEW ids \in Seq(SEATS),
         NEW new, new = OpenSeats(acc, id, ids)
  PROVE  Arrived(t, st, new) /\ Opening(acc.sems, new.sems)
<1>2. PICK n \in Nat : n = Len(ids) /\ \A k \in 1..n : ids[k] \in SEATS
  OBVIOUS
<1> DEFINE opened(m) == CHOOSE f : f = [k \in 0..m |-> IF k = 0 THEN acc
                                                       ELSE OpenSeat(f[k - 1], id, ids[k])]
           g == opened(n)
<1>1. new = g[n]
  <2>1. new = opened(Len(ids))[Len(ids)]
    BY DEF OpenSeats
  <2>2. n = Len(ids)
    BY <1>2
  <2> HIDE DEF opened
  <2> QED
    BY ONLY <2>1, <2>2, Zenon DEF g
<1>3. \E f : f = [k \in 0..n |-> IF k = 0 THEN acc ELSE OpenSeat(f[k - 1], id, ids[k])]
  <2>1. \E f : SeatLoop(acc, id, ids, f, n)
    BY ONLY n \in Nat, SeatLoopExists
  <2> QED
    BY ONLY <2>1, Zenon DEF SeatLoop
<1>4. SeatLoop(acc, id, ids, g, n)
  BY <1>3, Zenon DEF SeatLoop
<1> HIDE DEF g
<1>5. Opening(acc.sems, acc.sems)
  <2>1. SoundTable(acc.sems) /\ Visible(acc.sems)
    BY DEF Arrived, Opening
  <2> QED
    BY <2>1 DEF Opening
<1> DEFINE bad == {k \in 0..n : ~(Arrived(t, st, g[k]) /\ Opening(acc.sems, g[k].sems))}
<1>6. ASSUME bad # {} PROVE FALSE
  <2>1. bad \subseteq Nat
    BY <1>2
  <2>2. PICK m \in bad : \A k \in bad : m <= k
    BY <1>6, <2>1, LeastNatural
  <2>3. g[m] = IF m = 0 THEN acc ELSE OpenSeat(g[m - 1], id, ids[m])
    BY <1>4, <2>2 DEF SeatLoop
  <2>4. CASE m = 0
    BY <1>5, <2>2, <2>3, <2>4
  <2>5. CASE m # 0
    <3>1. m - 1 \in 0..n /\ m - 1 \notin bad /\ m \in 1..n
      BY <1>2, <2>2, <2>5
    <3>2. Arrived(t, st, g[m - 1]) /\ Opening(acc.sems, g[m - 1].sems)
      BY <3>1
    <3>3. ids[m] \in SEATS /\ g[m] = OpenSeat(g[m - 1], id, ids[m])
      BY <1>2, <2>3, <2>5, <3>1
    <3>4. Arrived(t, st, g[m]) /\ Opening(g[m - 1].sems, g[m].sems)
      BY <3>2, <3>3, OpensSeat
    <3>5. Opening(acc.sems, g[m].sems)
      BY <3>2, <3>4, OpeningTwice
    <3> QED
      BY <2>2, <3>4, <3>5
  <2> QED
    BY <2>4, <2>5
<1>7. n \in 0..n
  BY <1>2
<1> QED
  BY <1>1, <1>6, <1>7

LEMMA SeatsOpened ==
  ASSUME NEW id \in SEATS
  PROVE  OtherSeats(id) \in Seq(SEATS)
<1>1. MAX_PHILOSOPHERS \in Nat \ {0} /\ id \in 0..MAX_PHILOSOPHERS - 1 /\ 0 \in SEATS
  BY PhyloAssumption DEF SEATS
<1>2. CASE id = 0
  <2> DEFINE ids == [k \in 1..MAX_PHILOSOPHERS |-> k - 1]
  <2>1. \A k \in 1..MAX_PHILOSOPHERS : k - 1 \in SEATS
    BY <1>1 DEF SEATS
  <2>2. ids \in [1..MAX_PHILOSOPHERS -> SEATS]
    BY <2>1
  <2>3. OtherSeats(id) = ids
    BY <1>2 DEF OtherSeats
  <2> HIDE DEF ids
  <2> QED
    BY <1>1, <2>2, <2>3
<1>3. CASE id # 0
  <2>1. LEFT(id, MAX_PHILOSOPHERS) \in SEATS /\ RIGHT(id, MAX_PHILOSOPHERS) \in SEATS
    <3>1. LEFT(id, MAX_PHILOSOPHERS) \in 0..MAX_PHILOSOPHERS - 1
          /\ RIGHT(id, MAX_PHILOSOPHERS) \in 0..MAX_PHILOSOPHERS - 1
      BY <1>1, Around
    <3> QED
      BY <3>1 DEF SEATS
  <2>2. OtherSeats(id) = <<0, LEFT(id, MAX_PHILOSOPHERS), RIGHT(id, MAX_PHILOSOPHERS)>>
    BY <1>3 DEF OtherSeats
  <2> QED
    BY <1>1, <2>1, <2>2
<1> QED
  BY <1>2, <1>3

(* A table that only gained semaphores keeps everybody's grants.           *)
LEMMA GrantsOpened ==
  ASSUME SoundTable(sems), Opening(sems, sems'), NEW i \in SEATS,
         SeatGranted(sems, table, at, i), table'[i] = table[i], Rests(at[i], at'[i])
  PROVE  SeatGranted(sems', table', at', i)
<1>1. at'[i] = "waits" <=> at[i] = "waits"
  BY DEF Rests
<1>2. PermitsOf(table', at', i) = PermitsOf(table, at, i) /\ PermitsOf(table, at, i) \in {0, 1}
  BY <1>1 DEF PermitsOf
<1>3. ASSUME NEW s \in SEMS, sems'.list[s].name = SeatName(i)
      PROVE  sems'.list[s].sem_value <= PermitsOf(table, at, i)
  <2>1. sems'.list[s].name # NO_NAME
    BY <1>3, SeatNames
  <2>2. CASE sems.list[s].name = NO_NAME
    <3>1. sems'.list[s].sem_value = 0
      BY <2>1, <2>2 DEF Opening
    <3> QED
      BY <1>2, <3>1
  <2>3. CASE sems.list[s].name # NO_NAME
    <3>1. sems.list[s].name = SeatName(i) /\ sems'.list[s].sem_value = sems.list[s].sem_value
      BY <1>3, <2>3 DEF Opening
    <3> QED
      BY <3>1 DEF SeatGranted
  <2> QED
    BY <2>2, <2>3
<1>4. /\ at[i] \in {"dines", "is done"} => table[i] = "eating"
      /\ table[i] = "eating" => at[i] \in {"waits", "dines", "is done"}
      /\ table[i] = "hungry" => at[i] = "waits"
  BY DEF SeatGranted
<1>5. /\ at'[i] \in {"dines", "is done"} => table'[i] = "eating"
      /\ table'[i] = "eating" => at'[i] \in {"waits", "dines", "is done"}
      /\ table'[i] = "hungry" => at'[i] = "waits"
  BY <1>4 DEF Rests
<1> QED
  BY <1>2, <1>3, <1>5 DEF SeatGranted

LEMMA SitsKeeps ==
  ASSUME FeastInv, Visible(sems), NEW id \in SEATS, SitsDown(id)
  PROVE  FeastKept'
<1>1. /\ at[id] = "comes" /\ at' = [at EXCEPT ![id] = "thinks"]
      /\ UNCHANGED <<table, mutex, leftover>>
  BY DEF SitsDown
<1>2. PICK start : start = [sems |-> sems, seat |-> seat] /\ start.sems = sems /\ start.seat = seat
  <2>1. [sems |-> sems, seat |-> seat].sems = sems /\ [sems |-> sems, seat |-> seat].seat = seat
    OBVIOUS
  <2> QED
    BY <2>1
<1>3. PICK own : own = OpenSeat(start, id, id)
  OBVIOUS
<1>4. own = [sems |-> own.sems, seat |-> own.seat]
  BY <1>3 DEF OpenSeat
<1>5. PICK u : u = OpenSem(own.sems, id, MUTEX, 1)
  OBVIOUS
<1>6. PICK acc : /\ acc = [own EXCEPT !.sems = u] /\ acc.sems = u /\ acc.seat = own.seat
  <2> DEFINE acc == [own EXCEPT !.sems = u]
  <2>1. acc.sems = u /\ acc.seat = own.seat
    BY <1>4
  <2> QED
    BY <2>1
<1>7. PICK all : all = OpenSeats(acc, id, OtherSeats(id))
  OBVIOUS
<1>8. OpenedSem(own.sems, id, MUTEX, 1) = mutex /\ sems' = all.sems /\ seat' = all.seat
  BY <1>2, <1>3, <1>5, <1>6, <1>7 DEF SitsDown
<1>9. at[MAIN] # "over" /\ id \in People /\ id # MAIN
  BY <1>1, SeatsArePeople DEF FeastInv, PeopleKept
<1>10. mutex \in SEMS /\ sems.list[mutex].name = MUTEX /\ MAIN \in sems.list[mutex].interested
  BY <1>9 DEF FeastInv, MutexKept
<1>11. Arrived(sems, seat, start)
  BY <1>2 DEF Arrived, Opening, FeastInv
<1>12. /\ Arrived(sems, seat, own) /\ Opening(sems, own.sems)
       /\ own.seat[id] \in SEMS /\ id \in own.sems.list[own.seat[id]].interested
  BY <1>2, <1>3, <1>11, OpensSeat
<1>13. SoundTable(own.sems) /\ Visible(own.sems) /\ own.sems.list[mutex].name = MUTEX
  BY <1>10, <1>12, SeatNames DEF Opening
<1>14. /\ Opening(own.sems, u) /\ id \in u.list[mutex].interested
  BY <1>5, <1>8, <1>9, <1>10, <1>13, OpensMore, PhyloNamed
<1>15. Arrived(sems, seat, acc)
  <2>1. Opening(sems, u)
    BY <1>12, <1>14, OpeningTwice
  <2>2. SeatsNamed(u, own.seat)
    BY <1>12, <1>14, NamesStay DEF Arrived
  <2> QED
    BY ONLY <1>6, <1>12, <2>1, <2>2 DEF Arrived
<1>16. Arrived(sems, seat, all) /\ Opening(u, all.sems)
  <2>1. PICK ids \in Seq(SEATS) : ids = OtherSeats(id)
    BY SeatsOpened
  <2>2. all = OpenSeats(acc, id, ids)
    BY <1>7, <2>1
  <2>3. Arrived(sems, seat, all) /\ Opening(acc.sems, all.sems)
    BY ONLY <1>15, <2>2, id \in SEATS, OpensSeats
  <2> QED
    BY <1>6, <2>3
<1>17. Opening(sems, sems') /\ SeatsNamed(sems', seat') /\ SoundTable(sems')
       /\ \A i \in SEATS : seat[i] # NO_SEM => seat'[i] # NO_SEM
  BY <1>8, <1>16 DEF Arrived, Opening
<1>18. Opening(own.sems, sems') /\ Opening(u, sems')
  BY <1>8, <1>14, <1>16, OpeningTwice
<1>19. at'[id] = "thinks" /\ \A q \in People : q # id => at'[q] = at[q]
  BY <1>1, <1>9, Going DEF FeastInv
<1>20. at'[MAIN] # "over"
  BY <1>9, <1>19, SeatsArePeople
<1>21. sems'.list[mutex].name = MUTEX /\ sems'.list[mutex].sem_value = sems.list[mutex].sem_value
       /\ \A q \in sems.list[mutex].interested \cup {id} : q \in sems'.list[mutex].interested
  <2>1. u.list[mutex].name # NO_NAME
    BY <1>10, <1>13, <1>14, SeatNames DEF Opening
  <2> QED
    BY <1>10, <1>14, <1>17, <1>18, <2>1, SeatNames DEF Opening
<1>22. MutexKept'
  <2>1. \A p \in People : at'[p] \in LockPlaces(p) <=> at[p] \in LockPlaces(p)
    <3>1. "thinks" \notin LockPlaces(id) /\ "comes" \notin LockPlaces(id)
      BY <1>9 DEF LockPlaces
    <3>2. at'[id] \notin LockPlaces(id) /\ at[id] \notin LockPlaces(id)
      BY <1>1, <1>19, <3>1
    <3> QED
      BY <1>19, <3>2
  <2>2. Inside' = Inside
    BY <2>1, InsidePlaces
  <2> QED
    BY <1>1, <1>9, <1>10, <1>20, <1>21, <2>2 DEF MutexKept, FeastInv
<1>23. PeopleKept'
  <2> SUFFICES ASSUME NEW j \in SEATS
               PROVE  /\ at'[j] # "gone" => seat'[j] # NO_SEM
                      /\ at'[j] \notin {"gone", "comes"} =>
                            /\ j \in sems'.list[mutex].interested
                            /\ j \in sems'.list[seat'[j]].interested
    BY <1>1, <1>20 DEF PeopleKept
  <2>1. CASE j = id
    <3>1. seat'[id] # NO_SEM
      BY <1>1, <1>17 DEF FeastInv, PeopleKept
    <3>2. seat'[id] \in SEMS /\ sems'.list[seat'[id]].name = SeatName(id)
      BY <1>17, <3>1 DEF SeatsNamed
    <3>3. own.sems.list[own.seat[id]].name = SeatName(id)
      BY <1>12, SeatsAndSlots DEF Arrived, SeatsNamed
    <3>4. /\ sems'.list[own.seat[id]].name = SeatName(id)
          /\ id \in sems'.list[own.seat[id]].interested
      BY <1>12, <1>18, <3>3, SeatNames DEF Opening
    <3>5. seat'[id] = own.seat[id]
      BY <1>12, <1>17, <3>2, <3>4, SeatNames DEF SoundTable
    <3> QED
      BY <1>21, <2>1, <3>1, <3>4, <3>5
  <2>2. CASE j # id
    <3>1. at'[j] = at[j]
      BY <1>19, <2>2, SeatsArePeople
    <3>2. at[j] # "gone" => seat'[j] # NO_SEM
      BY <1>17 DEF FeastInv, PeopleKept
    <3>3. ASSUME at[j] \notin {"gone", "comes"}
          PROVE  j \in sems'.list[mutex].interested /\ j \in sems'.list[seat'[j]].interested
      <4>1. /\ j \in sems.list[mutex].interested /\ j \in sems.list[seat[j]].interested
            /\ seat[j] # NO_SEM
        BY <3>3 DEF FeastInv, PeopleKept
      <4>2. seat[j] \in SEMS /\ sems.list[seat[j]].name = SeatName(j)
        BY <4>1 DEF FeastInv, SeatsNamed
      <4>3. j \in sems'.list[seat[j]].interested /\ sems'.list[seat[j]].name = SeatName(j)
        BY <1>17, <4>1, <4>2, SeatNames DEF Opening
      <4>4. seat'[j] \in SEMS /\ sems'.list[seat'[j]].name = SeatName(j)
        BY <1>17, <4>1 DEF SeatsNamed
      <4>5. seat'[j] = seat[j]
        BY <1>17, <4>2, <4>3, <4>4, SeatNames DEF SoundTable
      <4> QED
        BY <1>21, <4>1, <4>3, <4>5
    <3> QED
      BY <3>1, <3>2, <3>3
  <2> QED
    BY <2>1, <2>2
<1>24. Granting'
  <2>1. ASSUME NEW i \in SEATS, SeatGranted(sems, table, at, i)
        PROVE  SeatGranted(sems', table', at', i)
    <3>1. Rests(at[i], at'[i])
      BY <1>1, <1>19, SeatsArePeople DEF Rests
    <3>2. table'[i] = table[i] /\ SoundTable(sems)
      BY <1>1 DEF FeastInv
    <3> QED
      BY <1>17, <2>1, <3>1, <3>2, GrantsOpened
  <2> QED
    BY <1>1, <2>1, GrantsStay DEF FeastInv
<1> QED
  BY <1>17, <1>22, <1>23, <1>24 DEF FeastKept

-----------------------------------------------------------------------------
(* The process at the keyboard leaves the mutex, and seats may come and go *)
(* with it.                                                                *)
LEMMA MainLeaves ==
  ASSUME MutexKept, UNCHANGED mutex, at[MAIN] \in LockPlaces(MAIN), at'[MAIN] # "over",
         at'[MAIN] \notin LockPlaces(MAIN), at[MAIN] # "over",
         sems'.list[mutex].name = MUTEX, MAIN \in sems'.list[mutex].interested,
         sems'.list[mutex].sem_value = sems.list[mutex].sem_value + 1,
         \A q \in People : q # MAIN => at'[q] = at[q] \/ at'[q] \notin LockPlaces(q)
  PROVE  MutexKept'
<1>1. MAIN \in Inside
  BY InsidePlaces, SeatsArePeople
<1>2. sems.list[mutex].sem_value = 0 /\ Inside = {MAIN}
  BY <1>1 DEF MutexKept
<1>3. \A q \in People : at[q] \in LockPlaces(q) => q = MAIN
  BY <1>2, InsidePlaces
<1>4. Inside' = {}
  BY <1>3, InsidePlaces
<1> QED
  BY <1>2, <1>4 DEF MutexKept

(* After semaphores were opened, and a mutex was posted, a seat has the    *)
(* permits it had.                                                         *)
AtMost(t, i, n) == \A s \in SEMS : t.list[s].name = SeatName(i) => t.list[s].sem_value <= n

OnlyAt(t, u, m) ==
    /\ SameUsers(t, u) /\ t.list[m].name = MUTEX
    /\ \A r \in SEMS : r # m => u.list[r].sem_value = t.list[r].sem_value

LEMMA PermitsOpened ==
  ASSUME NEW t, NEW u, NEW w, NEW m, Opening(t, u), OnlyAt(u, w, m),
         NEW i \in SEATS, NEW n \in Nat, AtMost(t, i, n)
  PROVE  AtMost(w, i, n)
<1> SUFFICES ASSUME NEW s \in SEMS, w.list[s].name = SeatName(i) PROVE w.list[s].sem_value <= n
  BY DEF AtMost
<1>1. u.list[s].name = SeatName(i)
  BY DEF OnlyAt, SameUsers
<1>2. s # m /\ u.list[s].name # NO_NAME
  BY <1>1, SeatNames DEF OnlyAt
<1>3. w.list[s].sem_value = u.list[s].sem_value
  BY <1>2 DEF OnlyAt
<1>4. CASE t.list[s].name = NO_NAME
  <2>1. u.list[s].sem_value = 0
    BY <1>2, <1>4 DEF Opening
  <2> QED
    BY <1>3, <2>1
<1>5. CASE t.list[s].name # NO_NAME
  <2>1. t.list[s].name = SeatName(i) /\ u.list[s].sem_value = t.list[s].sem_value
    BY <1>1, <1>5 DEF Opening
  <2> QED
    BY <1>3, <2>1 DEF AtMost
<1> QED
  BY <1>4, <1>5

(* Where the philosopher who comes, and everybody else, is.                *)
LEMMA Comes ==
  ASSUME FeastInv, AddPhilosopher
  PROVE  /\ num \in SEATS /\ at[num] = "gone" /\ at'[num] = "comes" /\ table'[num] = "none"
         /\ at[MAIN] \in LockPlaces(MAIN) /\ at[MAIN] # "over"
         /\ at'[MAIN] \notin LockPlaces(MAIN) /\ at'[MAIN] # "over"
         /\ \A i \in SEATS : i # num => at'[i] = at[i] /\ table'[i] = table[i]
<1>1. at[MAIN] = "adds" /\ at[MAIN] \in LockPlaces(MAIN) /\ at[MAIN] # "over"
  BY DEF AddPhilosopher, LockPlaces
<1>2. num \in SEATS /\ MAIN \notin SEATS
  <2>1. num < MAX_PHILOSOPHERS
    BY <1>1 DEF FeastInv, TableInv, Seated
  <2>2. num \in 0..MAIN /\ MAIN \notin SEATS
    BY MainStands DEF FeastInv
  <2> QED
    BY <2>1, <2>2, SeatsAndSlots DEF SEATS, MAIN
<1>3. at[num] = "gone"
  <2>1. num >= num
    BY <1>2, SeatsAndSlots
  <2> QED
    BY <1>2, <2>1, MainStands DEF FeastInv
<1>4. PICK next \in {"setup", "polls"} : at' = [at EXCEPT ![num] = "comes", ![MAIN] = next]
  BY DEF AddPhilosopher
<1>5. at \in [SEATS \cup {MAIN} -> PhyloPlaces]
  BY DEF FeastInv, TableInv, Seated
<1>6. at'[num] = "comes" /\ at'[MAIN] = next /\ \A i \in SEATS : i # num => at'[i] = at[i]
  BY <1>2, <1>4, <1>5
<1>7. next \notin LockPlaces(MAIN) /\ next # "over"
  BY DEF LockPlaces
<1>8. table'[num] = "none" /\ \A i \in SEATS : i # num => table'[i] = table[i]
  <2>1. table \in [SEATS -> States] /\ table' = [table EXCEPT ![num] = "none"]
    BY DEF FeastInv, TableInv, PhyloTypeOK, States, AddPhilosopher
  <2> QED
    BY <1>2, <2>1
<1> QED
  BY <1>1, <1>2, <1>3, <1>6, <1>7, <1>8

LEMMA AddKeeps ==
  ASSUME FeastInv, Visible(sems), AddPhilosopher
  PROVE  FeastKept'
<1>1. /\ num \in SEATS /\ at[num] = "gone" /\ at'[num] = "comes" /\ table'[num] = "none"
      /\ at[MAIN] \in LockPlaces(MAIN) /\ at[MAIN] # "over"
      /\ at'[MAIN] \notin LockPlaces(MAIN) /\ at'[MAIN] # "over"
      /\ \A i \in SEATS : i # num => at'[i] = at[i] /\ table'[i] = table[i]
  BY Comes
<1>2. mutex \in SEMS /\ sems.list[mutex].name = MUTEX /\ MAIN \in sems.list[mutex].interested
  BY <1>1 DEF FeastInv, MutexKept
<1>3. PICK u : u = OpenSem(sems, MAIN, SeatName(num), 0)
  OBVIOUS
<1>4. PICK r : r = OpenedSem(sems, MAIN, SeatName(num), 0)
  OBVIOUS
<1>5. /\ UNCHANGED <<mutex, leftover>> /\ seat' = [seat EXCEPT ![num] = r]
      /\ PostsMutex(Nothing(u), MAIN)
  BY <1>3, <1>4 DEF AddPhilosopher
<1>6. Opening(sems, u) /\ r \in SEMS /\ u.list[r].name = SeatName(num)
  <2>1. SeatName(num) \in PhyloNames /\ SeatName(num) # MUTEX /\ MAIN \in People /\ SoundTable(sems)
    BY <1>1, PhyloNamed, SeatNames, SeatsArePeople DEF FeastInv
  <2> QED
    BY <1>3, <1>4, <2>1, OpensMore
<1>7. PICK none : none = Nothing(u) /\ none.sems = u
  <2>1. Nothing(u).sems = u
    BY DEF Nothing
  <2> QED
    BY <2>1
<1>8. /\ SoundTable(u) /\ u.list[mutex].name = MUTEX /\ MAIN \in u.list[mutex].interested
      /\ u.list[mutex].sem_value = sems.list[mutex].sem_value
  BY <1>2, <1>6, SeatNames DEF Opening
<1>9. /\ SoundTable(sems') /\ SameUsers(u, sems')
      /\ sems'.list[mutex].sem_value = sems.list[mutex].sem_value + 1
      /\ \A s \in SEMS : s # mutex => sems'.list[s].sem_value = u.list[s].sem_value
  BY <1>2, <1>5, <1>7, <1>8, SeatsArePeople, MutexPosted
<1>10. \A s \in SEMS : sems.list[s].name # NO_NAME =>
          /\ sems'.list[s].name = sems.list[s].name
          /\ sems.list[s].interested \subseteq sems'.list[s].interested
  BY <1>6, <1>9 DEF Opening, SameUsers
<1>11. /\ seat' \in [SEATS -> SEMS \cup {NO_SEM}] /\ seat'[num] = r
       /\ \A i \in SEATS : i # num => seat'[i] = seat[i]
  <2>1. seat \in [SEATS -> SEMS \cup {NO_SEM}]
    BY DEF FeastInv, SeatsNamed
  <2> QED
    BY <1>1, <1>5, <1>6, <2>1
<1>12. SeatsNamed(sems', seat')
  <2>1. ASSUME NEW i \in SEATS, seat'[i] # NO_SEM PROVE sems'.list[seat'[i]].name = SeatName(i)
    <3>1. CASE i = num
      BY <1>6, <1>9, <1>11, <3>1 DEF SameUsers
    <3>2. CASE i # num
      <4>1. seat[i] \in SEMS /\ sems.list[seat[i]].name = SeatName(i) /\ seat'[i] = seat[i]
        BY <1>11, <2>1, <3>2 DEF FeastInv, SeatsNamed
      <4> QED
        BY <1>10, <4>1, SeatNames
    <3> QED
      BY <3>1, <3>2
  <2> QED
    BY <1>11, <2>1 DEF SeatsNamed
<1>13. sems'.list[mutex].name = MUTEX /\ MAIN \in sems'.list[mutex].interested
  BY <1>2, <1>10, SeatNames
<1>14. MutexKept'
  <2>1. \A q \in People : q # MAIN => at'[q] = at[q] \/ at'[q] \notin LockPlaces(q)
    BY <1>1 DEF People, LockPlaces
  <2> QED
    BY <1>1, <1>5, <1>9, <1>13, <2>1, MainLeaves DEF FeastInv
<1>15. PeopleKept'
  <2> SUFFICES ASSUME NEW j \in SEATS
               PROVE  /\ at'[j] # "gone" => seat'[j] # NO_SEM
                      /\ at'[j] \notin {"gone", "comes"} =>
                            /\ j \in sems'.list[mutex].interested
                            /\ j \in sems'.list[seat'[j]].interested
    BY <1>1, <1>5 DEF PeopleKept
  <2>1. CASE j = num
    BY <1>1, <1>6, <1>11, <2>1, SeatsAndSlots
  <2>2. CASE j # num
    <3>1. at'[j] = at[j] /\ seat'[j] = seat[j]
      BY <1>1, <1>11, <2>2
    <3>2. at[j] # "gone" => seat[j] \in SEMS /\ sems.list[seat[j]].name = SeatName(j) /\ seat[j] # NO_SEM
      BY DEF FeastInv, PeopleKept, SeatsNamed
    <3>3. at[j] \notin {"gone", "comes"} =>
             j \in sems.list[mutex].interested /\ j \in sems.list[seat[j]].interested
      BY DEF FeastInv, PeopleKept
    <3> QED
      BY <1>2, <1>10, <3>1, <3>2, <3>3, SeatNames
  <2> QED
    BY <2>1, <2>2
<1>16. Granting'
  <2>1. ASSUME NEW i \in SEATS, SeatGranted(sems, table, at, i)
        PROVE  SeatGranted(sems', table', at', i)
    <3>1. PICK n \in Nat : n = PermitsOf(table, at, i)
      BY DEF PermitsOf
    <3>2. AtMost(sems, i, n)
      BY <2>1, <3>1 DEF SeatGranted, AtMost
    <3>3. AtMost(sems', i, n)
      <4>1. OnlyAt(u, sems', mutex)
        BY <1>8, <1>9 DEF OnlyAt
      <4> QED
        BY ONLY <1>6, <3>2, <4>1, i \in SEATS, n \in Nat, PermitsOpened
    <3>4. n = PermitsOf(table', at', i)
      BY <1>1, <3>1 DEF PermitsOf
    <3>5. /\ at'[i] \in {"dines", "is done"} => table'[i] = "eating"
          /\ table'[i] = "eating" => at'[i] \in {"waits", "dines", "is done"}
          /\ table'[i] = "hungry" => at'[i] = "waits"
      <4>1. CASE i = num
        BY <1>1, <4>1
      <4>2. CASE i # num
        <5>1. at'[i] = at[i] /\ table'[i] = table[i]
          BY <1>1, <4>2
        <5> QED
          BY ONLY <2>1, <5>1 DEF SeatGranted
      <4> QED
        BY <4>1, <4>2
    <3> QED
      BY <3>3, <3>4, <3>5 DEF SeatGranted, AtMost
  <2> QED
    BY <1>5, <2>1, GrantsStay DEF FeastInv
<1> QED
  BY <1>9, <1>12, <1>14, <1>15, <1>16 DEF FeastKept

-----------------------------------------------------------------------------
(* Closing the semaphores of seats: each is freed, or stays as it was, and *)
(* the mutex is not touched.                                               *)
Closing(t, u) ==
    /\ SoundTable(u)
    /\ \A s \in SEMS :
          /\ \/ u.list[s].name = NO_NAME
             \/ u.list[s].name = t.list[s].name /\ u.list[s].sem_value = t.list[s].sem_value
          /\ t.list[s].name = MUTEX => u.list[s] = t.list[s]

LEMMA ClosingTwice ==
  ASSUME NEW t, NEW u, NEW w, Closing(t, u), Closing(u, w)
  PROVE  Closing(t, w)
<1>1. ASSUME NEW s \in SEMS
      PROVE  /\ \/ w.list[s].name = NO_NAME
                \/ w.list[s].name = t.list[s].name /\ w.list[s].sem_value = t.list[s].sem_value
             /\ t.list[s].name = MUTEX => w.list[s] = t.list[s]
  BY DEF Closing
<1> QED
  BY <1>1 DEF Closing

LEMMA ClosesSeat ==
  ASSUME NEW t, SoundTable(t), NEW s \in SEMS \cup {NO_SEM},
         s # NO_SEM => t.list[s].name # MUTEX, NEW u, u = CloseSeat(t, s)
  PROVE  Closing(t, u) /\ \A r \in SEMS : r # s => u.list[r] = t.list[r]
<1>1. CASE s > 0
  <2>1. s \in SEMS /\ u = CloseSem(t, s, MAIN)
    BY <1>1 DEF CloseSeat, NO_SEM
  <2>2. Leaves(t, u, s, MAIN)
    BY <2>1, Closes, SeatsArePeople
  <2>3. t.list[s].name # MUTEX
    BY <2>1, SeatsAndSlots
  <2> QED
    BY <2>1, <2>2, <2>3 DEF Leaves, Closing
<1>2. CASE ~(s > 0)
  <2>1. u = t
    BY <1>2 DEF CloseSeat
  <2> QED
    BY <2>1 DEF Closing
<1> QED
  BY <1>1, <1>2

(* Where the philosopher who goes, and everybody else, is.                 *)
LEMMA Leaving ==
  ASSUME FeastInv, RemovePhilosopher
  PROVE  /\ LastSeat \in SEATS /\ at'[LastSeat] = "gone" /\ table'[LastSeat] = "none"
         /\ at[MAIN] \in LockPlaces(MAIN) /\ at[MAIN] # "over"
         /\ at'[MAIN] \notin LockPlaces(MAIN) /\ at'[MAIN] # "over"
         /\ \A i \in SEATS : i # LastSeat => at'[i] = at[i] /\ table'[i] = table[i]
<1>1. at[MAIN] = "removes" /\ at[MAIN] \in LockPlaces(MAIN) /\ at[MAIN] # "over"
  BY DEF RemovePhilosopher, LockPlaces
<1>2. LastSeat \in SEATS /\ MAIN \notin SEATS
  <2>1. num > MIN_PHILOSOPHERS
    BY <1>1 DEF FeastInv, TableInv, Seated
  <2>2. num \in 0..MAIN /\ MAIN \notin SEATS
    BY MainStands DEF FeastInv
  <2> QED
    BY <2>1, <2>2, PhyloAssumption DEF SEATS, MAIN, LastSeat
<1>3. PICK last \in SEATS : last = LastSeat
  BY <1>2
<1>4. /\ at' = [at EXCEPT ![last] = "gone", ![MAIN] = "polls"]
      /\ table' = [table EXCEPT ![last] = "none"]
  BY <1>3 DEF RemovePhilosopher
<1>5. at \in [SEATS \cup {MAIN} -> PhyloPlaces] /\ table \in [SEATS -> States]
  BY DEF FeastInv, TableInv, Seated, PhyloTypeOK, States
<1>6. at'[last] = "gone" /\ at'[MAIN] = "polls" /\ \A i \in SEATS : i # last => at'[i] = at[i]
  BY <1>2, <1>4, <1>5
<1>7. "polls" \notin LockPlaces(MAIN) /\ "polls" # "over"
  BY DEF LockPlaces
<1>8. table'[last] = "none" /\ \A i \in SEATS : i # last => table'[i] = table[i]
  BY <1>4, <1>5
<1> QED
  BY <1>1, <1>2, <1>3, <1>6, <1>7, <1>8

(* No permit is left for the one who comes next.                           *)
LEMMA NoPermitLeft ==
  ASSUME FeastInv, NEW i \in SEATS, SeatGranted(sems, table, at, i), ~Permit(i),
         NEW s \in SEMS, sems.list[s].name = SeatName(i)
  PROVE  sems.list[s].sem_value = 0
<1>1. sems.list[s].sem_value \in Nat
  BY TableOfSems DEF FeastInv
<1>2. sems.list[s].sem_value <= PermitsOf(table, at, i)
  BY DEF SeatGranted
<1>3. CASE at[i] # "waits"
  <2>1. PermitsOf(table, at, i) = 0
    BY <1>3 DEF PermitsOf
  <2> QED
    BY <1>1, <1>2, <2>1
<1>4. CASE at[i] = "waits"
  <2>1. seat[i] # NO_SEM
    BY <1>4 DEF FeastInv, PeopleKept
  <2>2. seat[i] \in SEMS /\ sems.list[seat[i]].name = SeatName(i)
    BY <2>1 DEF FeastInv, SeatsNamed
  <2>3. seat[i] = s
    BY <2>2, SeatNames DEF FeastInv, SoundTable
  <2>4. ~(sems.list[s].sem_value > 0)
    BY <2>1, <2>3 DEF Permit
  <2> QED
    BY <1>1, <2>4
<1> QED
  BY <1>3, <1>4

LEMMA RemoveKeeps ==
  ASSUME FeastInv, RemovePhilosopher
  PROVE  FeastKept'
<1>1. PICK last \in SEATS : last = LastSeat
  BY Leaving
<1>2. /\ at'[last] = "gone" /\ table'[last] = "none"
      /\ at[MAIN] \in LockPlaces(MAIN) /\ at[MAIN] # "over"
      /\ at'[MAIN] \notin LockPlaces(MAIN) /\ at'[MAIN] # "over"
      /\ \A i \in SEATS : i # last => at'[i] = at[i] /\ table'[i] = table[i]
  BY <1>1, Leaving
<1>3. mutex \in SEMS /\ sems.list[mutex].name = MUTEX /\ MAIN \in sems.list[mutex].interested
  BY <1>2 DEF FeastInv, MutexKept
<1>4. PICK s \in SEMS \cup {NO_SEM} : s = seat[last]
  BY DEF FeastInv, SeatsNamed
<1>5. s # NO_SEM => sems.list[s].name = SeatName(last)
  BY <1>4 DEF FeastInv, SeatsNamed
<1>6. PICK u : u = CloseSeat(sems, s)
  OBVIOUS
<1>7. Closing(sems, u) /\ \A r \in SEMS : r # s => u.list[r] = sems.list[r]
  <2>1. s # NO_SEM => sems.list[s].name # MUTEX
    BY <1>5, SeatNames
  <2> QED
    BY <1>6, <2>1, ClosesSeat DEF FeastInv
<1>8. PICK none : none = Nothing(u) /\ none.sems = u
  <2>1. Nothing(u).sems = u
    BY DEF Nothing
  <2> QED
    BY <2>1
<1>9. sems' = Post(none, MAIN, mutex).sems /\ seat' = [seat EXCEPT ![last] = NO_SEM] /\ mutex' = mutex
  BY <1>1, <1>4, <1>6, <1>8 DEF RemovePhilosopher
<1>10. SoundTable(u) /\ u.list[mutex] = sems.list[mutex]
  BY <1>3, <1>7 DEF Closing
<1>11. /\ SoundTable(sems') /\ SameUsers(u, sems')
       /\ sems'.list[mutex].sem_value = sems.list[mutex].sem_value + 1
       /\ \A r \in SEMS : r # mutex => sems'.list[r].sem_value = u.list[r].sem_value
  <2>1. Added(u, mutex, MAIN) = 1
    BY <1>3, <1>10 DEF Added
  <2> QED
    BY <1>3, <1>8, <1>9, <1>10, <2>1, SeatsArePeople, PostsOne
<1>12. \A r \in SEMS : r # s => /\ sems'.list[r].name = sems.list[r].name
                                /\ sems'.list[r].interested = sems.list[r].interested
  BY <1>7, <1>11 DEF SameUsers
<1>13. mutex # s
  BY <1>3, <1>5, SeatNames, SeatsAndSlots
<1>14. /\ seat' \in [SEATS -> SEMS \cup {NO_SEM}] /\ seat'[last] = NO_SEM
       /\ \A i \in SEATS : i # last => seat'[i] = seat[i]
  <2>1. seat \in [SEATS -> SEMS \cup {NO_SEM}]
    BY DEF FeastInv, SeatsNamed
  <2> QED
    BY <1>9, <2>1
<1>15. \A i \in SEATS : i # last /\ seat[i] # NO_SEM =>
          seat[i] \in SEMS /\ sems.list[seat[i]].name = SeatName(i) /\ seat[i] # s
  BY <1>5, SeatNames DEF FeastInv, SeatsNamed
<1>16. SeatsNamed(sems', seat')
  BY <1>12, <1>14, <1>15 DEF SeatsNamed
<1>17. MutexKept'
  <2>1. \A q \in People : q # MAIN => at'[q] = at[q] \/ at'[q] \notin LockPlaces(q)
    BY <1>2 DEF People, LockPlaces
  <2>2. sems'.list[mutex].name = MUTEX /\ MAIN \in sems'.list[mutex].interested
    BY <1>3, <1>12, <1>13
  <2> QED
    BY <1>2, <1>9, <1>11, <2>1, <2>2, MainLeaves DEF FeastInv
<1>18. PeopleKept'
  <2> SUFFICES ASSUME NEW j \in SEATS
               PROVE  /\ at'[j] # "gone" => seat'[j] # NO_SEM
                      /\ at'[j] \notin {"gone", "comes"} =>
                            /\ j \in sems'.list[mutex].interested
                            /\ j \in sems'.list[seat'[j]].interested
    BY <1>2, <1>9 DEF PeopleKept
  <2>1. CASE j = last
    BY <1>2, <2>1
  <2>2. CASE j # last
    <3>1. at'[j] = at[j] /\ seat'[j] = seat[j]
      BY <1>2, <1>14, <2>2
    <3>2. at[j] # "gone" => seat[j] # NO_SEM
      BY DEF FeastInv, PeopleKept
    <3>3. at[j] \notin {"gone", "comes"} =>
             j \in sems.list[mutex].interested /\ j \in sems.list[seat[j]].interested
      BY DEF FeastInv, PeopleKept
    <3> QED
      BY <1>3, <1>12, <1>13, <1>15, <2>2, <3>1, <3>2, <3>3
  <2> QED
    BY <2>1, <2>2
<1>19. Granting'
  <2> SUFFICES ASSUME ~leftover', NEW i \in SEATS
               PROVE  SeatGranted(sems', table', at', i)
    BY DEF Granting
  <2>1. ~leftover /\ ~Permit(last)
    BY <1>1 DEF RemovePhilosopher
  <2>2. SeatGranted(sems, table, at, i) /\ SeatGranted(sems, table, at, last)
    BY <2>1 DEF FeastInv, Granting
  <2>3. ASSUME NEW r \in SEMS, sems'.list[r].name = SeatName(i)
        PROVE  sems.list[r].name = SeatName(i) /\ sems'.list[r].sem_value = sems.list[r].sem_value
    <3>1. u.list[r].name = SeatName(i)
      BY <1>11, <2>3 DEF SameUsers
    <3>2. u.list[r].name # NO_NAME
      BY <3>1, SeatNames
    <3>3. sems.list[r].name = SeatName(i) /\ u.list[r].sem_value = sems.list[r].sem_value
      BY <1>7, <3>1, <3>2 DEF Closing
    <3>4. r # mutex
      BY <1>3, <3>3, SeatNames
    <3> QED
      BY <1>11, <3>3, <3>4
  <2>4. CASE i = last
    <3>1. \A r \in SEMS : sems'.list[r].name = SeatName(i) => sems'.list[r].sem_value = 0
      <4>1. ASSUME NEW r \in SEMS, sems'.list[r].name = SeatName(i) PROVE sems'.list[r].sem_value = 0
        <5>1. sems.list[r].name = SeatName(last) /\ sems'.list[r].sem_value = sems.list[r].sem_value
          BY <2>3, <2>4, <4>1
        <5> QED
          BY <2>1, <2>2, <5>1, NoPermitLeft
      <4> QED
        BY <4>1
    <3>2. PermitsOf(table', at', i) = 0
      BY <1>2, <2>4 DEF PermitsOf
    <3>3. \A r \in SEMS : sems'.list[r].name = SeatName(i) =>
             sems'.list[r].sem_value <= PermitsOf(table', at', i)
      BY <3>1, <3>2
    <3>4. at'[i] = "gone" /\ table'[i] = "none"
      BY <1>2, <2>4
    <3> QED
      BY ONLY <3>3, <3>4 DEF SeatGranted
  <2>5. CASE i # last
    <3>1. at'[i] = at[i] /\ table'[i] = table[i]
      BY <1>2, <2>5
    <3>2. PermitsOf(table', at', i) = PermitsOf(table, at, i)
      BY <3>1 DEF PermitsOf
    <3>3. \A r \in SEMS : sems'.list[r].name = SeatName(i) =>
             sems'.list[r].sem_value <= PermitsOf(table', at', i)
      BY <2>2, <2>3, <3>2 DEF SeatGranted
    <3>4. /\ at'[i] \in {"dines", "is done"} => table'[i] = "eating"
          /\ table'[i] = "eating" => at'[i] \in {"waits", "dines", "is done"}
          /\ table'[i] = "hungry" => at'[i] = "waits"
      BY ONLY <2>2, <3>1 DEF SeatGranted
    <3> QED
      BY <3>3, <3>4 DEF SeatGranted
  <2> QED
    BY <2>4, <2>5
<1> QED
  BY <1>11, <1>16, <1>17, <1>18, <1>19 DEF FeastKept

(* The loop that closes the seats, from the last one down.                 *)
CloseLoop(f, n) == f = [k \in 0..n |-> IF k = 0 THEN sems ELSE CloseSeat(f[k - 1], seat[num - k])]

LEMMA CloseLoopExists ==
  ASSUME NEW n \in Nat
  PROVE  \E f : CloseLoop(f, n)
<1> DEFINE bad == {i \in Nat : ~\E f : CloseLoop(f, i)}
<1> SUFFICES ASSUME bad # {} PROVE FALSE
  OBVIOUS
<1>1. PICK m \in bad : \A i \in bad : m <= i
  BY LeastNatural
<1>2. CASE m = 0
  <2> DEFINE f == [k \in 0..0 |-> sems]
  <2>1. f = [k \in 0..0 |-> IF k = 0 THEN sems ELSE CloseSeat(f[k - 1], seat[num - k])]
    OBVIOUS
  <2> HIDE DEF f
  <2> QED
    BY <1>1, <1>2, <2>1 DEF CloseLoop
<1>3. CASE m # 0
  <2>1. m - 1 \in Nat /\ m - 1 \notin bad
    BY <1>1, <1>3
  <2>2. PICK g : CloseLoop(g, m - 1)
    BY <2>1
  <2> DEFINE f == [k \in 0..m |-> IF k = m THEN CloseSeat(g[m - 1], seat[num - m]) ELSE g[k]]
  <2>3. ASSUME NEW k \in 0..m
        PROVE  f[k] = IF k = 0 THEN sems ELSE CloseSeat(f[k - 1], seat[num - k])
    <3>1. CASE k = m
      BY <1>1, <1>3, <2>1, <3>1
    <3>2. CASE k # m
      <4>1. k \in 0..m - 1 /\ (k # 0 => k - 1 \in 0..m - 1 /\ k - 1 # m)
        BY <1>1, <3>2
      <4>2. g[k] = IF k = 0 THEN sems ELSE CloseSeat(g[k - 1], seat[num - k])
        BY <2>2, <4>1 DEF CloseLoop
      <4> QED
        BY <1>1, <3>2, <4>1, <4>2
    <3> QED
      BY <3>1, <3>2
  <2>4. f = [k \in 0..m |-> f[k]]
    OBVIOUS
  <2> HIDE DEF f
  <2>5. CloseLoop(f, m)
    BY <2>3, <2>4, Zenon DEF CloseLoop
  <2> QED
    BY <1>1, <2>5
<1> QED
  BY <1>2, <1>3

LEMMA SeatsClosed ==
  ASSUME FeastInv, NEW g, CloseLoop(g, num)
  PROVE  Closing(sems, g[num])
<1>1. num \in Nat /\ \A k \in 1..num : num - k \in SEATS
  BY MainStands DEF FeastInv
<1>2. SoundTable(sems) /\ Closing(sems, sems)
  BY DEF FeastInv, Closing
<1>3. \A i \in SEATS : /\ seat[i] \in SEMS \cup {NO_SEM}
                       /\ seat[i] # NO_SEM => seat[i] \in SEMS /\ sems.list[seat[i]].name = SeatName(i)
  BY DEF FeastInv, SeatsNamed
<1> DEFINE bad == {k \in 0..num : ~Closing(sems, g[k])}
<1>4. ASSUME bad # {} PROVE FALSE
  <2>1. bad \subseteq Nat
    BY <1>1
  <2>2. PICK m \in bad : \A k \in bad : m <= k
    BY <1>4, <2>1, LeastNatural
  <2>3. g[m] = IF m = 0 THEN sems ELSE CloseSeat(g[m - 1], seat[num - m])
    BY <2>2 DEF CloseLoop
  <2>4. CASE m = 0
    BY <1>2, <2>2, <2>3, <2>4
  <2>5. CASE m # 0
    <3>1. m - 1 \in 0..num /\ m - 1 \notin bad /\ m \in 1..num
      BY <1>1, <2>2, <2>5
    <3>2. Closing(sems, g[m - 1]) /\ SoundTable(g[m - 1])
      BY <3>1 DEF Closing
    <3>3. PICK i \in SEATS : i = num - m
      BY <1>1, <3>1
    <3>4. PICK s \in SEMS \cup {NO_SEM} : s = seat[i]
      BY <1>3
    <3>5. g[m] = CloseSeat(g[m - 1], s)
      BY <2>3, <2>5, <3>3, <3>4
    <3>6. s # NO_SEM => g[m - 1].list[s].name # MUTEX
      <4>1. s # NO_SEM => s \in SEMS /\ sems.list[s].name # MUTEX
        BY <1>3, <3>4, SeatNames
      <4> QED
        BY <3>2, <4>1, SeatNames DEF Closing
    <3>7. Closing(g[m - 1], g[m])
      BY <3>2, <3>5, <3>6, ClosesSeat
    <3>8. Closing(sems, g[m])
      BY <3>2, <3>7, ClosingTwice
    <3> QED
      BY <2>2, <3>8
  <2> QED
    BY <2>4, <2>5
<1>5. num \in 0..num
  BY <1>1
<1> QED
  BY <1>4, <1>5

(* Nobody is left: a mutex that is left somewhere is free.                 *)
LEMMA QuitsKeeps ==
  ASSUME FeastInv, Quits
  PROVE  FeastKept'
<1>1. /\ at[MAIN] = "quits" /\ mutex' = mutex
      /\ seat' = [id \in SEATS |-> NO_SEM] /\ table' = [id \in SEATS |-> "none"]
      /\ at' = [p \in SEATS \cup {MAIN} |-> IF p = MAIN THEN "over" ELSE "gone"]
      /\ leftover' = (leftover \/ \E id \in 0..LastSeat : Permit(id))
  BY DEF Quits
<1>2. at'[MAIN] = "over" /\ \A id \in SEATS : at'[id] = "gone" /\ table'[id] = "none" /\ seat'[id] = NO_SEM
  BY <1>1, SeatsAndSlots
<1>3. at[MAIN] # "over" /\ at[MAIN] \in LockPlaces(MAIN)
  BY <1>1 DEF LockPlaces
<1>4. mutex \in SEMS /\ sems.list[mutex].name = MUTEX /\ MAIN \in sems.list[mutex].interested
  BY <1>3 DEF FeastInv, MutexKept
<1>5. sems.list[mutex].sem_value = 0
  <2>1. MAIN \in Inside
    BY <1>3, InsidePlaces, SeatsArePeople
  <2> QED
    BY <1>3, <2>1 DEF FeastInv, MutexKept
<1> DEFINE closed(n) == CHOOSE f : f = [k \in 0..n |-> IF k = 0 THEN sems
                                                       ELSE CloseSeat(f[k - 1], seat[num - k])]
           g == closed(num)
<1>6. sems' = CloseSem(Post(Nothing(g[num]), MAIN, mutex).sems, mutex, MAIN)
  BY DEF Quits
<1>7. CloseLoop(g, num)
  <2>1. num \in Nat
    BY MainStands DEF FeastInv
  <2>2. \E f : CloseLoop(f, num)
    BY <2>1, CloseLoopExists
  <2> QED
    BY ONLY <2>2, Zenon DEF CloseLoop
<1> HIDE DEF g
<1>8. PICK t : t = g[num]
  OBVIOUS
<1>9. Closing(sems, t)
  BY <1>7, <1>8, SeatsClosed
<1>10. PICK none : none = Nothing(t) /\ none.sems = t
  <2>1. Nothing(t).sems = t
    BY DEF Nothing
  <2> QED
    BY <2>1
<1>11. PICK u : u = Post(none, MAIN, mutex).sems
  OBVIOUS
<1>12. sems' = CloseSem(u, mutex, MAIN)
  BY <1>6, <1>8, <1>10, <1>11
<1>13. SoundTable(t) /\ t.list[mutex] = sems.list[mutex]
  BY <1>4, <1>9 DEF Closing
<1>14. /\ SoundTable(u) /\ SameUsers(t, u) /\ u.list[mutex].sem_value = 1
       /\ \A r \in SEMS : r # mutex => u.list[r].sem_value = t.list[r].sem_value
  <2>1. Added(t, mutex, MAIN) = 1
    BY <1>4, <1>13 DEF Added
  <2> QED
    BY <1>4, <1>5, <1>10, <1>11, <1>13, <2>1, SeatsArePeople, PostsOne
<1>15. Leaves(u, sems', mutex, MAIN)
  BY <1>4, <1>12, <1>14, SeatsArePeople, Closes
<1>16. SoundTable(sems')
  BY <1>15 DEF Leaves
<1>17. SeatsNamed(sems', seat')
  BY <1>1 DEF SeatsNamed
<1>18. u.list[mutex].name = MUTEX
  BY <1>4, <1>13, <1>14 DEF SameUsers
<1>19. MutexKept'
  <2>1. ASSUME NEW s \in SEMS, sems'.list[s].name = MUTEX PROVE sems'.list[s].sem_value = 1
    <3>1. CASE s = mutex
      BY <1>14, <1>15, <2>1, <3>1, SeatNames DEF Leaves
    <3>2. CASE s # mutex
      <4>1. u.list[s].name = MUTEX
        BY <1>15, <2>1, <3>2 DEF Leaves
      <4> QED
        BY <1>4, <1>14, <1>18, <3>2, <4>1, SeatNames DEF SoundTable
    <3> QED
      BY <3>1, <3>2
  <2> QED
    BY <1>2, <2>1 DEF MutexKept
<1>20. PeopleKept'
  BY <1>2 DEF PeopleKept
<1>21. Granting'
  <2> SUFFICES ASSUME ~leftover', NEW i \in SEATS
               PROVE  SeatGranted(sems', table', at', i)
    BY DEF Granting
  <2>1. ~leftover /\ \A id \in 0..LastSeat : ~Permit(id)
    BY <1>1
  <2>2. SeatGranted(sems, table, at, i)
    BY <2>1 DEF FeastInv, Granting
  <2>3. ASSUME NEW r \in SEMS, sems'.list[r].name = SeatName(i)
        PROVE  sems.list[r].name = SeatName(i) /\ sems'.list[r].sem_value = sems.list[r].sem_value
    <3>1. sems'.list[r].name # NO_NAME /\ r # mutex
      BY <1>15, <1>18, <2>3, SeatNames DEF Leaves
    <3>2. u.list[r] = sems'.list[r]
      BY <1>15, <3>1 DEF Leaves
    <3>3. t.list[r].name = SeatName(i) /\ u.list[r].sem_value = t.list[r].sem_value
      BY <1>14, <2>3, <3>1, <3>2 DEF SameUsers
    <3> QED
      BY <1>9, <2>3, <3>1, <3>2, <3>3 DEF Closing
  <2>4. \A r \in SEMS : sems'.list[r].name = SeatName(i) => sems'.list[r].sem_value = 0
    <3>1. ASSUME NEW r \in SEMS, sems'.list[r].name = SeatName(i) PROVE sems'.list[r].sem_value = 0
      <4>1. sems.list[r].name = SeatName(i) /\ sems'.list[r].sem_value = sems.list[r].sem_value
        BY <2>3, <3>1
      <4>2. CASE i \in 0..LastSeat
        <5>1. ~Permit(i)
          BY <2>1, <4>2
        <5> QED
          BY <2>2, <4>1, <5>1, NoPermitLeft
      <4>3. CASE i \notin 0..LastSeat
        <5>1. at[i] = "gone"
          <6>1. i \in Nat /\ num \in Nat /\ i >= num
            BY <4>3, MainStands, SeatsAndSlots DEF FeastInv, LastSeat
          <6> QED
            BY <6>1, MainStands DEF FeastInv
        <5>2. PermitsOf(table, at, i) = 0
          BY <5>1 DEF PermitsOf
        <5>3. sems.list[r].sem_value <= 0
          BY <2>2, <4>1, <5>2 DEF SeatGranted
        <5>4. sems.list[r].sem_value \in Nat
          BY TableOfSems DEF FeastInv
        <5> QED
          BY <4>1, <5>3, <5>4
      <4> QED
        BY <4>2, <4>3
    <3> QED
      BY <3>1
  <2>5. PermitsOf(table', at', i) = 0
    BY <1>2 DEF PermitsOf
  <2>6. \A r \in SEMS : sems'.list[r].name = SeatName(i) =>
           sems'.list[r].sem_value <= PermitsOf(table', at', i)
    BY <2>4, <2>5
  <2>7. at'[i] = "gone" /\ table'[i] = "none"
    BY <1>2
  <2> QED
    BY ONLY <2>6, <2>7 DEF SeatGranted
<1> QED
  BY <1>16, <1>17, <1>19, <1>20, <1>21 DEF FeastKept

(* A feast begins with nobody at the table, and the mutex free.            *)
LEMMA BeginsKeeps ==
  ASSUME FeastInv, Visible(sems), Begins
  PROVE  FeastKept'
<1>1. /\ at[MAIN] = "over" /\ at' = [at EXCEPT ![MAIN] = "setup"] /\ leftover' = leftover
      /\ seat' = [id \in SEATS |-> NO_SEM] /\ table' = [id \in SEATS |-> "none"]
      /\ sems' = OpenSem(sems, MAIN, MUTEX, 1) /\ mutex' = OpenedSem(sems, MAIN, MUTEX, 1)
  BY DEF Begins, Goes
<1>2. at'[MAIN] = "setup" /\ \A q \in People : q # MAIN => at'[q] = at[q]
  BY <1>1, SeatsArePeople, Going DEF FeastInv
<1>3. \A id \in SEATS : /\ at[id] = "gone" /\ at'[id] = "gone"
                        /\ table'[id] = "none" /\ seat'[id] = NO_SEM
  BY <1>1, <1>2, SeatsArePeople DEF FeastInv, PeopleKept
<1>4. mutex' \in SEMS /\ SoundTable(sems') /\ Gets(sems, sems', mutex', MAIN, MUTEX, 1)
  <2>1. SoundTable(sems) /\ MAIN \in People /\ MUTEX \in PhyloNames /\ 1 \in Nat
    BY SeatsArePeople, PhyloNamed DEF FeastInv
  <2> QED
    BY <1>1, <2>1, Gotten
<1>5. SeatsNamed(sems', seat')
  BY <1>1 DEF SeatsNamed
<1>6. MutexKept'
  <2>1. sems'.list[mutex'].sem_value = 1
    BY <1>1, <1>4 DEF Gets, FeastInv, MutexKept
  <2>2. sems'.list[mutex'].name = MUTEX /\ MAIN \in sems'.list[mutex'].interested
    BY <1>4 DEF Gets
  <2>3. Inside' = {}
    <3>1. \A p \in People : at'[p] \notin LockPlaces(p)
      BY <1>2, <1>3 DEF People, LockPlaces
    <3> QED
      BY <3>1, InsidePlaces
  <2> QED
    BY <1>2, <1>4, <2>1, <2>2, <2>3 DEF MutexKept
<1>7. PeopleKept'
  BY <1>2, <1>3 DEF PeopleKept
<1>8. Granting'
  <2>1. ASSUME NEW i \in SEATS, SeatGranted(sems, table, at, i)
        PROVE  SeatGranted(sems', table', at', i)
    <3>1. PermitsOf(table, at, i) = 0 /\ PermitsOf(table', at', i) = 0
      BY <1>3 DEF PermitsOf
    <3>2. ASSUME NEW s \in SEMS, sems'.list[s].name = SeatName(i)
          PROVE  sems'.list[s].sem_value <= 0
      <4>1. s # mutex'
        BY <1>4, <3>2, SeatNames DEF Gets
      <4>2. sems'.list[s] = sems.list[s]
        BY <1>4, <4>1 DEF Gets
      <4> QED
        BY <2>1, <3>1, <3>2, <4>2 DEF SeatGranted
    <3>3. \A s \in SEMS : sems'.list[s].name = SeatName(i) =>
             sems'.list[s].sem_value <= PermitsOf(table', at', i)
      BY <3>1, <3>2
    <3>4. at'[i] = "gone" /\ table'[i] = "none"
      BY <1>3
    <3> QED
      BY ONLY <3>3, <3>4 DEF SeatGranted
  <2> QED
    BY <1>1, <2>1, GrantsStay DEF FeastInv
<1> QED
  BY <1>4, <1>5, <1>6, <1>7, <1>8 DEF FeastKept

LEMMA FeastStarts == PhyloInit => FeastKept
<1> SUFFICES ASSUME PhyloInit PROVE FeastKept
  OBVIOUS
<1>1. /\ at = [p \in SEATS \cup {MAIN} |-> IF p = MAIN THEN "over" ELSE "gone"]
      /\ table = [id \in SEATS |-> "none"] /\ seat = [id \in SEATS |-> NO_SEM]
      /\ sems = NoSemaphores
  BY DEF PhyloInit
<1>2. at[MAIN] = "over" /\ \A id \in SEATS : at[id] = "gone" /\ table[id] = "none"
  BY <1>1, SeatsAndSlots
<1> DEFINE none == [name |-> NO_NAME, sem_value |-> 0, lock |-> 0, interested |-> {}, waiting |-> <<>>]
<1>3. none \in PhyloSems
  BY DEF PhyloSems, Semaphore
<1>4. sems.list = [s \in SEMS |-> none] /\ sems.active = 0 /\ sems = [list |-> sems.list, active |-> 0]
  BY <1>1 DEF NoSemaphores
<1>5. none.name = NO_NAME /\ none.interested = {} /\ none.sem_value = 0
  OBVIOUS
<1> HIDE DEF none
<1>6. \A s \in SEMS : /\ sems.list[s].name = NO_NAME /\ sems.list[s].interested = {}
                      /\ sems.list[s].sem_value = 0
  BY <1>4, <1>5
<1>7. OpenSems(sems) = {}
  BY <1>6 DEF OpenSems
<1>8. SoundTable(sems)
  <2>1. sems \in SemTables
    BY <1>3, <1>4 DEF SemTables
  <2>2. sems.active = Cardinality(OpenSems(sems))
    BY <1>4, <1>7, FS_EmptySet
  <2> QED
    BY <1>6, <2>1, <2>2 DEF SoundTable
<1>9. SeatsNamed(sems, seat)
  BY <1>1 DEF SeatsNamed
<1>10. MutexKept
  BY <1>2, <1>6, SeatNames DEF MutexKept
<1>11. PeopleKept
  BY <1>2 DEF PeopleKept
<1>12. ASSUME NEW i \in SEATS PROVE SeatGranted(sems, table, at, i)
  <2>1. at[i] = "gone" /\ table[i] = "none"
    BY <1>2
  <2>2. PermitsOf(table, at, i) = 0
    BY <2>1 DEF PermitsOf
  <2>3. \A s \in SEMS : sems.list[s].name = SeatName(i) => sems.list[s].sem_value <= PermitsOf(table, at, i)
    BY <1>6, <2>2
  <2> QED
    BY ONLY <2>1, <2>3 DEF SeatGranted
<1> QED
  BY <1>8, <1>9, <1>10, <1>11, <1>12 DEF FeastKept, Granting

(* The inductive invariant of the feast: the table of semaphores is sound  *)
(* and the seats have those of their names; the mutex is free, or one      *)
(* process is where it is held; whoever sits may use the mutex and its own *)
(* seat; and unless a permit was left over, a seat has at most the one     *)
(* that its philosopher was granted and has not taken yet.                 *)
THEOREM FeastInvariance == PhyloSpec => []FeastInv
<1>1. PhyloInit => FeastKept
  BY FeastStarts
<1>2. FeastInv <=> TableInv /\ FeastKept
  BY DEF FeastInv, FeastKept
<1>3. TableInv /\ FeastKept /\ TableInv' /\ [PhyloNext]_phyloVars => FeastKept'
  <2> SUFFICES ASSUME TableInv, FeastKept, [PhyloNext]_phyloVars PROVE FeastKept'
    OBVIOUS
  <2>1. FeastInv
    BY <1>2
  <2>2. CASE UNCHANGED phyloVars
    <3>1. UNCHANGED <<table, seat, mutex, sems, at, leftover>>
      BY <2>2 DEF phyloVars
    <3>2. Inside' = Inside
      BY <3>1 DEF Inside
    <3> QED
      BY <3>1, <3>2 DEF FeastKept, MutexKept, PeopleKept, Granting
  <2>3. CASE PhyloNext
    <3>1. Visible(sems) /\ PhyloStep
      BY <2>3 DEF PhyloNext, InSight, Visible
    <3>2. \/ Begins \/ Setup \/ Commands \/ MainTakesMutex \/ PsListed \/ AddPhilosopher
          \/ StandsBack \/ WaitsForSeat \/ RemovePhilosopher \/ Quits
          \/ \E id \in SEATS :
                SitsDown(id) \/ TakesMutex(id) \/ GetsHungry(id) \/ Dines(id) \/ IsDone(id)
      BY <3>1 DEF PhyloStep
    <3>3. CASE Begins
      BY <2>1, <3>1, <3>3, BeginsKeeps
    <3>4. CASE Setup \/ Commands
      BY <2>1, <3>4, MainReads
    <3>5. CASE MainTakesMutex \/ \E id \in SEATS : TakesMutex(id)
      BY <2>1, <3>5, EverybodyLocks
    <3>6. CASE PsListed \/ StandsBack
      BY <2>1, <3>6, MainUnlocks
    <3>7. CASE AddPhilosopher
      BY <2>1, <3>1, <3>7, AddKeeps
    <3>8. CASE WaitsForSeat \/ \E id \in SEATS : Dines(id)
      BY <2>1, <3>8, EverybodyWaits
    <3>9. CASE RemovePhilosopher
      BY <2>1, <3>9, RemoveKeeps
    <3>10. CASE Quits
      BY <2>1, <3>10, QuitsKeeps
    <3>11. CASE \E id \in SEATS : SitsDown(id)
      BY <2>1, <3>1, <3>11, SitsKeeps
    <3>12. CASE \E id \in SEATS : GetsHungry(id)
      BY <2>1, <3>12, HungryKeeps
    <3>13. CASE \E id \in SEATS : IsDone(id)
      BY <2>1, <3>13, DoneKeeps
    <3> QED
      BY <3>2, <3>3, <3>4, <3>5, <3>6, <3>7, <3>8, <3>9, <3>10, <3>11, <3>12, <3>13
  <2> QED
    BY <2>2, <2>3
<1> QED
  BY <1>1, <1>2, <1>3, TableInvariance, PTL DEF PhyloSpec

(* The mutex of the table is held once, or free, however philosophers are  *)
(* killed at it and feasts follow one another (sem_wait(mutex) and         *)
(* sem_post(mutex) of phylo.c).                                            *)
THEOREM MutexIsHeldOnce == PhyloSpec => []PhyloSound
<1>1. FeastInv => PhyloSound
  <2> SUFFICES ASSUME FeastInv PROVE PhyloSound
    OBVIOUS
  <2>1. PhyloTypeOK
    BY DEF FeastInv, TableInv
  <2>2. ASSUME at[MAIN] # "over" PROVE sems.list[mutex].sem_value + Cardinality(Inside) = 1
    <3>1. CASE sems.list[mutex].sem_value = 1 /\ Inside = {}
      BY <3>1, FS_EmptySet
    <3>2. CASE sems.list[mutex].sem_value = 0 /\ \E p \in People : Inside = {p}
      BY <3>2, FS_Singleton
    <3> QED
      BY <2>2, <3>1, <3>2 DEF FeastInv, MutexKept
  <2> QED
    BY <2>1, <2>2 DEF PhyloSound, MutexHeldOnce
<1> QED
  BY <1>1, FeastInvariance, PTL

(* No philosopher takes the forks before the table has granted them,       *)
(* unless a permit was left in the semaphore of a seat                     *)
(* (philosopher_action and remove_philosopher of phylo.c).                 *)
THEOREM DinersWereGranted == PhyloSpec => []DinersAreGranted
<1>1. FeastInv => DinersAreGranted
  BY DEF FeastInv, Granting, SeatGranted, DinersAreGranted
<1> QED
  BY <1>1, FeastInvariance, PTL

-----------------------------------------------------------------------------
(* The game.                                                               *)
Dirs == {"UP", "LEFT", "DOWN", "RIGHT"}
Pixels == (0..BOARD_WIDTH - 1) \X (0..BOARD_HEIGHT - 1)
Point == Int \X Int

(* An odd number of steps lies between p and r.                            *)
OddApart(p, r) == \E k \in Int : p[1] + p[2] = r[1] + r[2] + 2 * k + 1

Players ==
    /\ coord[1] \in Point /\ coord[2] \in Point
    /\ dir[1] \in Dirs /\ dir[2] \in Dirs
    /\ phase = "play" /\ players = 2 => OddApart(coord[1], coord[2])

Lines ==
    /\ moves \in Nat
    /\ phase = "play" => /\ lost = 0
                         /\ Border \subseteq painted /\ painted \subseteq Pixels

GameInv == GameTypeOK /\ Players /\ Lines /\ LinesDoNotCross

(* A step goes to a neighbouring pixel.                                    *)
LEMMA Steps ==
  ASSUME NEW p \in Point, NEW d \in Dirs
  PROVE  /\ Toward(p, d) \in Point
         /\ \/ Toward(p, d)[1] + Toward(p, d)[2] = p[1] + p[2] + 1
            \/ Toward(p, d)[1] + Toward(p, d)[2] = p[1] + p[2] - 1
BY DEF Point, Dirs, Toward

(* Two who step together stay an odd number of steps apart.                *)
LEMMA StayApart ==
  ASSUME NEW p \in Point, NEW r \in Point, NEW d \in Dirs, NEW e \in Dirs, OddApart(p, r)
  PROVE  OddApart(Toward(p, d), Toward(r, e))
<1> DEFINE u == Toward(p, d)
           v == Toward(r, e)
<1>1. PICK k \in Int : p[1] + p[2] = r[1] + r[2] + 2 * k + 1
  BY DEF OddApart
<1>2. /\ u \in Point /\ (u[1] + u[2] = p[1] + p[2] + 1 \/ u[1] + u[2] = p[1] + p[2] - 1)
      /\ v \in Point /\ (v[1] + v[2] = r[1] + r[2] + 1 \/ v[1] + v[2] = r[1] + r[2] - 1)
  BY Steps
<1> HIDE DEF u, v
<1>3. PICK j \in {k - 1, k, k + 1} : u[1] + u[2] = v[1] + v[2] + 2 * j + 1
  BY <1>1, <1>2 DEF Point
<1>4. OddApart(u, v)
  <2>1. j \in Int
    BY <1>1, <1>3
  <2> QED
    BY <2>1, <1>3 DEF OddApart
<1> QED
  BY <1>4 DEF u, v

(* Who are an odd number of steps apart are apart.                         *)
LEMMA OddIsApart ==
  ASSUME NEW p \in Point, OddApart(p, p)
  PROVE  FALSE
BY DEF OddApart, Point

(* The pixels of the board, and the border among them.                     *)
LEMMA Board ==
  /\ IsFiniteSet(Pixels) /\ Cardinality(Pixels) = BOARD_WIDTH * BOARD_HEIGHT
  /\ Border \subseteq Pixels
<1>1. /\ IsFiniteSet(0..BOARD_WIDTH - 1) /\ Cardinality(0..BOARD_WIDTH - 1) = BOARD_WIDTH
      /\ IsFiniteSet(0..BOARD_HEIGHT - 1) /\ Cardinality(0..BOARD_HEIGHT - 1) = BOARD_HEIGHT
  BY EliminatorAssumption, FS_Interval
<1>2. Border \subseteq Pixels
  <2>1. 0 \in 0..BOARD_HEIGHT - 1
    BY EliminatorAssumption
  <2> QED
    <3>1. ASSUME NEW x \in 0..BOARD_WIDTH - 1 PROVE <<x, 0>> \in Pixels
      BY <2>1 DEF Pixels
    <3> QED
      BY <3>1 DEF Border
<1>3. IsFiniteSet(Pixels) /\ Cardinality(Pixels) = BOARD_WIDTH * BOARD_HEIGHT
  <2> DEFINE columns == 0..BOARD_WIDTH - 1
             rows == 0..BOARD_HEIGHT - 1
  <2>1. /\ IsFiniteSet(columns) /\ IsFiniteSet(rows)
        /\ Cardinality(columns) = BOARD_WIDTH /\ Cardinality(rows) = BOARD_HEIGHT
    BY <1>1
  <2>2. Pixels = columns \X rows
    BY DEF Pixels
  <2> HIDE DEF columns, rows
  <2> QED
    BY <2>1, <2>2, FS_Product
<1> QED
  BY <1>2, <1>3

(* The first pixels of a game.                                             *)
LEMMA GameStarts == GameInv /\ Start => GameInv'
<1> SUFFICES ASSUME GameInv, Start PROVE GameInv'
  OBVIOUS
<1>1. /\ phase' = "play" /\ players' = currentDecision /\ currentDecision' = currentDecision
      /\ coord'[1] = <<BOARD_WIDTH \div 2, 0>>
      /\ coord'[2] = <<BOARD_WIDTH \div 2, BOARD_HEIGHT - 1>>
      /\ dir'[1] = "DOWN" /\ dir'[2] = "UP"
      /\ painted' = Border /\ lost' = 0 /\ pts' = 0 /\ moves' = 0
  BY DEF Start, Places
<1>2. GameTypeOK'
  BY <1>1, EliminatorAssumption DEF GameInv, GameTypeOK
<1>3. Players'
  <2>1. coord'[1] \in Point /\ coord'[2] \in Point
    BY <1>1, EliminatorAssumption DEF Point
  <2>2. PICK h \in Int : BOARD_HEIGHT = 2 * h
    BY EliminatorAssumption
  <2>3. coord'[1][1] + coord'[1][2] = coord'[2][1] + coord'[2][2] + 2 * (0 - h) + 1
    BY <1>1, <2>2, EliminatorAssumption
  <2>4. OddApart(coord'[1], coord'[2])
    <3>1. 0 - h \in Int
      BY <2>2
    <3> QED
      BY ONLY <3>1, <2>3 DEF OddApart
  <2> QED
    BY <1>1, <2>1, <2>4 DEF Players, Dirs
<1>4. Lines'
  BY <1>1, Board DEF Lines, Border, Pixels
<1>5. LinesDoNotCross'
  <2>1. painted' \ Border' = {} /\ players' * moves' = 0
    BY <1>1, <1>2 DEF Border, GameTypeOK
  <2> QED
    BY <1>1, <2>1, FS_EmptySet DEF LinesDoNotCross
<1> QED
  BY <1>2, <1>3, <1>4, <1>5 DEF GameInv

(* What a move does to the pixels: each player enters one that nobody has  *)
(* entered before, or the game is lost.                                    *)
LEMMA GameMoves == GameInv /\ Move => GameInv'
<1> SUFFICES ASSUME GameInv, Move PROVE GameInv'
  OBVIOUS
<1>1. /\ players \in 1..2 /\ players' = players /\ 1 \in Playing
      /\ phase = "play" /\ lost' = did_lose(Moved)
      /\ dir' = dir /\ \A q \in Playing : q \in 1..2
  BY DEF Move, GameInv, GameTypeOK, Playing
<1>2. /\ coord[1] \in Point /\ coord[2] \in Point /\ dir[1] \in Dirs /\ dir[2] \in Dirs
      /\ players = 2 => OddApart(coord[1], coord[2])
  BY <1>1 DEF GameInv, Players
<1>3. /\ \A q \in Playing : Moved[q] = Toward(coord[q], dir[q]) /\ Moved[q] \in Point
      /\ coord'[1] = Moved[1]
      /\ coord'[2] = IF players = 2 THEN Moved[2] ELSE coord[2]
  <2>1. \A q \in Playing : Moved[q] = Toward(coord[q], dir[q])
    BY DEF Moved
  <2>2. \A q \in Playing : Moved[q] \in Point
    BY <1>1, <1>2, <2>1, Steps
  <2>3. 2 \in Playing <=> players = 2
    BY <1>1 DEF Playing
  <2> QED
    BY <1>1, <2>1, <2>2, <2>3 DEF Move
<1>4. players = 2 => OddApart(Moved[1], Moved[2]) /\ Moved[1] # Moved[2]
  <2> SUFFICES ASSUME players = 2 PROVE OddApart(Moved[1], Moved[2]) /\ Moved[1] # Moved[2]
    OBVIOUS
  <2>1. 1 \in Playing /\ 2 \in Playing
    BY DEF Playing
  <2>2. OddApart(Moved[1], Moved[2])
    BY <1>2, <1>3, <2>1, StayApart
  <2>3. Moved[1] \in Point
    BY <1>3, <2>1
  <2> QED
    BY <2>2, <2>3, OddIsApart
<1>5. /\ lost' \in {0, 1} \cup (IF players = 2 THEN {2, 3} ELSE {})
      /\ lost' = 0 <=> \A q \in Playing : ~Hit(Moved[q])
  <2>1. CASE \A q \in Playing : ~Hit(Moved[q])
    BY <1>1, <2>1 DEF did_lose
  <2>2. CASE \E q \in Playing : Hit(Moved[q])
    <3>1. players = 1 => Hit(Moved[1])
      BY <2>2 DEF Playing
    <3> QED
      BY <1>1, <2>2, <3>1 DEF did_lose
  <2> QED
    BY <2>1, <2>2
<1>6. GameTypeOK'
  BY <1>1, <1>5, EliminatorAssumption DEF Move, Scored, GameInv, GameTypeOK
<1>7. Players'
  <2>1. coord'[1] \in Point /\ coord'[2] \in Point
    BY <1>1, <1>2, <1>3 DEF Playing
  <2>2. players' = 2 => OddApart(coord'[1], coord'[2])
    BY <1>1, <1>3, <1>4
  <2> QED
    BY <1>1, <1>2, <2>1, <2>2 DEF Players
<1>8. CASE lost' # 0
  <2>1. phase' = "lost" /\ moves' \in Nat
    BY <1>8 DEF Move, GameInv, Lines
  <2> QED
    BY <1>6, <1>7, <2>1 DEF GameInv, Lines, LinesDoNotCross
<1>9. CASE lost' = 0
  <2> DEFINE entered == {Moved[q] : q \in Playing}
             lines == painted \ Border
  <2>1. /\ Border \subseteq painted /\ painted \subseteq Pixels
        /\ moves \in Nat /\ Cardinality(lines) = players * moves
    BY <1>1 DEF GameInv, Lines, LinesDoNotCross
  <2>2. \A p \in entered : InBoard(p) /\ p \in Pixels /\ p \notin painted
    <3> SUFFICES ASSUME NEW q \in Playing
                 PROVE InBoard(Moved[q]) /\ Moved[q] \in Pixels /\ Moved[q] \notin painted
      OBVIOUS
    <3>1. InBoard(Moved[q]) /\ Moved[q] \notin painted
      BY <1>5, <1>9 DEF Hit
    <3>2. Moved[q] \in Pixels
      BY <1>3, <3>1 DEF InBoard, Pixels, Point
    <3> QED
      BY <3>1, <3>2
  <2>3. painted' = painted \cup entered
    <3>1. painted' = painted \cup {p \in entered : InBoard(p)}
      BY DEF Move
    <3> QED
      BY <2>2, <3>1
  <2>4. IsFiniteSet(entered) /\ Cardinality(entered) = players
    <3>1. CASE players = 1
      <4>1. entered = {Moved[1]}
        BY <3>1 DEF Playing
      <4> QED
        BY <3>1, <4>1, FS_Singleton
    <3>2. CASE players = 2
      <4>1. entered = {Moved[1]} \cup {Moved[2]}
        BY <3>2 DEF Playing
      <4>2. Moved[1] # Moved[2]
        BY <1>4, <3>2
      <4>3. /\ IsFiniteSet({Moved[1]} \cup {Moved[2]})
            /\ Cardinality({Moved[1]} \cup {Moved[2]}) = 2
        BY ONLY <4>2, TwoAreTwo
      <4> QED
        BY <3>2, <4>1, <4>3
    <3> QED
      BY <1>1, <3>1, <3>2
  <2>5. IsFiniteSet(lines) /\ Cardinality(lines) <= BOARD_WIDTH * BOARD_HEIGHT
    BY <2>1, Board, FS_Subset
  <2>6. /\ painted' \ Border = lines \cup entered
        /\ IsFiniteSet(lines \cup entered)
        /\ Cardinality(lines \cup entered) = Cardinality(lines) + Cardinality(entered)
    <3>1. lines \cap entered = {} /\ painted' \ Border = lines \cup entered
      BY <2>1, <2>2, <2>3
    <3>2. IsFiniteSet(lines) /\ IsFiniteSet(entered) /\ lines \cap entered = {}
      BY <2>4, <2>5, <3>1
    <3> HIDE DEF lines, entered
    <3>3. /\ IsFiniteSet(lines \cup entered)
          /\ Cardinality(lines \cup entered) = Cardinality(lines) + Cardinality(entered)
      BY ONLY <3>2, CountedApart
    <3> QED
      BY <3>1, <3>3
  <2>7. moves <= BOARD_WIDTH * BOARD_HEIGHT
    <3>1. players * moves <= BOARD_WIDTH * BOARD_HEIGHT
      BY <2>1, <2>5
    <3>2. moves <= players * moves
      <4>1. CASE players = 1
        BY <2>1, <4>1
      <4>2. CASE players = 2
        BY <2>1, <4>2
      <4> QED
        BY <1>1, <4>1, <4>2
    <3>3. BOARD_WIDTH * BOARD_HEIGHT \in Int /\ players * moves \in Int /\ moves \in Int
      BY <1>1, <2>1, EliminatorAssumption
    <3> HIDE DEF lines, entered
    <3> QED
      BY ONLY <3>1, <3>2, <3>3
  <2>8. moves' = moves + 1
    BY <2>7 DEF Move
  <2>9. Cardinality(painted' \ Border) = players * (moves + 1)
    <3>1. Cardinality(painted' \ Border) = players * moves + players
      BY <2>1, <2>4, <2>6
    <3>2. players * moves + players = players * (moves + 1)
      <4>1. CASE players = 1
        BY <2>1, <4>1
      <4>2. CASE players = 2
        BY <2>1, <4>2
      <4> QED
        BY <1>1, <4>1, <4>2
    <3> QED
      BY <3>1, <3>2
  <2>10. LinesDoNotCross'
    BY <1>1, <2>8, <2>9 DEF LinesDoNotCross, Border
  <2>11. Lines'
    BY <1>9, <2>1, <2>2, <2>3, <2>8 DEF Lines, Border, Pixels
  <2> QED
    BY <1>6, <1>7, <2>10, <2>11 DEF GameInv
<1> QED
  BY <1>8, <1>9

(* The keys and the menus.                                                 *)
LEMMA GameOthers ==
  ASSUME GameInv,
         \/ \E c \in {"a", "d"} : Choose(c)
         \/ \E c \in DOMAIN p1Keys \cup DOMAIN p2Keys : Steer(c)
         \/ PlayAgain \/ Leave \/ UNCHANGED gameVars
  PROVE  GameInv'
<1> USE DEF GameInv, GameTypeOK, Players, Lines, LinesDoNotCross, Border
<1>1. CASE \E c \in {"a", "d"} : Choose(c)
  BY <1>1 DEF Choose
<1>2. CASE \E c \in DOMAIN p1Keys \cup DOMAIN p2Keys : Steer(c)
  <2>1. PICK c \in DOMAIN p1Keys \cup DOMAIN p2Keys : Steer(c)
    BY <1>2
  <2>2. dir'[1] \in Dirs /\ dir'[2] \in Dirs
    BY <2>1 DEF Steer, ChangeDir, p1Keys, p2Keys, Dirs
  <2> QED
    BY <2>1, <2>2 DEF Steer
<1>3. CASE PlayAgain
  BY <1>3 DEF PlayAgain
<1>4. CASE Leave
  BY <1>4 DEF Leave
<1>5. CASE UNCHANGED gameVars
  BY <1>5 DEF gameVars
<1> QED
  BY <1>1, <1>2, <1>3, <1>4, <1>5

(* The inductive invariant of the game: beside the types, that the two     *)
(* players are an odd number of steps apart, and that the border and the   *)
(* lines are on the board.                                                 *)
THEOREM GameInvariance == GameSpec => []GameInv
<1>1. GameInit => GameInv
  BY EliminatorAssumption
     DEF GameInit, GameInv, GameTypeOK, Players, Lines, LinesDoNotCross, Point, Dirs
<1>2. GameInv /\ [GameNext]_gameVars => GameInv'
  BY GameStarts, GameMoves, GameOthers DEF GameNext
<1> QED
  BY <1>1, <1>2, PTL DEF GameSpec

(* On a board of any size no pixel is ever entered twice, neither by one   *)
(* player nor by both at once (did_lose and move of eliminator.c).         *)
THEOREM LinesNeverCross == GameSpec => []GameSound
<1>1. GameInv => GameSound
  BY DEF GameInv, GameSound
<1> QED
  BY <1>1, GameInvariance, PTL

(* Two players never stand on one pixel (play2 of eliminator.c): what      *)
(* did_lose does not look at cannot happen, on any board whose height is   *)
(* even.                                                                   *)
THEOREM PlayersNeverMeet == GameSpec => []HeadsNeverMeet
<1>1. GameInv => HeadsNeverMeet
  BY OddIsApart DEF GameInv, Players, HeadsNeverMeet
<1> QED
  BY <1>1, GameInvariance, PTL

-----------------------------------------------------------------------------
(* The commands.                                                           *)
Turn(s, dropped, w, i) ==
    w[i] = IF i = 0 THEN <<>>
           ELSE IF s[i] \in dropped THEN w[i - 1] ELSE Append(w[i - 1], s[i])

Writes(s, dropped, w, n) ==
    w = [i \in 0..n |-> IF i = 0 THEN <<>>
                        ELSE IF s[i] \in dropped THEN w[i - 1] ELSE Append(w[i - 1], s[i])]

(* Strings that are made of strings.                                       *)
Extends(s, c, t) == t = Append(s, c)
Joined(s, t, u) == u = s \o t

(* There is such a loop over any string: each turn extends the one before. *)
LEMMA WritesExists ==
  ASSUME NEW s, NEW dropped, NEW n \in Nat
  PROVE  \E w : Writes(s, dropped, w, n)
<1> DEFINE bad == {i \in Nat : ~\E w : Writes(s, dropped, w, i)}
<1> SUFFICES ASSUME bad # {} PROVE FALSE
  OBVIOUS
<1>1. PICK m \in bad : \A i \in bad : m <= i
  BY LeastNatural
<1>2. CASE m = 0
  <2> DEFINE w == [i \in 0..0 |-> <<>>]
  <2>1. w = [i \in 0..0 |-> IF i = 0 THEN <<>>
                            ELSE IF s[i] \in dropped THEN w[i - 1] ELSE Append(w[i - 1], s[i])]
    OBVIOUS
  <2> HIDE DEF w
  <2> QED
    BY <1>1, <1>2, <2>1 DEF Writes
<1>3. CASE m # 0
  <2>1. m - 1 \in Nat /\ m - 1 \notin bad
    BY <1>1, <1>3
  <2>2. PICK g : Writes(s, dropped, g, m - 1)
    BY <2>1
  <2> DEFINE w == [i \in 0..m |-> IF i = m
                                  THEN IF s[m] \in dropped THEN g[m - 1]
                                       ELSE Append(g[m - 1], s[m])
                                  ELSE g[i]]
  <2>3. ASSUME NEW i \in 0..m
        PROVE  w[i] = IF i = 0 THEN <<>>
                      ELSE IF s[i] \in dropped THEN w[i - 1] ELSE Append(w[i - 1], s[i])
    <3>1. CASE i = m
      BY <1>1, <1>3, <2>1, <3>1
    <3>2. CASE i # m
      <4>1. i \in 0..m - 1 /\ (i # 0 => i - 1 \in 0..m - 1 /\ i - 1 # m)
        BY <1>1, <3>2
      <4>2. g[i] = IF i = 0 THEN <<>>
                   ELSE IF s[i] \in dropped THEN g[i - 1] ELSE Append(g[i - 1], s[i])
        BY <2>2, <4>1 DEF Writes
      <4> QED
        BY <1>1, <3>2, <4>1, <4>2
    <3> QED
      BY <3>1, <3>2
  <2>4. w = [i \in 0..m |-> w[i]]
    OBVIOUS
  <2> HIDE DEF w
  <2>5. Writes(s, dropped, w, m)
    BY <2>3, <2>4, Zenon DEF Writes
  <2> QED
    BY <1>1, <2>5
<1> QED
  BY <1>2, <1>3

LEMMA WithoutWrites ==
  ASSUME NEW s, Len(s) \in Nat, NEW dropped
  PROVE  \E w : /\ Without(s, dropped) = w[Len(s)]
                /\ \A i \in 0..Len(s) : Turn(s, dropped, w, i)
<1> DEFINE n == Len(s)
           g == CHOOSE w : w = [i \in 0..n |-> IF i = 0 THEN <<>>
                        ELSE IF s[i] \in dropped THEN w[i - 1] ELSE Append(w[i - 1], s[i])]
<1>1. Without(s, dropped) = g[n]
  BY DEF Without
<1>2. \E w : w = [i \in 0..n |-> IF i = 0 THEN <<>>
                        ELSE IF s[i] \in dropped THEN w[i - 1] ELSE Append(w[i - 1], s[i])]
  <2>1. n \in Nat
    OBVIOUS
  <2> HIDE DEF n
  <2>2. PICK w : Writes(s, dropped, w, n)
    BY <2>1, WritesExists
  <2> QED
    BY ONLY <2>2, Zenon DEF Writes
<1>3. Writes(s, dropped, g, n)
  BY <1>2, Zenon DEF Writes
<1> HIDE DEF g
<1>4. \A i \in 0..n : Turn(s, dropped, g, i)
  BY <1>3 DEF Writes, Turn
<1> QED
  BY <1>1, <1>4

LEMMA WithoutNothing ==
  ASSUME NEW dropped
  PROVE  Without(<<>>, dropped) = <<>>
<1> PICK s : s = <<>>
  OBVIOUS
<1>1. Len(s) = 0
  OBVIOUS
<1>2. PICK w : /\ Without(s, dropped) = w[Len(s)]
               /\ \A i \in 0..Len(s) : Turn(s, dropped, w, i)
  BY <1>1, WithoutWrites
<1>3. Turn(s, dropped, w, 0)
  BY <1>1, <1>2
<1> QED
  BY <1>1, <1>2, <1>3 DEF Turn

LEMMA WithoutLast ==
  ASSUME NEW S, NEW s \in Seq(S), NEW c \in S, NEW dropped, NEW t, Extends(s, c, t)
  PROVE  IF c \in dropped THEN Without(t, dropped) = Without(s, dropped)
         ELSE Extends(Without(s, dropped), c, Without(t, dropped))
<1> USE DEF Extends
<1> PICK n : n = Len(s)
  OBVIOUS
<1>1. n \in Nat /\ Len(t) = n + 1 /\ t[n + 1] = c /\ \A i \in 1..n : t[i] = s[i]
  OBVIOUS
<1>2. PICK w : Without(s, dropped) = w[n] /\ \A i \in 0..n : Turn(s, dropped, w, i)
  BY <1>1, WithoutWrites
<1>3. PICK v : Without(t, dropped) = v[n + 1] /\ \A i \in 0..n + 1 : Turn(t, dropped, v, i)
  <2>1. Len(t) \in Nat
    BY <1>1
  <2>2. PICK v : Without(t, dropped) = v[Len(t)] /\ \A i \in 0..Len(t) : Turn(t, dropped, v, i)
    BY <2>1, WithoutWrites
  <2> QED
    BY <1>1, <2>2
<1> DEFINE bad == {i \in Nat : i <= n /\ v[i] # w[i]}
<1>4. ASSUME bad # {} PROVE FALSE
  <2>1. PICK m \in bad : \A i \in bad : m <= i
    BY <1>4, LeastNatural
  <2>2. m \in Nat /\ m <= n /\ v[m] # w[m]
    BY <2>1
  <2>3. Turn(s, dropped, w, m) /\ Turn(t, dropped, v, m)
    BY <1>1, <1>2, <1>3, <2>2
  <2>4. m # 0
    BY <2>2, <2>3 DEF Turn
  <2>5. m - 1 \in Nat /\ m - 1 <= n /\ ~(m <= m - 1) /\ m \in 1..n
    BY <1>1, <2>2, <2>4
  <2>6. v[m - 1] = w[m - 1]
    BY <2>1, <2>5
  <2> QED
    BY <1>1, <2>2, <2>3, <2>4, <2>5, <2>6 DEF Turn
<1>5. v[n] = w[n]
  BY <1>1, <1>4
<1>6. Turn(t, dropped, v, n + 1) /\ n + 1 # 0 /\ n + 1 - 1 = n
  BY <1>1, <1>3
<1> QED
  BY <1>1, <1>2, <1>3, <1>5, <1>6 DEF Turn

(* The first characters of a string.                                       *)
First(s, n) == [i \in 1..n |-> s[i]]

LEMMA FirstIs ==
  ASSUME NEW S, NEW s \in Seq(S)
  PROVE  /\ First(s, 0) = <<>> /\ First(s, Len(s)) = s
         /\ \A n \in 0..Len(s) : First(s, n) \in Seq(S) /\ Len(First(s, n)) = n
         /\ \A n \in 1..Len(s) : Extends(First(s, n - 1), s[n], First(s, n))
<1>1. Len(s) \in Nat /\ \A i \in 1..Len(s) : s[i] \in S
  OBVIOUS
<1>2. First(s, 0) = <<>>
  BY DEF First
<1>3. First(s, Len(s)) = s
  BY DEF First
<1>4. ASSUME NEW n \in 0..Len(s) PROVE First(s, n) \in Seq(S) /\ Len(First(s, n)) = n
  <2>1. n \in Nat /\ First(s, n) \in [1..n -> S]
    BY <1>1 DEF First
  <2> QED
    BY <2>1
<1>5. ASSUME NEW n \in 1..Len(s) PROVE First(s, n) = Append(First(s, n - 1), s[n])
  <2> PICK f, g : f = First(s, n) /\ g = Append(First(s, n - 1), s[n])
    OBVIOUS
  <2>1. n \in Nat /\ n - 1 \in 0..Len(s) /\ n \in 0..Len(s)
    BY <1>1
  <2>2. f \in Seq(S) /\ Len(f) = n /\ \A i \in 1..n : f[i] = s[i]
    BY <1>4, <2>1 DEF First
  <2>3. /\ First(s, n - 1) \in Seq(S) /\ Len(First(s, n - 1)) = n - 1
        /\ \A i \in 1..n - 1 : First(s, n - 1)[i] = s[i]
    BY <1>4, <2>1 DEF First
  <2>4. g \in Seq(S) /\ Len(g) = n /\ \A i \in 1..n : g[i] = s[i]
    BY <1>1, <2>1, <2>3
  <2> QED
    BY <2>2, <2>4, SeqEqual
<1> QED
  BY <1>2, <1>3, <1>4, <1>5 DEF Extends

LEMMA AppendToJoined ==
  ASSUME NEW S, NEW s \in Seq(S), NEW t \in Seq(S), NEW c \in S,
         NEW u, Joined(s, t, u), NEW l, Extends(t, c, l), NEW f, Joined(s, l, f)
  PROVE  Extends(u, c, f)
<1> PICK g, n, m : g = Append(u, c) /\ n = Len(s) /\ m = Len(t)
  OBVIOUS
<1>1. n \in Nat /\ m \in Nat
  OBVIOUS
<1>2. l \in Seq(S) /\ Len(l) = m + 1 /\ l = Append(t, c)
  BY <1>1 DEF Extends
<1>3. /\ f \in Seq(S) /\ Len(f) = n + (m + 1)
      /\ \A i \in 1..Len(f) : f[i] = IF i <= n THEN s[i] ELSE l[i - n]
  <2>1. f = s \o l /\ l \in Seq(S) /\ Len(l) = m + 1
    BY <1>2 DEF Joined
  <2>2. s \in Seq(S) /\ Len(s) = n
    OBVIOUS
  <2>3. Len(s \o l) = Len(s) + Len(l) /\ s \o l \in Seq(S)
    <3>1. s \in Seq(S) /\ l \in Seq(S)
      BY <2>1, <2>2
    <3> QED
      BY ONLY <3>1, ConcatProperties
  <2>4. \A i \in 1..Len(s) + Len(l) : (s \o l)[i] = IF i <= Len(s) THEN s[i] ELSE l[i - Len(s)]
    BY ONLY <2>1, <2>2
  <2>5. Len(f) = n + (m + 1) /\ f \in Seq(S)
    BY ONLY <2>1, <2>2, <2>3
  <2> QED
    BY ONLY <2>1, <2>2, <2>4, <2>5
<1>4. u = s \o t /\ u \in Seq(S) /\ Len(u) = n + m
  BY <1>1 DEF Joined
<1>5. g \in Seq(S) /\ Len(g) = n + m + 1
  BY <1>1, <1>4
<1>6. ASSUME NEW i \in 1..Len(f) PROVE f[i] = g[i]
  <2>1. i \in Nat /\ i >= 1 /\ i <= n + m + 1
    BY <1>1, <1>3
  <2>2. CASE i <= n
    <3>1. g[i] = u[i] /\ u[i] = s[i]
      BY <1>1, <1>4, <2>1, <2>2
    <3> QED
      BY <1>3, <2>2, <3>1
  <2>3. CASE ~(i <= n) /\ i <= n + m
    <3>1. i - n \in 1..m
      BY <1>1, <2>1, <2>3
    <3>2. l[i - n] = t[i - n]
      BY <1>1, <1>2, <3>1
    <3>3. g[i] = u[i] /\ u[i] = t[i - n]
      BY <1>1, <1>4, <2>1, <2>3
    <3> QED
      BY <1>3, <2>3, <3>2, <3>3
  <2>4. CASE i = n + m + 1
    <3>1. g[i] = c
      BY <1>1, <1>4, <2>4
    <3>2. i - n = m + 1 /\ l[m + 1] = c /\ ~(i <= n)
      BY <1>1, <1>2, <2>4
    <3> QED
      BY <1>3, <3>1, <3>2
  <2>5. i <= n \/ (~(i <= n) /\ i <= n + m) \/ i = n + m + 1
    BY ONLY <1>1, <2>1
  <2> QED
    BY ONLY <2>2, <2>3, <2>4, <2>5
<1>7. Len(f) = Len(g)
  BY <1>1, <1>3, <1>5
<1>8. f = g
  BY ONLY <1>3, <1>5, <1>6, <1>7, SeqEqual
<1> QED
  BY <1>8 DEF Extends

LEMMA WithoutIsText ==
  ASSUME NEW S, NEW s \in Seq(S), NEW dropped
  PROVE  Without(s, dropped) \in Seq(S)
<1>0. Len(s) \in Nat /\ \A i \in 1..Len(s) : s[i] \in S
  OBVIOUS
<1> DEFINE bad == {k \in Nat : k <= Len(s) /\ Without(First(s, k), dropped) \notin Seq(S)}
<1>1. ASSUME bad # {} PROVE FALSE
  <2>1. PICK k \in bad : \A j \in bad : k <= j
    BY <1>1, LeastNatural
  <2>2. k \in Nat /\ k <= Len(s) /\ Without(First(s, k), dropped) \notin Seq(S)
    BY <2>1
  <2>3. CASE k = 0
    <3>1. First(s, k) = <<>>
      BY <2>3, FirstIs
    <3>2. Without(First(s, k), dropped) = <<>>
      BY <3>1, WithoutNothing
    <3> QED
      BY <2>2, <3>2
  <2>4. CASE k # 0
    <3>1. k - 1 \in Nat /\ k - 1 <= Len(s) /\ ~(k <= k - 1) /\ k \in 1..Len(s)
          /\ k - 1 \in 0..Len(s)
      BY <1>0, <2>2, <2>4
    <3>2. Without(First(s, k - 1), dropped) \in Seq(S)
      BY <2>1, <3>1
    <3> PICK f, g, c : f = First(s, k - 1) /\ g = First(s, k) /\ c = s[k]
      OBVIOUS
    <3>3. f \in Seq(S) /\ c \in S
      BY <1>0, <3>1, FirstIs
    <3>4. Extends(f, c, g)
      BY <3>1, FirstIs
    <3>5. IF c \in dropped THEN Without(g, dropped) = Without(f, dropped)
          ELSE Extends(Without(f, dropped), c, Without(g, dropped))
      BY ONLY <3>3, <3>4, WithoutLast
    <3> QED
      BY <2>2, <3>2, <3>3, <3>5 DEF Extends
  <2> QED
    BY <2>3, <2>4
<1>2. Without(First(s, Len(s)), dropped) \in Seq(S)
  BY <1>0, <1>1
<1>3. First(s, Len(s)) = s
  BY FirstIs
<1> QED
  BY <1>2, <1>3

LEMMA WithoutJoined ==
  ASSUME NEW S, NEW s \in Seq(S), NEW t \in Seq(S), NEW dropped
  PROVE  Without(s \o t, dropped) = Without(s, dropped) \o Without(t, dropped)
<1>0. Len(t) \in Nat /\ \A i \in 1..Len(t) : t[i] \in S
  OBVIOUS
<1> DEFINE Splits(k) == Without(s \o First(t, k), dropped)
                        = Without(s, dropped) \o Without(First(t, k), dropped)
           bad == {k \in Nat : k <= Len(t) /\ ~Splits(k)}
<1>1. ASSUME bad # {} PROVE FALSE
  <2>1. PICK k \in bad : \A j \in bad : k <= j
    BY <1>1, LeastNatural
  <2>2. k \in Nat /\ k <= Len(t) /\ ~Splits(k)
    BY <2>1
  <2>3. CASE k = 0
    <3>1. First(t, k) = <<>> /\ s \o <<>> = s
      BY <2>3, FirstIs
    <3>2. Without(First(t, k), dropped) = <<>>
      BY <3>1, WithoutNothing
    <3>3. Without(s, dropped) \in Seq(S)
      BY WithoutIsText
    <3>4. Without(s, dropped) \o <<>> = Without(s, dropped)
      BY <3>3
    <3> QED
      BY <2>2, <3>1, <3>2, <3>4
  <2>4. CASE k # 0
    <3>1. k - 1 \in Nat /\ k - 1 <= Len(t) /\ ~(k <= k - 1) /\ k \in 1..Len(t)
          /\ k - 1 \in 0..Len(t)
      BY <1>0, <2>2, <2>4
    <3>2. Splits(k - 1)
      BY <2>1, <3>1
    <3> PICK f, g, c : f = First(t, k - 1) /\ g = First(t, k) /\ c = t[k]
      OBVIOUS
    <3>3. f \in Seq(S) /\ c \in S
      BY <1>0, <3>1, FirstIs
    <3>4. Extends(f, c, g)
      BY <3>1, FirstIs
    <3>5. IF c \in dropped THEN Without(g, dropped) = Without(f, dropped)
          ELSE Extends(Without(f, dropped), c, Without(g, dropped))
      BY ONLY <3>3, <3>4, WithoutLast
    <3> PICK h, l : h = s \o f /\ l = s \o g
      OBVIOUS
    <3>6. Joined(s, f, h) /\ Joined(s, g, l) /\ h \in Seq(S)
      BY <3>3 DEF Joined
    <3>7. Extends(h, c, l)
      <4>1. s \in Seq(S)
        OBVIOUS
      <4> QED
        BY ONLY <3>3, <3>4, <3>6, <4>1, AppendToJoined
    <3>8. IF c \in dropped THEN Without(l, dropped) = Without(h, dropped)
          ELSE Extends(Without(h, dropped), c, Without(l, dropped))
      BY ONLY <3>3, <3>6, <3>7, WithoutLast
    <3> PICK a, b, x, y, z : /\ a = Without(s, dropped) /\ b = Without(f, dropped)
                             /\ x = Without(g, dropped) /\ y = Without(h, dropped)
                             /\ z = Without(l, dropped)
      OBVIOUS
    <3>9. a \in Seq(S) /\ b \in Seq(S) /\ x \in Seq(S)
      <4>1. g \in Seq(S)
        BY <1>0, <3>1, FirstIs
      <4> QED
        BY <3>3, <4>1, WithoutIsText
    <3>10. Joined(a, b, y)
      BY <3>2 DEF Joined
    <3>11. Joined(a, x, z)
      <4>1. CASE c \in dropped
        BY <3>5, <3>8, <3>10, <4>1
      <4>2. CASE c \notin dropped
        <5> PICK v : v = a \o x
          OBVIOUS
        <5>1. Joined(a, x, v) /\ Extends(b, c, x)
          BY <3>5, <4>2 DEF Joined
        <5>2. Extends(y, c, v)
          BY ONLY <3>3, <3>9, <3>10, <5>1, AppendToJoined
        <5>3. z = v
          BY <3>8, <4>2, <5>2 DEF Extends
        <5> QED
          BY <5>1, <5>3
      <4> QED
        BY <4>1, <4>2
    <3>12. Splits(k)
      BY <3>11 DEF Joined
    <3> QED
      BY <2>2, <3>12
  <2> QED
    BY <2>3, <2>4
<1>2. Splits(Len(t))
  BY <1>0, <1>1
<1>3. First(t, Len(t)) = t
  BY FirstIs
<1> QED
  BY <1>2, <1>3

LEMMA WithoutAll ==
  ASSUME NEW S, NEW s \in Seq(S), NEW dropped, \A i \in 1..Len(s) : s[i] \in dropped
  PROVE  Without(s, dropped) = <<>>
<1>0. Len(s) \in Nat
  OBVIOUS
<1>1. PICK w : /\ Without(s, dropped) = w[Len(s)]
               /\ \A i \in 0..Len(s) : Turn(s, dropped, w, i)
  BY <1>0, WithoutWrites
<1> DEFINE bad == {k \in Nat : k <= Len(s) /\ w[k] # <<>>}
<1>2. ASSUME bad # {} PROVE FALSE
  <2>1. PICK k \in bad : \A j \in bad : k <= j
    BY <1>2, LeastNatural
  <2>2. k \in Nat /\ k <= Len(s) /\ w[k] # <<>> /\ Turn(s, dropped, w, k)
    BY <1>0, <1>1, <2>1
  <2>3. k # 0
    BY <2>2 DEF Turn
  <2>4. k - 1 \in Nat /\ k - 1 <= Len(s) /\ ~(k <= k - 1) /\ k \in 1..Len(s)
    BY <1>0, <2>2, <2>3
  <2>5. w[k - 1] = <<>>
    BY <2>1, <2>4
  <2> QED
    BY <2>2, <2>3, <2>4, <2>5 DEF Turn
<1> QED
  BY <1>0, <1>1, <1>2

LEMMA WithoutNone ==
  ASSUME NEW S, NEW s \in Seq(S), NEW dropped, \A i \in 1..Len(s) : s[i] \notin dropped
  PROVE  Without(s, dropped) = s
<1>0. Len(s) \in Nat
  OBVIOUS
<1>1. PICK w : /\ Without(s, dropped) = w[Len(s)]
               /\ \A i \in 0..Len(s) : Turn(s, dropped, w, i)
  BY <1>0, WithoutWrites
<1> DEFINE bad == {k \in Nat : k <= Len(s) /\ w[k] # First(s, k)}
<1>2. ASSUME bad # {} PROVE FALSE
  <2>1. PICK k \in bad : \A j \in bad : k <= j
    BY <1>2, LeastNatural
  <2>2. k \in Nat /\ k <= Len(s) /\ w[k] # First(s, k) /\ Turn(s, dropped, w, k)
    BY <1>0, <1>1, <2>1
  <2>3. k # 0
    BY <2>2, FirstIs DEF Turn
  <2>4. k - 1 \in Nat /\ k - 1 <= Len(s) /\ ~(k <= k - 1) /\ k \in 1..Len(s)
    BY <1>0, <2>2, <2>3
  <2>5. w[k - 1] = First(s, k - 1)
    BY <2>1, <2>4
  <2>6. First(s, k) = Append(First(s, k - 1), s[k])
    BY <2>4, FirstIs DEF Extends
  <2> QED
    BY <2>2, <2>3, <2>4, <2>5, <2>6 DEF Turn
<1>3. First(s, Len(s)) = s
  BY FirstIs
<1> QED
  BY <1>0, <1>1, <1>2, <1>3

(* What is in a string or a buffer.                                        *)
Characters == Letters \cup {EOF, NOTHING}

(* The input src of the text txt: at the keyboard its end is typed, too.   *)
Input(src, txt) == IF src = "pipe" THEN txt ELSE Append(txt, EOF)

(* n characters of the input are read.                                     *)
Rest(input, rest, n) ==
    /\ Len(rest) = Len(input) - n
    /\ \A i \in 1..Len(rest) : rest[i] = input[n + i]

LEMMA InputIs ==
  ASSUME NEW src, NEW txt \in Seq(Letters), NEW input, input = Input(src, txt)
  PROVE  /\ txt \in Seq(Characters) /\ input \in Seq(Characters)
         /\ Len(txt) \in Nat /\ Len(input) = Len(txt) + (IF src = "pipe" THEN 0 ELSE 1)
         /\ \A i \in 1..Len(txt) : input[i] = txt[i] /\ txt[i] \notin {EOF, NOTHING}
         /\ \A i \in 1..Len(input) : i > Len(txt) => input[i] = EOF
<1>1. txt \in Seq(Characters) /\ EOF \in Characters /\ Len(txt) \in Nat
  BY DEF Characters
<1>2. \A i \in 1..Len(txt) : txt[i] \in Letters
  OBVIOUS
<1>3. EOF \notin Letters /\ NOTHING \notin Letters
  BY StreamAssumption DEF Letters, EOF, NOTHING
<1>4. CASE src = "pipe"
  <2>1. input = txt
    BY <1>4 DEF Input
  <2> QED
    BY <1>1, <1>2, <1>3, <1>4, <2>1
<1>5. CASE src # "pipe"
  <2> PICK c : c = EOF
    OBVIOUS
  <2>1. input = Append(txt, c)
    BY <1>5 DEF Input
  <2>2. /\ input \in Seq(Characters) /\ Len(input) = Len(txt) + 1 /\ input[Len(txt) + 1] = c
        /\ \A i \in 1..Len(txt) : input[i] = txt[i]
    BY ONLY <1>1, <2>1, c = EOF
  <2>3. \A i \in 1..Len(input) : i > Len(txt) => i = Len(txt) + 1
    BY ONLY <1>1, <2>2
  <2> QED
    BY <1>1, <1>2, <1>3, <1>5, <2>2, <2>3
<1> QED
  BY <1>4, <1>5

(* What a read may return.                                                 *)
LEMMA ReadReturns ==
  ASSUME NEW bytes \in Nat, bytes >= 1, unread \in Seq(Characters), NEW res \in ReadResults(bytes)
  PROVE  \/ res = -1 /\ source = "pipe" /\ unread = <<>>
         \/ res \in 1..Len(unread) /\ res <= bytes
<1> PICK n : n = Len(unread)
  OBVIOUS
<1>1. n \in Nat /\ (unread = <<>> <=> n = 0)
  OBVIOUS
<1>2. /\ Min({bytes, n}) \in Nat /\ Min({bytes, n}) <= bytes /\ Min({bytes, n}) <= n
      /\ Min({bytes, n}) \in {bytes, n}
  <2> PICK T : T = {bytes, n}
    OBVIOUS
  <2>1. T \subseteq Nat /\ T # {} /\ bytes \in T /\ n \in T
    BY <1>1
  <2>2. Min(T) \in T /\ \A y \in T : Min(T) <= y
    BY ONLY <2>1, MinOfNaturals
  <2> QED
    BY <2>1, <2>2
<1> PICK m : m = Min({bytes, n})
  OBVIOUS
<1>3. CASE source = "pipe"
  <2>1. res = IF unread = <<>> THEN -1 ELSE m
    BY <1>3 DEF ReadResults
  <2>2. CASE unread = <<>>
    BY <1>3, <2>1, <2>2
  <2>3. CASE unread # <<>>
    <3>1. n >= 1 /\ m >= 1 /\ res = m
      BY <1>1, <1>2, <2>1, <2>3
    <3> QED
      BY <1>1, <1>2, <3>1
  <2> QED
    BY <2>2, <2>3
<1>4. CASE source # "pipe"
  <2>1. res \in 1..m
    BY <1>4 DEF ReadResults
  <2> QED
    BY <1>1, <1>2, <2>1
<1> QED
  BY <1>3, <1>4

(* A read takes the next characters of the input, ...                      *)
Taken(rest, res) == SubSeq(rest, 1, res)
Left(rest, res) == SubSeq(rest, res + 1, Len(rest))

IsRead(got, left, input, n, res) ==
    /\ got \in Seq(Characters) /\ Len(got) = res
    /\ \A i \in 1..res : got[i] = input[n + i]
    /\ left \in Seq(Characters) /\ n + res \in 0..Len(input) /\ Rest(input, left, n + res)

LEMMA ReadTakes ==
  ASSUME NEW input \in Seq(Characters), NEW rest \in Seq(Characters), NEW n \in 0..Len(input),
         Rest(input, rest, n), NEW res \in 1..Len(rest),
         NEW got, got = Taken(rest, res), NEW left, left = Left(rest, res)
  PROVE  IsRead(got, left, input, n, res)
<1> USE DEF Taken, Left
<1> PICK l, k : l = Len(rest) /\ k = Len(input)
  OBVIOUS
<1>1. l \in Nat /\ k \in Nat /\ n \in Nat /\ res \in Nat /\ res >= 1 /\ res <= l /\ l = k - n
  BY DEF Rest
<1>2. got \in Seq(Characters) /\ Len(got) = res /\ \A i \in 1..res : got[i] = rest[i]
  <2> PICK one : one = 1
    OBVIOUS
  <2>1. rest \in Seq(Characters) /\ one \in 1..Len(rest) + 1 /\ res \in one - 1..Len(rest)
    BY <1>1
  <2>2. /\ SubSeq(rest, one, res) \in Seq(Characters)
        /\ Len(SubSeq(rest, one, res)) = IF one <= res THEN res - one + 1 ELSE 0
        /\ \A i \in 1..res - one + 1 : SubSeq(rest, one, res)[i] = rest[one + i - 1]
    BY ONLY <2>1, SubSeqProperties
  <2>3. \A i \in 1..res : i \in 1..res - one + 1 /\ one + i - 1 = i
    BY ONLY <1>1, one = 1
  <2> QED
    BY <1>1, <2>2, <2>3
<1>3. /\ left \in Seq(Characters) /\ Len(left) = l - res
      /\ \A i \in 1..l - res : left[i] = rest[res + i]
  <2> PICK a : a = res + 1
    OBVIOUS
  <2>1. rest \in Seq(Characters) /\ a \in 1..Len(rest) + 1 /\ Len(rest) \in a - 1..Len(rest)
    BY <1>1
  <2>2. /\ SubSeq(rest, a, Len(rest)) \in Seq(Characters)
        /\ Len(SubSeq(rest, a, Len(rest))) = IF a <= Len(rest) THEN Len(rest) - a + 1 ELSE 0
        /\ \A i \in 1..Len(rest) - a + 1 : SubSeq(rest, a, Len(rest))[i] = rest[a + i - 1]
    BY ONLY <2>1, SubSeqProperties
  <2>3. \A i \in 1..l - res : i \in 1..l - a + 1 /\ a + i - 1 = res + i
    BY ONLY <1>1, a = res + 1
  <2>4. l - res = IF a <= l THEN l - a + 1 ELSE 0
    BY ONLY <1>1, a = res + 1
  <2> QED
    BY ONLY <2>2, <2>3, <2>4, l = Len(rest), a = res + 1, left = SubSeq(rest, res + 1, Len(rest))
<1>4. \A i \in 1..l : rest[i] = input[n + i]
  BY DEF Rest
<1>5. \A i \in 1..res : got[i] = input[n + i]
  BY <1>1, <1>2, <1>4
<1>6. ASSUME NEW i \in 1..l - res PROVE left[i] = input[n + res + i]
  <2>1. res + i \in 1..l /\ n + (res + i) = n + res + i
    BY <1>1
  <2> QED
    BY <1>3, <1>4, <2>1
<1>7. n + res \in 0..k /\ l - res = k - (n + res)
  BY <1>1
<1> QED
  BY <1>2, <1>3, <1>5, <1>6, <1>7 DEF Rest, IsRead

(* ... and what a loop writes of them follows what it wrote before.        *)
LEMMA LoopGoesOn ==
  ASSUME NEW txt \in Seq(Characters), NEW n \in Nat, NEW got \in Seq(Characters),
         NEW l, l = n + Len(got), l <= Len(txt), \A i \in 1..Len(got) : got[i] = txt[n + i],
         NEW dropped
  PROVE  Joined(Without(First(txt, n), dropped), Without(got, dropped),
                Without(First(txt, l), dropped))
<1> PICK k, m : k = Len(got) /\ m = Len(txt)
  OBVIOUS
<1>1. k \in Nat /\ m \in Nat /\ n \in 0..m /\ l \in 0..m /\ l = n + k
  OBVIOUS
<1> PICK f, g, h : f = First(txt, n) /\ g = First(txt, l) /\ h = f \o got
  OBVIOUS
<1>2. /\ f \in Seq(Characters) /\ Len(f) = n /\ \A i \in 1..n : f[i] = txt[i]
      /\ g \in Seq(Characters) /\ Len(g) = l /\ \A i \in 1..l : g[i] = txt[i]
  <2>1. txt \in Seq(Characters) /\ n \in 0..Len(txt) /\ l \in 0..Len(txt)
    BY <1>1
  <2>2. \A a \in 0..Len(txt) : First(txt, a) \in Seq(Characters) /\ Len(First(txt, a)) = a
    BY ONLY <2>1, FirstIs
  <2>3. \A a \in 0..Len(txt) : \A i \in 1..a : First(txt, a)[i] = txt[i]
    BY DEF First
  <2> QED
    BY <2>1, <2>2, <2>3
<1>3. /\ h \in Seq(Characters) /\ Len(h) = n + k
      /\ \A i \in 1..n + k : h[i] = IF i <= n THEN f[i] ELSE got[i - n]
  <2>1. f \in Seq(Characters) /\ got \in Seq(Characters) /\ Len(f) = n /\ Len(got) = k
    BY <1>2
  <2>2. /\ f \o got \in Seq(Characters) /\ Len(f \o got) = Len(f) + Len(got)
        /\ \A i \in 1..Len(f) + Len(got) :
             (f \o got)[i] = IF i <= Len(f) THEN f[i] ELSE got[i - Len(f)]
    BY ONLY <2>1, ConcatProperties
  <2> QED
    BY <2>1, <2>2
<1>4. ASSUME NEW i \in 1..l PROVE h[i] = g[i]
  <2>1. CASE i <= n
    <3>1. i \in 1..n /\ i \in 1..n + k
      BY <1>1, <2>1
    <3> QED
      BY <1>2, <1>3, <2>1, <3>1
  <2>2. CASE ~(i <= n)
    <3>1. i - n \in 1..k /\ n + (i - n) = i /\ i \in 1..n + k
      BY <1>1, <2>2
    <3>2. got[i - n] = txt[n + (i - n)]
      BY <3>1
    <3> QED
      BY <1>2, <1>3, <2>2, <3>1, <3>2
  <2> QED
    BY <2>1, <2>2
<1>5. h = g
  <2>1. h \in Seq(Characters) /\ g \in Seq(Characters) /\ Len(h) = Len(g)
    BY <1>1, <1>2, <1>3
  <2>2. \A i \in 1..Len(h) : h[i] = g[i]
    BY <1>1, <1>3, <1>4
  <2> QED
    BY ONLY <2>1, <2>2, SeqEqual
<1>6. Without(f \o got, dropped) = Without(f, dropped) \o Without(got, dropped)
  <2>1. f \in Seq(Characters) /\ got \in Seq(Characters)
    BY <1>2
  <2> QED
    BY ONLY <2>1, WithoutJoined
<1> QED
  BY <1>5, <1>6 DEF Joined

(* cat's buffer, cleared behind what was read, is written as what was read.*)
LEMMA BufferIsWritten ==
  ASSUME NEW res \in Nat, res <= CAT_BYTES, unread \in Seq(Characters), res <= Len(unread),
         NEW got, got = SubSeq(unread, 1, res)
  PROVE  Written(Filled(res)) = Without(got, {NOTHING, EOF})
<1> PICK z, c : z = NOTHING /\ c = CAT_BYTES
  OBVIOUS
<1>1. c \in Nat /\ z \in Characters
  BY StreamAssumption DEF Characters
<1>2. got \in Seq(Characters) /\ Len(got) = res /\ \A i \in 1..res : got[i] = unread[i]
  OBVIOUS
<1> PICK zeros : zeros = [i \in 1..c - res |-> z]
  OBVIOUS
<1>3. zeros \in Seq(Characters) /\ Len(zeros) = c - res /\ \A i \in 1..c - res : zeros[i] = z
  <2>1. c - res \in Nat
    BY <1>1
  <2>2. zeros \in [1..c - res -> Characters]
    BY <1>1
  <2> QED
    BY <2>1, <2>2
<1> PICK full, joined : full = Filled(res) /\ joined = got \o zeros
  OBVIOUS
<1>4. /\ full \in Seq(Characters) /\ Len(full) = c
      /\ \A i \in 1..c : full[i] = IF i <= res THEN unread[i] ELSE z
  <2>1. full = [i \in 1..c |-> IF i <= res THEN unread[i] ELSE z]
    BY DEF Filled
  <2>2. \A i \in 1..c : (IF i <= res THEN unread[i] ELSE z) \in Characters
    BY <1>1
  <2>3. full \in [1..c -> Characters]
    BY ONLY <2>1, <2>2
  <2> QED
    BY ONLY <1>1, <2>1, <2>3
<1>5. /\ joined \in Seq(Characters) /\ Len(joined) = res + (c - res)
      /\ \A i \in 1..res + (c - res) : joined[i] = IF i <= res THEN got[i] ELSE zeros[i - res]
  <2>1. got \in Seq(Characters) /\ zeros \in Seq(Characters)
    BY <1>2, <1>3
  <2>2. /\ got \o zeros \in Seq(Characters) /\ Len(got \o zeros) = Len(got) + Len(zeros)
        /\ \A i \in 1..Len(got) + Len(zeros) :
             (got \o zeros)[i] = IF i <= Len(got) THEN got[i] ELSE zeros[i - Len(got)]
    BY ONLY <2>1, ConcatProperties
  <2>3. Len(got) = res /\ Len(zeros) = c - res
    BY <1>2, <1>3
  <2>4. joined = got \o zeros
    OBVIOUS
  <2> QED
    BY ONLY <2>2, <2>3, <2>4
<1>6. full = joined
  <2>1. full \in Seq(Characters) /\ joined \in Seq(Characters) /\ Len(full) = Len(joined)
    BY <1>1, <1>4, <1>5
  <2>2. ASSUME NEW i \in 1..Len(full) PROVE full[i] = joined[i]
    <3>1. i \in 1..c /\ i \in 1..res + (c - res) /\ (i <= res => i \in 1..res)
          /\ (~(i <= res) => i - res \in 1..c - res)
      BY <1>1, <1>4, <1>5, <2>2
    <3> QED
      BY <1>2, <1>3, <1>4, <1>5, <3>1
  <2> QED
    BY ONLY <2>1, <2>2, SeqEqual
<1> PICK dropped : dropped = {NOTHING, EOF}
  OBVIOUS
<1>7. Without(zeros, dropped) = <<>>
  <2>1. zeros \in Seq(Characters)
    BY <1>3
  <2>2. \A i \in 1..Len(zeros) : zeros[i] \in dropped
    BY <1>3
  <2> QED
    BY ONLY <2>1, <2>2, WithoutAll
<1>8. Without(joined, dropped) = Without(got, dropped) \o Without(zeros, dropped)
  <2>1. got \in Seq(Characters) /\ zeros \in Seq(Characters)
    BY <1>2, <1>3
  <2>2. Without(got \o zeros, dropped) = Without(got, dropped) \o Without(zeros, dropped)
    BY ONLY <2>1, WithoutJoined
  <2> QED
    BY <2>2
<1>9. Without(got, dropped) \in Seq(Characters)
  BY <1>2, WithoutIsText
<1>10. Without(got, dropped) \o <<>> = Without(got, dropped)
  BY <1>9
<1> QED
  BY <1>6, <1>7, <1>8, <1>10 DEF Written

(***************************************************************************)
(* What a command has done after n characters of its input.                *)
(***************************************************************************)
Dropped == IF command = "cat" THEN {NOTHING, EOF} ELSE Vowels

NewlinesIn(n) == Cardinality({i \in 1..n : text[i] = "\n"})

Progress(n) ==
    /\ n <= Len(text)
    /\ command \in {"cat", "filter"} => output = Without(First(text, n), Dropped)
    /\ command = "wc" => /\ lineCount = NewlinesIn(n) /\ output = <<>>
                         /\ lastWasNewline = (n = 0 \/ text[n] = "\n")

StreamInv ==
    /\ command \in {"cat", "wc", "filter"} /\ source \in {"keyboard", "pipe"}
    /\ text \in Seq(Letters) /\ unread \in Seq(Characters)
    /\ unseen /\ ~ended => command = "cat" \/ (source = "keyboard" /\ unread = <<>>)
    /\ \E n \in 0..Len(Input(source, text)) :
        /\ Rest(Input(source, text), unread, n)
        /\ ~ended /\ ~unseen => Progress(n)
    /\ ended => OutputIsInput /\ LinesAreCounted

LEMMA NoLines == NewlinesIn(0) = 0
<1>1. {i \in 1..0 : text[i] = "\n"} = {}
  OBVIOUS
<1> QED
  BY <1>1, FS_EmptySet DEF NewlinesIn

LEMMA OneMoreLine ==
  ASSUME NEW n \in Nat
  PROVE  /\ NewlinesIn(n) \in Nat
         /\ NewlinesIn(n + 1) = NewlinesIn(n) + (IF text[n + 1] = "\n" THEN 1 ELSE 0)
<1> PICK S, T : S = {i \in 1..n : text[i] = "\n"} /\ T = {i \in 1..n + 1 : text[i] = "\n"}
  OBVIOUS
<1>1. IsFiniteSet(S)
  <2>1. IsFiniteSet(1..n) /\ S \subseteq 1..n
    BY FS_Interval
  <2> QED
    BY <2>1, FS_Subset
<1>2. Cardinality(S) \in Nat
  BY <1>1, FS_CardinalityType
<1>3. CASE text[n + 1] = "\n"
  <2>1. T = S \cup {n + 1} /\ n + 1 \notin S
    BY <1>3
  <2>2. Cardinality(T) = Cardinality(S) + 1
    BY <1>1, <2>1, FS_AddElement
  <2> QED
    BY <1>2, <1>3, <2>2 DEF NewlinesIn
<1>4. CASE text[n + 1] # "\n"
  <2>1. T = S
    BY <1>4
  <2> QED
    BY <1>2, <1>4, <2>1 DEF NewlinesIn
<1> QED
  BY <1>3, <1>4

LEMMA StreamStarts == StreamInit => StreamInv
<1> SUFFICES ASSUME StreamInit PROVE StreamInv
  OBVIOUS
<1>1. /\ command \in {"cat", "wc", "filter"} /\ source \in {"keyboard", "pipe"}
      /\ unread = Input(source, text) /\ output = <<>> /\ lineCount = 0
      /\ lastWasNewline = TRUE /\ ended = FALSE /\ unseen = FALSE
  BY DEF StreamInit, Input
<1>2. text \in Seq(Letters)
  <2>1. PICK n \in 0..MAX_INPUT : text \in [1..n -> Letters]
    BY DEF StreamInit
  <2>2. n \in Nat
    BY <2>1
  <2> QED
    BY <2>1, <2>2
<1> PICK input : input = Input(source, text)
  OBVIOUS
<1>3. input \in Seq(Characters) /\ text \in Seq(Characters)
  BY <1>2, InputIs
<1>4. Rest(input, unread, 0) /\ 0 \in 0..Len(input)
  <2>1. Len(input) \in Nat /\ unread = input
    BY <1>1, <1>3
  <2>2. \A i \in 1..Len(input) : 0 + i = i
    BY <2>1
  <2> QED
    BY <2>1, <2>2 DEF Rest
<1>5. Progress(0)
  <2>1. 0 <= Len(text) /\ First(text, 0) = <<>>
    BY <1>3, FirstIs
  <2>2. Without(First(text, 0), Dropped) = <<>>
    BY <2>1, WithoutNothing
  <2> QED
    BY <1>1, <2>1, <2>2, NoLines DEF Progress
<1> QED
  BY <1>1, <1>2, <1>3, <1>4, <1>5 DEF StreamInv

(* Having read the whole text, a command has done what it is for.          *)
Done ==
    /\ command = "cat" => output = text
    /\ command = "filter" => output = Without(text, Vowels)
    /\ command = "wc" => output = <<>>

LEMMA TextIsWritten ==
  ASSUME text \in Seq(Letters), Progress(Len(text)), command \in {"cat", "wc", "filter"}
  PROVE  Done
<1>1. First(text, Len(text)) = text
  BY FirstIs
<1>2. CASE command = "cat"
  <2> PICK dropped : dropped = {NOTHING, EOF}
    OBVIOUS
  <2>1. \A i \in 1..Len(text) : text[i] \notin dropped
    <3> PICK input : input = Input(source, text)
      OBVIOUS
    <3> QED
      BY InputIs
  <2>2. Without(text, dropped) = text
    BY <2>1, WithoutNone
  <2> QED
    BY <1>1, <1>2, <2>2 DEF Progress, Dropped, Done
<1>3. CASE command = "filter"
  BY <1>1, <1>3 DEF Progress, Dropped, Done
<1>4. CASE command = "wc"
  BY <1>4 DEF Progress, Done
<1> QED
  BY <1>2, <1>3, <1>4

(* A command reads on: the next characters.                                *)
LEMMA ReadsOn ==
  ASSUME StreamInv, NEW n \in 0..Len(Input(source, text)), Rest(Input(source, text), unread, n),
         NEW res \in 1..Len(unread), Consumes(res)
  PROVE  /\ unread' \in Seq(Characters)
         /\ n + res \in 0..Len(Input(source, text))
         /\ Rest(Input(source, text), unread', n + res)
         /\ Got(res) \in Seq(Characters) /\ Len(Got(res)) = res
         /\ \A i \in 1..res : Got(res)[i] = Input(source, text)[n + i]
<1> PICK input, rest, got, left : /\ input = Input(source, text) /\ rest = unread
                                  /\ got = Taken(rest, res) /\ left = Left(rest, res)
  OBVIOUS
<1>1. input \in Seq(Characters) /\ rest \in Seq(Characters)
  BY InputIs DEF StreamInv
<1>2. n \in 0..Len(input) /\ Rest(input, rest, n) /\ res \in 1..Len(rest)
  OBVIOUS
<1>3. got = Taken(rest, res) /\ left = Left(rest, res)
  OBVIOUS
<1>4. IsRead(got, left, input, n, res)
  BY ONLY <1>1, <1>2, <1>3, ReadTakes
<1> QED
  BY <1>4 DEF IsRead, Consumes, Got, Taken, Left

(* The end is among what was read exactly if the text is over.             *)
LEMMA EndIsSeen ==
  ASSUME StreamInv, NEW n \in 0..Len(text), NEW res \in Nat, res >= 1,
         n + res \in 0..Len(Input(source, text)), NEW got, Len(got) = res,
         \A i \in 1..res : got[i] = Input(source, text)[n + i]
  PROVE  /\ Contains(got, EOF) <=> n + res > Len(text)
         /\ got[1] = EOF <=> n = Len(text)
         /\ n + res <= Len(text) => \A i \in 1..res : got[i] = text[n + i]
<1> PICK input, m, k : input = Input(source, text) /\ m = Len(text) /\ k = Len(input)
  OBVIOUS
<1>1. /\ m \in Nat /\ k = m + (IF source = "pipe" THEN 0 ELSE 1)
      /\ \A i \in 1..m : input[i] = text[i] /\ text[i] \notin {EOF, NOTHING}
      /\ \A i \in 1..k : i > m => input[i] = EOF
  BY InputIs DEF StreamInv
<1>2. n \in 0..m /\ n + res <= k /\ n \in Nat /\ k \in Nat
  BY <1>1
<1>3. \A i \in 1..res : got[i] = input[n + i] /\ n + i \in 1..k
  BY <1>2
<1>4. \A i \in 1..res : got[i] = EOF <=> n + i > m
  <2> TAKE i \in 1..res
  <2>1. n + i \in 1..k /\ got[i] = input[n + i]
    BY <1>3
  <2>2. CASE n + i > m
    BY <1>1, <2>1, <2>2
  <2>3. CASE ~(n + i > m)
    <3>1. n + i \in 1..m
      BY <1>1, <2>1, <2>3
    <3> QED
      BY <1>1, <2>1, <2>3, <3>1
  <2> QED
    BY <2>2, <2>3
<1>5. Contains(got, EOF) <=> \E i \in 1..res : n + i > m
  BY <1>4 DEF Contains
<1>6. (\E i \in 1..res : n + i > m) <=> n + res > m
  BY <1>1, <1>2
<1>7. got[1] = EOF <=> n = m
  <2>1. 1 \in 1..res
    OBVIOUS
  <2>2. got[1] = EOF <=> n + 1 > m
    BY <1>4, <2>1
  <2> QED
    BY <1>1, <1>2, <2>2
<1>8. ASSUME n + res <= m, NEW i \in 1..res PROVE got[i] = text[n + i]
  <2>1. n + i \in 1..m
    BY <1>1, <1>2, <1>8
  <2> QED
    BY <1>1, <1>3, <2>1
<1> QED
  BY <1>5, <1>6, <1>7, <1>8

(* The pipe is empty and its writer gone: the text is over.                *)
LEMMA PipeIsOver ==
  ASSUME StreamInv, NEW n \in 0..Len(Input(source, text)), Rest(Input(source, text), unread, n),
         source = "pipe", unread = <<>>
  PROVE  n = Len(text)
<1>1. Input(source, text) = text /\ Len(text) \in Nat
  BY DEF StreamInv, Input
<1>2. Len(unread) = 0
  OBVIOUS
<1> QED
  BY <1>1, <1>2 DEF Rest

(* What a command that drops characters has written with the next read.    *)
LEMMA WritesOn ==
  ASSUME StreamInv, NEW n \in Nat, Progress(n), NEW got \in Seq(Characters),
         n + Len(got) <= Len(text), \A i \in 1..Len(got) : got[i] = text[n + i],
         command \in {"cat", "filter"}, NEW more, more = Without(got, Dropped)
  PROVE  Joined(output, more, Without(First(text, n + Len(got)), Dropped))
<1>1. text \in Seq(Characters)
  BY InputIs DEF StreamInv
<1> PICK txt, dropped, l : txt = text /\ dropped = Dropped /\ l = n + Len(got)
  OBVIOUS
<1>2. txt \in Seq(Characters) /\ n \in Nat /\ got \in Seq(Characters)
  BY <1>1
<1>3. \A i \in 1..Len(got) : got[i] = txt[n + i]
  OBVIOUS
<1>4. l = n + Len(got) /\ l <= Len(txt)
  OBVIOUS
<1>5. Joined(Without(First(txt, n), dropped), Without(got, dropped),
             Without(First(txt, l), dropped))
  BY ONLY <1>2, <1>3, <1>4, LoopGoesOn
<1>6. output = Without(First(text, n), Dropped)
  BY DEF Progress
<1> QED
  BY <1>5, <1>6

(* Who is to miss the end at the keyboard has nothing left to read.        *)
LEMMA EndIsAhead ==
  ASSUME StreamInv, ~ended, command # "cat", NEW bytes \in Nat, bytes >= 1,
         NEW res \in ReadResults(bytes)
  PROVE  ~unseen
<1>1. unread \in Seq(Characters)
  BY DEF StreamInv
<1>2. \/ source = "pipe" /\ unread = <<>>
      \/ res \in 1..Len(unread)
  BY <1>1, ReadReturns
<1>3. unread = <<>> => Len(unread) = 0
  OBVIOUS
<1>4. unread = <<>> => source = "pipe"
  BY <1>2, <1>3
<1> QED
  BY <1>4 DEF StreamInv

(* A part of a string is left out.                                         *)
Cut(s, m, n, k) == SubSeq(s, 1, n) \o SubSeq(s, n + k + 1, m)

IsCut(t, s, m, n, k) ==
    /\ n + k <= m => Len(t) = m - k
    /\ n + k > m => Len(t) = n
    /\ \A i \in 1..n : t[i] = s[i]
    /\ n + k <= m => \A i \in 1..m - k : i > n => t[i] = s[i + k]

LEMMA CutOut ==
  ASSUME NEW S, NEW s \in Seq(S), NEW m, m = Len(s), NEW n \in 0..m, NEW k \in Nat, k >= 1,
         NEW t, t = Cut(s, m, n, k)
  PROVE  t \in Seq(S) /\ IsCut(t, s, m, n, k)
<1> PICK a, f, g : a = n + k + 1 /\ f = SubSeq(s, 1, n) /\ g = SubSeq(s, a, m)
  OBVIOUS
<1>1. m \in Nat /\ n \in Nat /\ n <= m /\ \A i \in 1..m : s[i] \in S
  OBVIOUS
<1>2. f \in Seq(S) /\ Len(f) = n /\ \A i \in 1..n : f[i] = s[i]
  <2> PICK one : one = 1
    OBVIOUS
  <2>1. one \in Int /\ n \in Int /\ \A i \in one..n : s[i] \in S
    BY <1>1
  <2>2. /\ SubSeq(s, one, n) \in Seq(S)
        /\ Len(SubSeq(s, one, n)) = IF one <= n THEN n - one + 1 ELSE 0
        /\ \A i \in 1..n - one + 1 : SubSeq(s, one, n)[i] = s[one + i - 1]
    BY ONLY <2>1, SubSeqProperties
  <2>3. (IF one <= n THEN n - one + 1 ELSE 0) = n
    BY ONLY <1>1, one = 1
  <2>4. \A i \in 1..n : i \in 1..n - one + 1 /\ one + i - 1 = i
    BY ONLY <1>1, one = 1
  <2> QED
    BY ONLY <2>2, <2>3, <2>4, one = 1, f = SubSeq(s, 1, n)
<1>3. /\ g \in Seq(S) /\ Len(g) = (IF a <= m THEN m - a + 1 ELSE 0)
      /\ \A i \in 1..m - a + 1 : g[i] = s[a + i - 1]
  <2>1. a \in Int /\ m \in Int /\ \A i \in a..m : s[i] \in S
    BY <1>1
  <2>2. /\ SubSeq(s, a, m) \in Seq(S)
        /\ Len(SubSeq(s, a, m)) = IF a <= m THEN m - a + 1 ELSE 0
        /\ \A i \in 1..m - a + 1 : SubSeq(s, a, m)[i] = s[a + i - 1]
    BY ONLY <2>1, SubSeqProperties
  <2> QED
    BY ONLY <2>2, g = SubSeq(s, a, m)
<1> PICK h : h = f \o g
  OBVIOUS
<1>4. /\ h \in Seq(S) /\ Len(h) = n + Len(g)
      /\ \A i \in 1..n + Len(g) : h[i] = IF i <= n THEN f[i] ELSE g[i - n]
  <2>1. f \in Seq(S) /\ g \in Seq(S)
    BY <1>2, <1>3
  <2>2. /\ f \o g \in Seq(S) /\ Len(f \o g) = Len(f) + Len(g)
        /\ \A i \in 1..Len(f) + Len(g) : (f \o g)[i] = IF i <= Len(f) THEN f[i] ELSE g[i - Len(f)]
    BY ONLY <2>1, ConcatProperties
  <2>3. Len(f) = n /\ h = f \o g
    BY <1>2
  <2> QED
    BY ONLY <2>2, <2>3
<1>5. t = h
  BY DEF Cut
<1>6. Len(g) \in Nat /\ (n + k <= m => Len(g) = m - n - k) /\ (n + k > m => Len(g) = 0)
  BY ONLY <1>1, <1>3, k \in Nat, a = n + k + 1
<1>7. \A i \in 1..n : h[i] = s[i]
  BY ONLY <1>1, <1>2, <1>4, <1>6
<1>8. ASSUME n + k <= m, NEW i \in 1..m - k, i > n PROVE h[i] = s[i + k]
  <2>1. /\ i \in 1..n + Len(g) /\ ~(i <= n) /\ i - n \in 1..m - a + 1
        /\ a + (i - n) - 1 = i + k
    BY <1>1, <1>6, <1>8
  <2>2. h[i] = g[i - n] /\ g[i - n] = s[a + (i - n) - 1]
    BY <1>3, <1>4, <2>1
  <2> QED
    BY <2>1, <2>2
<1>9. Len(h) = n + Len(g) /\ (n + k <= m => Len(h) = m - k) /\ (n + k > m => Len(h) = n)
  BY ONLY <1>1, <1>4, <1>6, k \in Nat
<1> QED
  BY ONLY <1>4, <1>5, <1>7, <1>8, <1>9 DEF IsCut

(* Keys that are lost leave the rest of the input, and what the command    *)
(* has done with what it has read.                                         *)
LEMMA PassOverKeeps ==
  ASSUME StreamInv, ~ended, PassOver, UNCHANGED <<command, source>>
  PROVE  StreamInv'
<1> PICK input, m, l : input = Input(source, text) /\ m = Len(text) /\ l = Len(unread)
  OBVIOUS
<1>1. /\ text \in Seq(Letters) /\ unread \in Seq(Characters) /\ m \in Nat /\ l \in Nat
      /\ command \in {"cat", "wc", "filter"} /\ source = "keyboard"
  BY DEF StreamInv, PassOver
<1>2. /\ buffer' = buffer /\ output' = output /\ lineCount' = lineCount
      /\ lastWasNewline' = lastWasNewline /\ ended' = ended
      /\ command' = command /\ source' = source
  BY DEF PassOver
<1>3. PICK n \in 0..Len(input) : Rest(input, unread, n) /\ (~unseen => Progress(n))
  BY DEF StreamInv
<1>4. /\ Len(input) = m + 1 /\ \A i \in 1..m : input[i] = text[i]
      /\ \A i \in 1..Len(input) : i > m => input[i] = EOF
  BY <1>1, InputIs
<1>5. PICK k \in 1..l : /\ unread' = Left(unread, k)
                        /\ text' = SubSeq(text, 1, m + 1 - l) \o SubSeq(text, m + 1 - l + k + 1, m)
                        /\ unseen' = (unseen \/ k = l)
  BY DEF PassOver, Consumes, Left
<1>6. /\ l = m + 1 - n /\ m + 1 - l = n /\ n \in 0..m /\ k \in Nat /\ k >= 1 /\ k <= l
      /\ n \in Nat
  BY <1>1, <1>3, <1>4, <1>5 DEF Rest
<1> PICK txt, left : txt = text' /\ left = unread'
  OBVIOUS
<1>7. /\ txt \in Seq(Letters)
      /\ n + k <= m => Len(txt) = m - k
      /\ n + k > m => Len(txt) = n
      /\ \A i \in 1..n : txt[i] = text[i]
      /\ n + k <= m => \A i \in 1..m - k : i > n => txt[i] = text[i + k]
  <2> PICK s : s = text
    OBVIOUS
  <2>1. s \in Seq(Letters) /\ m = Len(s)
    BY <1>1
  <2>2. n \in 0..m /\ k \in Nat /\ k >= 1
    BY <1>6
  <2>3. txt = Cut(s, m, n, k)
    BY <1>5, <1>6 DEF Cut
  <2>4. txt \in Seq(Letters) /\ IsCut(txt, s, m, n, k)
    BY ONLY <2>1, <2>2, <2>3, CutOut
  <2> QED
    BY ONLY <2>4, s = text DEF IsCut
<1>8. left \in Seq(Characters) /\ Rest(input, left, n + k) /\ n + k \in 0..Len(input)
  <2> PICK rest, got : rest = unread /\ got = Taken(rest, k)
    OBVIOUS
  <2>1. input \in Seq(Characters) /\ rest \in Seq(Characters)
    BY <1>1, InputIs
  <2>2. n \in 0..Len(input) /\ Rest(input, rest, n) /\ k \in 1..Len(rest)
    BY <1>3, <1>5
  <2>3. got = Taken(rest, k) /\ left = Left(rest, k)
    BY <1>5
  <2>4. IsRead(got, left, input, n, k)
    BY ONLY <2>1, <2>2, <2>3, ReadTakes
  <2> QED
    BY ONLY <2>4 DEF IsRead
<1> PICK shorter : shorter = Input(source, txt)
  OBVIOUS
<1>9. /\ Len(txt) \in Nat /\ Len(shorter) = Len(txt) + 1
      /\ \A i \in 1..Len(txt) : shorter[i] = txt[i]
      /\ \A i \in 1..Len(shorter) : i > Len(txt) => shorter[i] = EOF
  BY <1>1, <1>7, InputIs
<1>10. shorter = Input(source', text')
  BY <1>2
<1>11. CASE k = l
  <2>1. unseen' = TRUE
    BY <1>5, <1>11
  <2>2. Len(left) = 0
    BY <1>4, <1>6, <1>8, <1>11 DEF Rest
  <2>3. left = <<>>
    BY <1>8, <2>2
  <2>4. Rest(shorter, left, Len(shorter)) /\ Len(shorter) \in 0..Len(shorter)
    BY <1>9, <2>2 DEF Rest
  <2> QED
    BY <1>1, <1>2, <1>7, <1>8, <1>10, <2>1, <2>3, <2>4 DEF StreamInv
<1>12. CASE k # l
  <2>1. n + k <= m /\ Len(txt) = m - k
    BY <1>1, <1>6, <1>7, <1>12
  <2>2. Len(left) = m + 1 - (n + k)
    BY <1>4, <1>8 DEF Rest
  <2>3. ASSUME NEW i \in 1..Len(left) PROVE left[i] = shorter[n + i]
    <3>1. i \in Nat /\ i >= 1 /\ i <= m + 1 - (n + k)
      BY <1>1, <1>6, <2>2, <2>3
    <3>2. left[i] = input[n + k + i]
      BY <1>8, <2>3 DEF Rest
    <3>3. CASE n + i <= m - k
      <4>1. n + i \in 1..m - k /\ n + i > n /\ n + i + k = n + k + i /\ n + k + i \in 1..m
        BY <1>1, <1>6, <3>1, <3>3
      <4>2. txt[n + i] = text[n + k + i]
        BY <1>7, <2>1, <4>1
      <4>3. shorter[n + i] = txt[n + i] /\ input[n + k + i] = text[n + k + i]
        BY <1>4, <1>9, <2>1, <4>1
      <4> QED
        BY <3>2, <4>2, <4>3
    <3>4. CASE ~(n + i <= m - k)
      <4>1. n + k + i \in 1..m + 1 /\ n + k + i > m /\ n + i \in 1..m - k + 1 /\ n + i > m - k
        BY <1>1, <1>6, <2>1, <3>1, <3>4
      <4>2. shorter[n + i] = EOF
        BY <1>9, <2>1, <4>1
      <4>3. input[n + k + i] = EOF
        BY <1>4, <4>1
      <4> QED
        BY <3>2, <4>2, <4>3
    <3> QED
      BY <3>3, <3>4
  <2>4. Len(left) = Len(shorter) - n /\ n \in 0..Len(shorter)
    BY <1>1, <1>6, <1>9, <2>1, <2>2
  <2>9. Rest(shorter, left, n)
    <3>1. \A i \in 1..Len(left) : left[i] = shorter[n + i]
      BY <2>3
    <3> QED
      BY ONLY <2>4, <3>1, Zenon DEF Rest
  <2>5. unseen' <=> unseen
    BY <1>5, <1>12
  <2>6. ASSUME ~unseen PROVE Progress(n)'
    <3>1. Progress(n)
      BY <1>3, <2>6
    <3>2. n <= Len(txt)
      BY <1>1, <1>6, <2>1
    <3>3. First(txt, n) = First(text, n)
      BY <1>7 DEF First
    <3>4. {i \in 1..n : txt[i] = "\n"} = {i \in 1..n : text[i] = "\n"}
      BY <1>7
    <3>5. n # 0 => txt[n] = text[n]
      BY <1>6, <1>7
    <3>6. Dropped' = Dropped
      BY <1>2 DEF Dropped
    <3>7. NewlinesIn(n)' = NewlinesIn(n)
      BY <3>4 DEF NewlinesIn
    <3>8. command \in {"cat", "filter"} => output' = Without(First(text', n), Dropped')
      BY <1>2, <3>1, <3>3, <3>6 DEF Progress
    <3>9. command = "wc" => /\ lineCount' = NewlinesIn(n)' /\ output' = <<>>
                            /\ lastWasNewline' = (n = 0 \/ text'[n] = "\n")
      BY <1>2, <3>1, <3>5, <3>7 DEF Progress
    <3> QED
      BY <1>2, <3>2, <3>8, <3>9 DEF Progress
  <2>7. ~unseen' => Progress(n)'
    BY <2>5, <2>6
  <2>8. unseen' => command' = "cat" \/ (source' = "keyboard" /\ unread' = <<>>)
    <3>1. unread # <<>>
      <4>1. Len(unread) # 0
        BY <1>6
      <4> QED
        BY <4>1
    <3> QED
      BY <1>2, <2>5, <3>1 DEF StreamInv
  <2> QED
    BY <1>1, <1>2, <1>7, <1>8, <1>10, <2>4, <2>7, <2>8, <2>9 DEF StreamInv
<1> QED
  BY <1>11, <1>12

LEMMA CatKeeps ==
  ASSUME StreamInv, ~ended, Cat, UNCHANGED <<command, source, text>>
  PROVE  StreamInv'
<1> PICK input, m : input = Input(source, text) /\ m = Len(text)
  OBVIOUS
<1>1. PICK n \in 0..Len(input) : Rest(input, unread, n) /\ (~unseen => Progress(n))
  BY DEF StreamInv
<1>2. PICK res \in ReadResults(CAT_BYTES) :
        IF res < 0 THEN Returns /\ UNCHANGED <<unread, buffer, output, unseen>>
        ELSE /\ Consumes(res)
             /\ buffer' = Filled(res)
             /\ IF buffer'[1] = EOF THEN Returns /\ UNCHANGED <<output, unseen>>
                ELSE /\ output' = output \o Written(buffer')
                     /\ unseen' = (unseen \/ Contains(Got(res), EOF))
                     /\ UNCHANGED ended
  BY DEF Cat
<1>3. /\ text \in Seq(Letters) /\ unread \in Seq(Characters) /\ command = "cat"
      /\ source \in {"keyboard", "pipe"} /\ m \in Nat /\ Dropped = {NOTHING, EOF}
      /\ command' = command /\ source' = source /\ text' = text
      /\ input' = Input(source', text')
  BY DEF StreamInv, Cat, Dropped
<1>4. \/ res = -1 /\ source = "pipe" /\ unread = <<>>
      \/ res \in 1..Len(unread) /\ res <= CAT_BYTES
  BY <1>3, StreamAssumption, ReadReturns
<1>5. CASE res = -1 /\ source = "pipe" /\ unread = <<>>
  <2>1. ended' = TRUE /\ unread' = unread /\ output' = output /\ unseen' = unseen
    BY <1>2, <1>5 DEF Returns
  <2>2. n = m
    BY <1>1, <1>5, PipeIsOver
  <2>3. ~unseen => output = text
    BY <1>1, <1>3, <2>2, TextIsWritten DEF Done
  <2>4. OutputIsInput' /\ LinesAreCounted'
    BY <1>3, <2>1, <2>3 DEF OutputIsInput, LinesAreCounted
  <2>5. Rest(input, unread', n)
    BY <1>1, <2>1
  <2> QED
    BY <1>3, <2>1, <2>4, <2>5 DEF StreamInv
<1>6. CASE res \in 1..Len(unread) /\ res <= CAT_BYTES
  <2>1. /\ Consumes(res) /\ buffer' = Filled(res) /\ res \in Nat /\ res >= 1 /\ res <= Len(unread)
        /\ buffer'[1] = EOF => ended' = TRUE /\ output' = output /\ unseen' = unseen
        /\ buffer'[1] # EOF => /\ output' = output \o Written(buffer')
                               /\ unseen' = (unseen \/ Contains(Got(res), EOF))
                               /\ ended' = FALSE
    BY <1>2, <1>6 DEF Returns
  <2>2. /\ unread' \in Seq(Characters) /\ n + res \in 0..Len(input)
        /\ Rest(input, unread', n + res)
        /\ Got(res) \in Seq(Characters) /\ Len(Got(res)) = res
        /\ \A i \in 1..res : Got(res)[i] = input[n + i]
    BY <1>1, <1>6, <2>1, ReadsOn
  <2> PICK got : got = Got(res)
    OBVIOUS
  <2>3. buffer'[1] = got[1]
    <3>1. buffer'[1] = unread[1]
      BY <2>1, StreamAssumption DEF Filled
    <3>2. got[1] = unread[1]
      BY <1>3, <2>1 DEF Got
    <3> QED
      BY <3>1, <3>2
  <2>4. ~unseen => /\ n \in 0..m
                   /\ Contains(got, EOF) <=> n + res > m
                   /\ got[1] = EOF <=> n = m
                   /\ n + res <= m => \A i \in 1..res : got[i] = text[n + i]
    <3> SUFFICES ASSUME ~unseen
                 PROVE  /\ n \in 0..m
                        /\ Contains(got, EOF) <=> n + res > m
                        /\ got[1] = EOF <=> n = m
                        /\ n + res <= m => \A i \in 1..res : got[i] = text[n + i]
      OBVIOUS
    <3>1. n \in 0..Len(text)
      BY <1>1, <1>3 DEF Progress
    <3> QED
      BY <2>1, <2>2, <3>1, EndIsSeen
  <2>5. CASE buffer'[1] = EOF
    <3>1. ~unseen => output = text
      BY <1>1, <1>3, <2>3, <2>4, <2>5, TextIsWritten DEF Done
    <3>2. OutputIsInput' /\ LinesAreCounted'
      BY <1>3, <2>1, <2>5, <3>1 DEF OutputIsInput, LinesAreCounted
    <3> QED
      BY <1>3, <2>1, <2>2, <2>5, <3>2 DEF StreamInv
  <2>6. CASE buffer'[1] # EOF
    <3>1. ASSUME ~unseen' PROVE Progress(n + res)'
      <4>1. ~unseen /\ n + res <= m /\ \A i \in 1..res : got[i] = text[n + i]
        <5>1. ~unseen /\ ~Contains(got, EOF)
          BY <2>1, <2>6, <3>1, Zenon
        <5>2. /\ n \in 0..m /\ (Contains(got, EOF) <=> n + res > m)
              /\ n + res <= m => \A i \in 1..res : got[i] = text[n + i]
          BY <2>4, <5>1
        <5>3. n + res <= m
          BY <1>3, <2>1, <5>1, <5>2
        <5> QED
          BY <5>1, <5>2, <5>3
      <4>2. Written(buffer') = Without(got, Dropped)
        BY <1>3, <1>6, <2>1, BufferIsWritten DEF Got
      <4>3. output' = Without(First(text, n + Len(got)), Dropped)
        <5> PICK more : more = Without(got, Dropped)
          OBVIOUS
        <5>1. n \in Nat /\ Progress(n) /\ got \in Seq(Characters)
          BY <1>1, <1>3, <2>2, <4>1 DEF Progress
        <5>2. n + Len(got) <= Len(text)
          BY <1>3, <2>2, <4>1
        <5>3. \A i \in 1..Len(got) : got[i] = text[n + i]
          BY <2>2, <4>1
        <5>4. command \in {"cat", "filter"}
          BY <1>3
        <5>5. Joined(output, more, Without(First(text, n + Len(got)), Dropped))
          BY <5>1, <5>2, <5>3, <5>4, WritesOn
        <5> QED
          BY <2>1, <2>6, <4>2, <5>5 DEF Joined
      <4>4. Dropped' = Dropped
        BY <1>3 DEF Dropped
      <4> QED
        BY <1>3, <2>2, <4>1, <4>3, <4>4 DEF Progress
    <3> QED
      BY <1>3, <2>1, <2>2, <2>6, <3>1 DEF StreamInv
  <2> QED
    BY <2>5, <2>6
<1> QED
  BY <1>4, <1>5, <1>6

LEMMA FilterKeeps ==
  ASSUME StreamInv, ~ended, Filter, UNCHANGED <<command, source, text>>
  PROVE  StreamInv'
<1> PICK input, m : input = Input(source, text) /\ m = Len(text)
  OBVIOUS
<1>0. PICK read \in ReadResults(STREAM_BUFFER) : TRUE
  BY DEF Filter
<1>1. PICK n \in 0..Len(input) : Rest(input, unread, n) /\ ~unseen /\ Progress(n)
  <2>1. STREAM_BUFFER \in Nat /\ STREAM_BUFFER >= 1 /\ command = "filter"
    BY StreamAssumption DEF Filter
  <2>2. ~unseen
    BY <1>0, <2>1, EndIsAhead
  <2> QED
    BY <2>2 DEF StreamInv
<1>2. PICK res \in ReadResults(STREAM_BUFFER) :
        IF res <= 0 THEN Returns /\ UNCHANGED <<unread, output, unseen>>
        ELSE /\ Consumes(res)
             /\ IF Contains(Got(res), EOF)
                THEN Returns /\ unseen' = (unread[1] # EOF) /\ UNCHANGED output
                ELSE /\ output' = output \o Without(Got(res), {c \in Letters : is_vowel(c)})
                     /\ UNCHANGED <<ended, unseen>>
  BY DEF Filter
<1>3. /\ text \in Seq(Letters) /\ unread \in Seq(Characters) /\ command = "filter"
      /\ source \in {"keyboard", "pipe"} /\ m \in Nat /\ Dropped = Vowels
      /\ command' = command /\ source' = source /\ text' = text
      /\ input' = Input(source', text')
  BY DEF StreamInv, Filter, Dropped
<1>4. \/ res = -1 /\ source = "pipe" /\ unread = <<>>
      \/ res \in 1..Len(unread)
  BY <1>3, StreamAssumption, ReadReturns
<1>5. CASE res = -1 /\ source = "pipe" /\ unread = <<>>
  <2>1. ended' = TRUE /\ unread' = unread /\ output' = output /\ unseen' = unseen
    BY <1>2, <1>5 DEF Returns
  <2>2. n = m
    BY <1>1, <1>5, PipeIsOver
  <2>3. output = Without(text, Vowels)
    BY <1>1, <1>3, <2>2, TextIsWritten DEF Done
  <2>4. OutputIsInput' /\ LinesAreCounted'
    BY <1>3, <2>1, <2>3 DEF OutputIsInput, LinesAreCounted
  <2>5. Rest(input, unread', n)
    BY <1>1, <2>1
  <2> QED
    BY <1>3, <2>1, <2>4, <2>5 DEF StreamInv
<1>6. CASE res \in 1..Len(unread)
  <2>1. /\ Consumes(res) /\ res \in Nat /\ res >= 1 /\ res <= Len(unread)
        /\ Contains(Got(res), EOF) =>
             ended' = TRUE /\ output' = output /\ unseen' = (unread[1] # EOF)
        /\ ~Contains(Got(res), EOF) =>
             /\ output' = output \o Without(Got(res), {c \in Letters : is_vowel(c)})
             /\ unseen' = unseen /\ ended' = FALSE
    BY <1>2, <1>6 DEF Returns
  <2>2. /\ unread' \in Seq(Characters) /\ n + res \in 0..Len(input)
        /\ Rest(input, unread', n + res)
        /\ Got(res) \in Seq(Characters) /\ Len(Got(res)) = res
        /\ \A i \in 1..res : Got(res)[i] = input[n + i]
    BY <1>1, <1>6, <2>1, ReadsOn
  <2> PICK got : got = Got(res)
    OBVIOUS
  <2>3. unread[1] = got[1]
    BY <1>3, <2>1 DEF Got
  <2>4. n \in 0..m
    BY <1>1, <1>3 DEF Progress
  <2>5. /\ Contains(got, EOF) <=> n + res > m
        /\ got[1] = EOF <=> n = m
        /\ n + res <= m => \A i \in 1..res : got[i] = text[n + i]
    BY <2>1, <2>2, <2>4, EndIsSeen
  <2>6. CASE Contains(got, EOF)
    <3>1. ~unseen' => n = m
      BY <2>1, <2>3, <2>5, <2>6
    <3>2. ~unseen' => output = Without(text, Vowels)
      BY <1>1, <1>3, <3>1, TextIsWritten DEF Done
    <3>3. OutputIsInput' /\ LinesAreCounted'
      BY <1>3, <2>1, <2>6, <3>2 DEF OutputIsInput, LinesAreCounted
    <3> QED
      BY <1>3, <2>1, <2>2, <2>6, <3>3 DEF StreamInv
  <2>7. CASE ~Contains(got, EOF)
    <3>1. n + res <= m /\ \A i \in 1..res : got[i] = text[n + i]
      BY <1>1, <1>3, <2>1, <2>2, <2>4, <2>5, <2>7
    <3>2. {c \in Letters : is_vowel(c)} = Dropped
      BY <1>3 DEF Letters, is_vowel
    <3>3. output' = Without(First(text, n + Len(got)), Dropped)
      <4> PICK more : more = Without(got, Dropped)
        OBVIOUS
      <4>1. n \in Nat /\ Progress(n) /\ got \in Seq(Characters)
        BY <1>1, <1>3, <2>2, <2>4
      <4>2. n + Len(got) <= Len(text)
        BY <1>3, <2>2, <3>1
      <4>3. \A i \in 1..Len(got) : got[i] = text[n + i]
        BY <2>2, <3>1
      <4>4. command \in {"cat", "filter"}
        BY <1>3
      <4>5. Joined(output, more, Without(First(text, n + Len(got)), Dropped))
        BY <4>1, <4>2, <4>3, <4>4, WritesOn
      <4> QED
        BY <2>1, <2>7, <3>2, <4>5 DEF Joined
    <3>4. Dropped' = Dropped
      BY <1>3 DEF Dropped
    <3>5. Progress(n + res)'
      BY <1>3, <2>2, <3>1, <3>3, <3>4 DEF Progress
    <3> QED
      BY <1>1, <1>3, <2>1, <2>2, <2>7, <3>5 DEF StreamInv
  <2> QED
    BY <2>6, <2>7
<1> QED
  BY <1>4, <1>5, <1>6

LEMMA WcKeeps ==
  ASSUME StreamInv, ~ended, Wc, UNCHANGED <<command, source, text>>
  PROVE  StreamInv'
<1> PICK input, m : input = Input(source, text) /\ m = Len(text)
  OBVIOUS
<1>0. PICK read \in ReadResults(1) : TRUE
  BY DEF Wc
<1>1. PICK n \in 0..Len(input) : Rest(input, unread, n) /\ ~unseen /\ Progress(n)
  <2>1. 1 \in Nat /\ 1 >= 1 /\ command = "wc"
    BY DEF Wc
  <2>2. ~unseen
    BY <1>0, <2>1, EndIsAhead
  <2> QED
    BY <2>2 DEF StreamInv
<1>2. PICK res \in ReadResults(1) :
        IF res <= 0 THEN Returns /\ UNCHANGED <<unread, lineCount, lastWasNewline>>
        ELSE /\ Consumes(res)
             /\ LET c == unread[1]
                IN  /\ lineCount' = lineCount + (IF EndsLine(c) THEN 1 ELSE 0)
                    /\ lastWasNewline' = IF c = EOF THEN lastWasNewline ELSE c = "\n"
                    /\ IF c = EOF THEN Returns ELSE UNCHANGED ended
  BY DEF Wc
<1>3. /\ text \in Seq(Letters) /\ unread \in Seq(Characters) /\ command = "wc"
      /\ source \in {"keyboard", "pipe"} /\ m \in Nat /\ unseen' = unseen /\ output' = output
      /\ command' = command /\ source' = source /\ text' = text
      /\ input' = Input(source', text')
  BY DEF StreamInv, Wc
<1>4. \/ res = -1 /\ source = "pipe" /\ unread = <<>>
      \/ res \in 1..Len(unread) /\ res <= 1
  <2>1. 1 \in Nat /\ 1 >= 1
    OBVIOUS
  <2> QED
    BY <1>3, <2>1, ReadReturns
<1>5. n \in 0..m /\ lineCount = NewlinesIn(n) /\ output = <<>> /\ lastWasNewline = (n = 0 \/ text[n] = "\n")
  BY <1>1, <1>3 DEF Progress
<1>6. /\ NewlinesIn(m) = Cardinality({i \in DOMAIN text : text[i] = "\n"}) /\ NewlinesIn(m) \in Nat
      /\ text # <<>> <=> m # 0
  <2>1. DOMAIN text = 1..m
    BY <1>3
  <2>2. NewlinesIn(m) = Cardinality({i \in DOMAIN text : text[i] = "\n"})
    BY <2>1 DEF NewlinesIn
  <2>3. NewlinesIn(m) \in Nat
    BY <1>3, OneMoreLine
  <2>4. text # <<>> <=> m # 0
    BY <1>3
  <2> QED
    BY <2>2, <2>3, <2>4
<1>7. CASE res = -1 /\ source = "pipe" /\ unread = <<>>
  <2>1. ended' = TRUE /\ unread' = unread /\ lineCount' = lineCount
    BY <1>2, <1>7 DEF Returns
  <2>2. n = m
    BY <1>1, <1>7, PipeIsOver
  <2>3. lineCount' = Cardinality({i \in DOMAIN text : text[i] = "\n"}) + 0
    BY <1>5, <1>6, <2>1, <2>2
  <2>4. OutputIsInput' /\ LinesAreCounted'
    BY <1>3, <1>5, <1>7, <2>1, <2>3 DEF OutputIsInput, LinesAreCounted
  <2>5. Rest(input, unread', n)
    BY <1>1, <2>1
  <2> QED
    BY <1>1, <1>3, <2>1, <2>4, <2>5 DEF StreamInv
<1>8. CASE res \in 1..Len(unread) /\ res <= 1
  <2> PICK c : c = unread[1]
    OBVIOUS
  <2>1. /\ Consumes(res) /\ res = 1 /\ res \in Nat /\ res >= 1 /\ res <= Len(unread)
        /\ lineCount' = lineCount + (IF EndsLine(c) THEN 1 ELSE 0)
        /\ lastWasNewline' = IF c = EOF THEN lastWasNewline ELSE c = "\n"
        /\ c = EOF => ended' = TRUE
        /\ c # EOF => ended' = FALSE
    BY <1>2, <1>8 DEF Returns
  <2>2. /\ unread' \in Seq(Characters) /\ n + 1 \in 0..Len(input)
        /\ Rest(input, unread', n + 1)
        /\ Got(res) \in Seq(Characters) /\ Len(Got(res)) = res
        /\ \A i \in 1..res : Got(res)[i] = input[n + i]
    <3>1. /\ unread' \in Seq(Characters) /\ n + res \in 0..Len(input)
          /\ Rest(input, unread', n + res)
          /\ Got(res) \in Seq(Characters) /\ Len(Got(res)) = res
          /\ \A i \in 1..res : Got(res)[i] = input[n + i]
      BY <1>1, <1>8, <2>1, ReadsOn
    <3> QED
      BY <2>1, <3>1
  <2> PICK got : got = Got(res)
    OBVIOUS
  <2>3. c = got[1]
    BY <1>3, <2>1 DEF Got
  <2>4. /\ Contains(got, EOF) <=> n + res > m
        /\ got[1] = EOF <=> n = m
        /\ n + res <= m => \A i \in 1..res : got[i] = text[n + i]
    <3>1. n + res \in 0..Len(input)
      BY <2>1, <2>2
    <3> QED
      BY <1>5, <2>1, <2>2, <3>1, EndIsSeen
  <2>5. CASE c = EOF
    <3>1. n = m
      BY <2>3, <2>4, <2>5
    <3>2. source = "keyboard"
      <4>1. source = "pipe" => Len(input) = m
        BY DEF Input
      <4> QED
        BY <1>3, <2>2, <3>1, <4>1
    <3>3. EndsLine(c) <=> ~lastWasNewline
      BY <2>5 DEF EndsLine, EOF
    <3>4. ~lastWasNewline <=> text # <<>> /\ text[Len(text)] # "\n"
      BY <1>5, <1>6, <3>1
    <3>5. lineCount' = Cardinality({i \in DOMAIN text : text[i] = "\n"})
                       + (IF text # <<>> /\ text[Len(text)] # "\n" THEN 1 ELSE 0)
      BY <1>5, <1>6, <2>1, <3>1, <3>3, <3>4
    <3>6. OutputIsInput' /\ LinesAreCounted'
      BY <1>3, <1>5, <3>2, <3>5 DEF OutputIsInput, LinesAreCounted
    <3> QED
      BY <1>1, <1>3, <2>1, <2>2, <2>5, <3>6 DEF StreamInv
  <2>6. CASE c # EOF
    <3>1. n # m /\ n + 1 <= m
      BY <1>3, <1>5, <2>3, <2>4, <2>6
    <3>2. c = text[n + 1]
      <4>1. 1 \in 1..res /\ n + res <= m
        BY <2>1, <3>1
      <4> QED
        BY <2>3, <2>4, <4>1
    <3>3. EndsLine(c) <=> text[n + 1] = "\n"
      BY <2>6, <3>2 DEF EndsLine
    <3>4. lineCount' = NewlinesIn(n + 1)
      <4>1. n \in Nat
        BY <1>5
      <4>2. NewlinesIn(n) \in Nat /\ NewlinesIn(n + 1) = NewlinesIn(n) + (IF text[n + 1] = "\n" THEN 1 ELSE 0)
        BY <4>1, OneMoreLine
      <4> QED
        BY <1>5, <2>1, <3>3, <4>2
    <3>5. NewlinesIn(n + 1)' = NewlinesIn(n + 1)
      BY <1>3 DEF NewlinesIn
    <3>6. lastWasNewline' = (n + 1 = 0 \/ text[n + 1] = "\n")
      <4>1. n + 1 # 0
        BY <1>5
      <4>2. lastWasNewline' = (c = "\n")
        BY <2>1, <2>6
      <4> QED
        BY <3>2, <4>1, <4>2
    <3>7. Progress(n + 1)'
      BY <1>3, <1>5, <3>1, <3>4, <3>5, <3>6 DEF Progress
    <3> QED
      BY <1>1, <1>3, <2>1, <2>2, <2>6, <3>7 DEF StreamInv
  <2> QED
    BY <2>5, <2>6
<1> QED
  BY <1>4, <1>7, <1>8

LEMMA StreamSteps == StreamInv /\ [StreamNext]_streamVars => StreamInv'
<1> SUFFICES ASSUME StreamInv, [StreamNext]_streamVars PROVE StreamInv'
  OBVIOUS
<1>1. CASE StreamNext
  <2>1. CASE (Cat \/ Wc \/ Filter) /\ UNCHANGED text
    <3>1. ~ended /\ UNCHANGED <<command, source, text>>
      BY <1>1, <2>1 DEF StreamNext
    <3> QED
      BY <2>1, <3>1, CatKeeps, WcKeeps, FilterKeeps
  <2>2. CASE PassOver
    <3>1. ~ended /\ UNCHANGED <<command, source>>
      BY <1>1 DEF StreamNext
    <3> QED
      BY <2>2, <3>1, PassOverKeeps
  <2> QED
    BY <1>1, <2>1, <2>2 DEF StreamNext
<1>2. CASE UNCHANGED streamVars
  BY <1>2 DEF streamVars, StreamInv, Progress, Dropped, NewlinesIn, OutputIsInput, LinesAreCounted
<1> QED
  BY <1>1, <1>2

(* The invariant of the commands: what they have written and counted is    *)
(* what they have read, however the input is cut into reads and whatever   *)
(* keys are lost between them (read of syscallHandler.c).                  *)
THEOREM StreamInvariance == StreamSpec => []StreamInv
<1> QED
  BY StreamStarts, StreamSteps, PTL DEF StreamSpec

(* The commands do what they are for (cat, wc and filter of commands.c):   *)
(* at the end of their input they have written or counted all that their   *)
(* reads could give them of it, and none waits for more; unless the end    *)
(* was lost between two reads, or came with other characters in one.       *)
THEOREM CommandsDoTheirWork == StreamSpec => []CommandsWork
<1>1. StreamInv => CommandsWork
  <2> SUFFICES ASSUME StreamInv PROVE CommandsWork
    OBVIOUS
  <2>1. OutputIsInput /\ LinesAreCounted
    BY DEF StreamInv, OutputIsInput, LinesAreCounted
  <2>2. ASSUME source = "keyboard", unread = <<>>, ~unseen, ~ended PROVE FALSE
    <3> PICK input : input = Input(source, text)
      OBVIOUS
    <3>1. PICK n \in 0..Len(input) : Rest(input, unread, n) /\ Progress(n)
      BY <2>2 DEF StreamInv
    <3>2. Len(text) \in Nat /\ Len(input) = Len(text) + 1
      BY <2>2, InputIs DEF StreamInv
    <3>3. Len(unread) = 0
      BY <2>2
    <3>4. n <= Len(text) /\ Len(unread) = Len(input) - n
      BY <3>1 DEF Progress, Rest
    <3> QED
      BY <3>2, <3>3, <3>4
  <2> QED
    BY <2>1, <2>2 DEF CommandsWork, NobodyWaitsForMore
<1> QED
  BY <1>1, StreamInvariance, PTL

-----------------------------------------------------------------------------
(* The disk utility.                                                       *)
DirEntries ==
    [mark : {"used", "deleted", "end"}, name : FileNames \cup {""}, start : Nat,
     reserved : 0..BLOCKS, size : Nat]

Directories == [Slots -> DirEntries]

(* An entry that was ever used has room on the disk behind the system.     *)
EntriesOK(d) ==
    \A i \in Slots :
        /\ d[i].size <= d[i].reserved
        /\ d[i].mark # "end" => d[i].start >= 1 /\ d[i].reserved >= 1

EndsLast(d) == \A i \in Ends(d), j \in Slots : i <= j => j \in Ends(d)

NamesDiffer(d) ==
    \A i, j \in Slots : Used(d, i) /\ Used(d, j) /\ d[i].name = d[j].name => i = j

(* The files lie in front of the last block, and apart.                    *)
Placed(d) == \A i \in Slots : Used(d, i) => d[i].start + d[i].reserved <= BLOCKS - 1

Apart(d) ==
    \A i, j \in Slots : Used(d, i) /\ Used(d, j) /\ i # j =>
        \/ d[i].start + d[i].reserved <= d[j].start
        \/ d[j].start + d[j].reserved <= d[i].start

LEMMA EntryFields ==
  ASSUME NEW d \in Directories, NEW i \in Slots
  PROVE  /\ d[i] \in DirEntries /\ d[i].mark \in {"used", "deleted", "end"}
         /\ d[i].start \in Nat /\ d[i].reserved \in Nat /\ d[i].size \in Nat
         /\ d[i].reserved \in 0..BLOCKS
<1>1. BLOCKS \in Nat
  BY BmfsAssumption
<1>2. d[i] \in DirEntries
  BY DEF Directories
<1>3. /\ d[i].mark \in {"used", "deleted", "end"} /\ d[i].start \in Nat /\ d[i].size \in Nat
      /\ d[i].reserved \in 0..BLOCKS
  BY ONLY <1>2 DEF DirEntries
<1> QED
  BY ONLY <1>1, <1>2, <1>3

LEMMA SlotsAre == Slots \subseteq Nat /\ \A i \in Slots : i < ENTRIES
<1>1. ENTRIES \in Nat
  BY BmfsAssumption
<1> QED
  BY <1>1 DEF Slots

(* What is in front of the first end is used or deleted.                   *)
LEMMA InFront ==
  ASSUME NEW d \in Directories, NEW n, n = num_used_entries(d)
  PROVE  /\ n \in 0..ENTRIES
         /\ \A i \in 0..n - 1 : i \in Slots /\ i \notin Ends(d)
         /\ Ends(d) # {} => n \in Ends(d)
         /\ Ends(d) # {} /\ EndsLast(d) => \A i \in Slots : i \notin Ends(d) => i \in 0..n - 1
<1>1. Slots = 0..ENTRIES - 1 /\ ENTRIES \in Nat /\ Ends(d) \subseteq Slots
  BY BmfsAssumption DEF Slots, Ends
<1>2. CASE Ends(d) = {}
  <2>1. n = 0
    BY <1>2 DEF num_used_entries
  <2> QED
    BY <1>1, <1>2, <2>1
<1>3. CASE Ends(d) # {}
  <2> PICK T : T = Ends(d)
    OBVIOUS
  <2>1. n = Min(T)
    BY <1>3 DEF num_used_entries
  <2>2. T \subseteq Nat /\ T # {} /\ T \subseteq Slots
    BY <1>1, <1>3
  <2>3. n \in T /\ \A i \in T : n <= i
    BY <2>1, <2>2, MinOfNaturals
  <2>4. n \in 0..ENTRIES - 1
    BY <1>1, <2>2, <2>3
  <2>5. ASSUME NEW i \in 0..n - 1 PROVE i \in Slots /\ i \notin T
    BY <1>1, <2>3, <2>4
  <2>6. ASSUME EndsLast(d), NEW i \in Slots, i \notin T PROVE i \in 0..n - 1
    <3>1. i \in Nat /\ n \in Nat
      BY <1>1, <2>4
    <3>2. ~(n <= i)
      BY <2>3, <2>6 DEF EndsLast
    <3> QED
      BY <3>1, <3>2
  <2> QED
    BY <1>1, <2>3, <2>4, <2>5, <2>6
<1> QED
  BY <1>2, <1>3

(* The sorted copy has every entry once, ...                               *)
LEMMA SortedOnce ==
  ASSUME NEW d \in Directories, NEW n, n = num_used_entries(d), NEW s \in Sorted(d)
  PROVE  /\ n \in Nat /\ Len(s) = n /\ s \in [1..n -> 0..n - 1]
         /\ \A i, j \in 1..n : i # j => s[i] # s[j]
         /\ \A i \in 0..n - 1 : \E k \in 1..n : s[k] = i
<1>1. n \in Nat
  <2>1. n \in 0..ENTRIES /\ ENTRIES \in Nat
    BY InFront, BmfsAssumption
  <2> QED
    BY <2>1
<1> PICK S : S = 0..n - 1
  OBVIOUS
<1>2. IsFiniteSet(S) /\ Cardinality(S) = n
  <2>1. /\ IsFiniteSet(0..n - 1)
        /\ Cardinality(0..n - 1) = IF 0 > n - 1 THEN 0 ELSE (n - 1) - 0 + 1
    <3>1. 0 \in Int /\ n - 1 \in Int
      BY <1>1
    <3> QED
      BY <3>1, FS_Interval
  <2> QED
    BY <1>1, <2>1
<1>3. s \in SetToSeqs(S)
  BY DEF Sorted
<1>4. s \in [1..n -> S] /\ \A i, j \in 1..n : i # j => s[i] # s[j]
  BY <1>2, <1>3 DEF SetToSeqs
<1>5. Len(s) = n
  <2>1. s \in Seq(S) /\ DOMAIN s = 1..n
    BY <1>1, <1>4
  <2>2. Len(s) \in Nat /\ 1..Len(s) = 1..n
    BY <2>1, LenProperties
  <2> QED
    BY <1>1, <2>2
<1>6. IsFiniteSet(1..n) /\ Cardinality(1..n) = n
  <2>1. /\ IsFiniteSet(1..n)
        /\ Cardinality(1..n) = IF 1 > n THEN 0 ELSE n - 1 + 1
    <3>1. 1 \in Int /\ n \in Int
      BY <1>1
    <3> QED
      BY ONLY <3>1, FS_Interval
  <2> QED
    BY <1>1, <2>1
<1>7. s \in Injection(1..n, S)
  BY <1>4 DEF Injection, IsInjective
<1>8. s \in Surjection(1..n, S)
  <2> PICK P : P = 1..n
    OBVIOUS
  <2>1. s \in Injection(P, S) /\ IsFiniteSet(S) /\ Cardinality(P) = Cardinality(S)
    BY <1>2, <1>6, <1>7
  <2>2. s \in Surjection(P, S)
    BY ONLY <2>1, FS_Injection
  <2> QED
    BY <2>2
<1>9. \A i \in S : \E k \in 1..n : s[k] = i
  BY <1>8 DEF Surjection
<1> QED
  BY <1>1, <1>4, <1>5, <1>9

(* ... and those in use in the order of their blocks, before the deleted.  *)
InOrder(d, a, b) == Used(d, a) /\ d[a].start <= d[b].start

LEMMA SortedInOrder ==
  ASSUME NEW d \in Directories, NEW n, n = num_used_entries(d), NEW s \in Sorted(d),
         NEW i \in 1..n, NEW j \in 1..n, i < j, Used(d, s[j])
  PROVE  InOrder(d, s[i], s[j])
<1>1. /\ n \in Nat /\ Len(s) = n /\ s \in [1..n -> 0..n - 1]
  BY SortedOnce
<1>2. \A k \in 1..n : s[k] \in Slots
  BY <1>1, InFront
<1>3. ASSUME NEW k \in 1..n - 1, Used(d, s[k + 1]) PROVE InOrder(d, s[k], s[k + 1])
  <2>1. Before(d, s[k], s[k + 1]) \/ (Deleted(d, s[k]) /\ Deleted(d, s[k + 1]))
    BY <1>1 DEF Sorted
  <2>2. ~Deleted(d, s[k + 1])
    BY <1>3 DEF Used, Deleted
  <2> QED
    BY <2>1, <2>2 DEF Before, InOrder
<1> DEFINE bad == {e \in Nat : e \in 1..j - 1 /\ ~InOrder(d, s[j - e], s[j])}
<1>4. ASSUME bad # {} PROVE FALSE
  <2>1. PICK e \in bad : \A f \in bad : e <= f
    BY <1>4, LeastNatural
  <2>2. e \in Nat /\ e \in 1..j - 1 /\ ~InOrder(d, s[j - e], s[j]) /\ j \in Nat /\ j <= n
    BY <1>1, <2>1
  <2> PICK k, l : k = j - e /\ l = k + 1
    OBVIOUS
  <2>3. k \in 1..n - 1 /\ l \in 1..n /\ k \in 1..n
    BY <1>1, <2>2
  <2>4. Used(d, s[l]) /\ d[s[l]].start <= d[s[j]].start
    <3>1. CASE e = 1
      <4>1. l = j
        BY <2>2, <3>1
      <4>2. d[s[j]].start \in Nat
        BY <1>2, EntryFields
      <4> QED
        BY <4>1, <4>2
    <3>2. CASE e # 1
      <4>1. e - 1 \in 1..j - 1 /\ e - 1 \in Nat /\ ~(e <= e - 1) /\ l = j - (e - 1)
        BY <2>2, <3>2
      <4>2. e - 1 \notin bad
        BY <2>1, <4>1
      <4>3. InOrder(d, s[j - (e - 1)], s[j])
        BY <4>1, <4>2
      <4> QED
        BY <4>1, <4>3 DEF InOrder
    <3> QED
      BY <3>1, <3>2
  <2>5. InOrder(d, s[k], s[l])
    BY <1>3, <2>3, <2>4
  <2>6. d[s[k]].start \in Nat /\ d[s[l]].start \in Nat /\ d[s[j]].start \in Nat
    BY <1>2, <2>3, EntryFields
  <2>7. InOrder(d, s[k], s[j])
    BY <2>4, <2>5, <2>6 DEF InOrder
  <2> QED
    BY <2>2, <2>7
<1>5. j - i \in 1..j - 1 /\ j - i \in Nat /\ j - (j - i) = i
  BY <1>1
<1>6. j - i \notin bad
  BY <1>4
<1> QED
  BY <1>5, <1>6

(* The room that create finds is nobody's, unless it begins behind a       *)
(* deleted entry.                                                          *)
LEMMA RoomIsFree ==
  ASSUME NEW d \in Directories, EntriesOK(d), EndsLast(d), Placed(d), Apart(d), Ends(d) # {},
         NEW s \in Sorted(d), NEW requested \in 1..BLOCKS, NEW k \in Rooms(d, s, requested),
         k > 1 => ~Deleted(d, s[k - 1]), NEW start, start = RoomStart(d, s, k)
  PROVE  /\ start \in Nat /\ start + requested <= BLOCKS - 1
         /\ \A i \in Slots : Used(d, i) => \/ d[i].start + d[i].reserved <= start
                                           \/ start + requested <= d[i].start
<1> PICK n : n = num_used_entries(d)
  OBVIOUS
<1>1. /\ n \in Nat /\ Len(s) = n /\ s \in [1..n -> 0..n - 1]
      /\ \A i, j \in 1..n : i # j => s[i] # s[j]
      /\ \A i \in 0..n - 1 : \E m \in 1..n : s[m] = i
  <2>1. d \in Directories
    OBVIOUS
  <2>2. n = num_used_entries(d)
    OBVIOUS
  <2>3. s \in Sorted(d)
    OBVIOUS
  <2> QED
    BY ONLY <2>1, <2>2, <2>3, SortedOnce, SMTT(20)
<1>2. \A m \in 1..n : s[m] \in Slots /\ s[m] \notin Ends(d)
  BY <1>1, InFront
<1>3. /\ k \in 1..n + 1 /\ (RoomEnd(d, s, k) - start) % ULL >= requested
      /\ BLOCKS \in Nat /\ BLOCKS > 2 /\ ULL \in Nat /\ ULL > 2 * BLOCKS /\ requested \in Nat
      /\ k \in Nat /\ requested >= 1
  BY <1>1, BmfsAssumption DEF Rooms
<1>4. \A m \in 1..n : ~Deleted(d, s[m]) => Used(d, s[m])
  <2> TAKE m \in 1..n
  <2>1. s[m] \in Slots /\ d[s[m]].mark # "end" /\ d[s[m]].mark \in {"used", "deleted", "end"}
    BY <1>2, EntryFields DEF Ends
  <2> QED
    BY <2>1 DEF Used, Deleted
<1>5. ASSUME NEW m \in 1..n, Used(d, s[m])
      PROVE  /\ d[s[m]].start \in Nat /\ d[s[m]].reserved \in Nat
             /\ d[s[m]].start >= 1 /\ d[s[m]].reserved >= 1
             /\ d[s[m]].start + d[s[m]].reserved <= BLOCKS - 1
  BY <1>2, <1>5, EntryFields DEF EntriesOK, Placed, Used
<1>6. ASSUME NEW i \in 1..n, NEW j \in 1..n, i < j, Used(d, s[j])
      PROVE  /\ Used(d, s[i]) /\ d[s[i]].start + d[s[i]].reserved <= d[s[j]].start
  <2>1. Used(d, s[i]) /\ d[s[i]].start <= d[s[j]].start
    BY <1>6, SortedInOrder DEF InOrder
  <2>2. s[i] # s[j] /\ s[i] \in Slots /\ s[j] \in Slots
    BY <1>1, <1>2, <1>6
  <2>3. \/ d[s[i]].start + d[s[i]].reserved <= d[s[j]].start
        \/ d[s[j]].start + d[s[j]].reserved <= d[s[i]].start
    BY <1>6, <2>1, <2>2 DEF Apart
  <2> QED
    BY <1>5, <1>6, <2>1, <2>3
<1>7. /\ k = 1 => start = 1
      /\ k > 1 => k - 1 \in 1..n /\ Used(d, s[k - 1])
                  /\ start = d[s[k - 1]].start + d[s[k - 1]].reserved
  <2>1. CASE k = 1
    BY <2>1 DEF RoomStart
  <2>2. CASE k # 1
    <3>1. k > 1 /\ k - 1 \in 1..n
      BY <1>1, <1>3, <2>2
    <3>2. Used(d, s[k - 1])
      BY <1>4, <3>1
    <3> QED
      BY <2>2, <3>1, <3>2 DEF RoomStart
  <2> QED
    BY <2>1, <2>2
<1>8. start \in Nat /\ start >= 1 /\ start <= BLOCKS - 1
  <2>1. CASE k = 1
    BY <1>3, <1>7, <2>1
  <2>2. CASE k # 1
    BY <1>3, <1>5, <1>7, <2>2
  <2> QED
    BY <2>1, <2>2
<1> PICK end : end = RoomEnd(d, s, k)
  OBVIOUS
<1>9. /\ end \in start..BLOCKS - 1
      /\ k <= n /\ Used(d, s[k]) => end = d[s[k]].start
  <2>1. CASE k > n \/ Deleted(d, s[k])
    <3>1. end = BLOCKS - 1
      BY <1>1, <2>1 DEF RoomEnd
    <3>2. ~(k <= n /\ Used(d, s[k]))
      BY <1>1, <1>3, <2>1 DEF Used, Deleted
    <3> QED
      BY <1>3, <1>8, <3>1, <3>2
  <2>2. CASE ~(k > n \/ Deleted(d, s[k]))
    <3>1. end = d[s[k]].start
      BY <1>1, <2>2 DEF RoomEnd
    <3>2. k \in 1..n /\ Used(d, s[k])
      BY <1>1, <1>3, <1>4, <2>2
    <3>3. end \in Nat /\ end >= 1 /\ end <= BLOCKS - 1
      BY <1>3, <1>5, <3>1, <3>2
    <3>4. start <= end
      <4>1. CASE k = 1
        BY <1>7, <3>3, <4>1
      <4>2. CASE k # 1
        <5>1. k - 1 \in 1..n /\ k - 1 < k
          BY <1>3, <1>7, <4>2
        <5> QED
          BY <1>3, <1>6, <1>7, <3>1, <3>2, <4>2, <5>1
      <4> QED
        BY <4>1, <4>2
    <3> QED
      BY <1>3, <1>8, <3>1, <3>3, <3>4
  <2> QED
    BY <2>1, <2>2
<1>10. start + requested <= end
  <2>1. end - start \in 0..ULL - 1
    BY <1>3, <1>8, <1>9
  <2>2. (end - start) % ULL = end - start
    BY <1>3, <2>1
  <2> QED
    BY <1>3, <1>8, <1>9, <2>2
<1>11. ASSUME NEW i \in Slots, Used(d, i)
       PROVE  d[i].start + d[i].reserved <= start \/ start + requested <= d[i].start
  <2>1. i \in 0..n - 1
    <3>1. i \notin Ends(d)
      BY <1>11 DEF Ends, Used
    <3> QED
      BY <1>11, <3>1, InFront
  <2>2. PICK m \in 1..n : s[m] = i
    BY <1>1, <2>1
  <2>3. CASE m < k
    <3>1. k > 1 /\ k - 1 \in 1..n /\ Used(d, s[k - 1])
          /\ start = d[s[k - 1]].start + d[s[k - 1]].reserved
      BY <1>1, <1>3, <1>7, <2>3
    <3>2. CASE m = k - 1
      BY <1>5, <2>2, <3>1, <3>2
    <3>3. CASE m # k - 1
      <4>1. m < k - 1
        BY <1>1, <1>3, <2>3, <3>3
      <4>2. d[s[m]].start + d[s[m]].reserved <= d[s[k - 1]].start
        BY <1>6, <3>1, <4>1
      <4>3. Used(d, s[m])
        BY <1>11, <2>2
      <4> QED
        BY <1>5, <2>2, <3>1, <4>2, <4>3
    <3> QED
      BY <3>2, <3>3
  <2>4. CASE ~(m < k)
    <3>1. k \in 1..n /\ k <= m
      BY <1>1, <1>3, <2>4
    <3>2. Used(d, s[k]) /\ d[s[k]].start <= d[s[m]].start
      <4>1. CASE k = m
        BY <1>5, <1>11, <2>2, <4>1
      <4>2. CASE k # m
        <5>1. k < m
          BY <1>1, <1>3, <3>1, <4>2
        <5>2. Used(d, s[k]) /\ d[s[k]].start + d[s[k]].reserved <= d[s[m]].start
          BY <1>6, <1>11, <2>2, <3>1, <5>1
        <5> QED
          BY <1>5, <1>11, <2>2, <3>1, <5>2
      <4> QED
        BY <4>1, <4>2
    <3>3. end = d[s[k]].start
      BY <1>1, <1>3, <1>9, <3>1, <3>2
    <3>4. d[s[m]].start \in Nat
      BY <1>5, <1>11, <2>2
    <3> QED
      BY <1>3, <1>8, <1>9, <1>10, <2>2, <3>2, <3>3, <3>4
  <2> QED
    BY <2>3, <2>4
<1> QED
  BY <1>3, <1>8, <1>9, <1>10, <1>11

(* The blocks of a file hold it.                                           *)
Kept(d, held) ==
    \A i \in Slots : Used(d, i) =>
        \A k \in 0..d[i].size - 1 : held[d[i].start + k] = <<d[i].name, k>>

SystemBlocks == {<<>>, <<"system", 0>>}

DiskInv ==
    /\ Directory \in Directories
    /\ EntriesOK(Directory) /\ EndsLast(Directory) /\ NamesDiffer(Directory)
    /\ DOMAIN blocks = 0..BLOCKS - 1 /\ blocks[0] \in SystemBlocks
    /\ ~misled => Placed(Directory) /\ Apart(Directory) /\ Kept(Directory, blocks)

(* An empty directory.                                                     *)
LEMMA EmptyIsSound ==
  ASSUME NEW d, d = [i \in Slots |-> END], NEW held
  PROVE  /\ d \in Directories /\ EntriesOK(d) /\ EndsLast(d) /\ NamesDiffer(d)
         /\ Placed(d) /\ Apart(d) /\ Kept(d, held)
<1>1. BLOCKS \in Nat
  BY BmfsAssumption
<1>2. END \in DirEntries
  <2> PICK name : name = ""
    OBVIOUS
  <2>1. 0 \in 0..BLOCKS /\ 0 \in Nat
    BY ONLY <1>1
  <2>2. END = [mark |-> "end", name |-> name, start |-> 0, reserved |-> 0, size |-> 0]
    BY DEF END
  <2>3. name \in FileNames \cup {""}
    OBVIOUS
  <2>4. DirEntries = [mark : {"used", "deleted", "end"}, name : FileNames \cup {""}, start : Nat,
                     reserved : 0..BLOCKS, size : Nat]
    BY DEF DirEntries
  <2> QED
    BY ONLY <2>1, <2>2, <2>3, <2>4
<1>3. d \in Directories
  BY <1>2 DEF Directories
<1>4. \A i \in Slots : d[i].mark = "end" /\ d[i].size = 0 /\ d[i].reserved = 0 /\ ~Used(d, i)
  BY DEF END, Used
<1>5. EntriesOK(d)
  BY <1>4 DEF EntriesOK
<1>6. EndsLast(d)
  BY <1>4 DEF EndsLast, Ends
<1> QED
  BY <1>3, <1>4, <1>5, <1>6 DEF NamesDiffer, Placed, Apart, Kept

(* Who is in use is in front of the end.                                   *)
LEMMA FoundAre ==
  ASSUME NEW d \in Directories, EndsLast(d), NEW name
  PROVE  /\ Listed(d) = {i \in Slots : Used(d, i)}
         /\ Found(d, name) = {i \in Slots : Used(d, i) /\ d[i].name = name}
<1>1. ASSUME NEW i \in Slots, Used(d, i), NEW j \in Ends(d) PROVE i < j
  <2>1. i \notin Ends(d)
    BY <1>1 DEF Ends, Used
  <2>2. j \in Slots /\ i \in Nat /\ j \in Nat
    BY SlotsAre DEF Ends
  <2>3. ~(j <= i)
    BY <2>1 DEF EndsLast
  <2> QED
    BY <2>2, <2>3
<1>2. Listed(d) = {i \in Slots : Used(d, i)}
  BY <1>1 DEF Listed
<1> QED
  BY <1>2 DEF Found

(* An entry is filled, ...                                                 *)
NewFile(d, file) ==
    /\ file \in DirEntries
    /\ file.mark = "used" /\ file.size = 0 /\ file.start >= 1 /\ file.reserved >= 1
    /\ \A i \in Slots : Used(d, i) => d[i].name # file.name

LEMMA WithFile ==
  ASSUME NEW d \in Directories, EntriesOK(d), EndsLast(d), NamesDiffer(d),
         NEW f \in Slots, f \in FreeEntries(d), \A i \in FreeEntries(d) : f <= i,
         NEW file, NewFile(d, file), NEW e,
         \A i \in Slots : e[i] = IF i = f THEN file ELSE d[i]
  PROVE  EntriesOK(e) /\ EndsLast(e) /\ NamesDiffer(e) /\ ~Used(d, f)
<1> USE DEF NewFile
<1>1. \A i \in Slots : e[i] = IF i = f THEN file ELSE d[i]
  OBVIOUS
<1>2. ~Used(d, f)
  BY DEF FreeEntries, Used, Deleted, Ends
<1>3. EntriesOK(e)
  <2> SUFFICES ASSUME NEW i \in Slots
               PROVE  /\ e[i].size <= e[i].reserved
                      /\ e[i].mark # "end" => e[i].start >= 1 /\ e[i].reserved >= 1
    BY DEF EntriesOK
  <2>1. CASE i = f
    <3>1. e[i] = file /\ file.reserved \in Nat
      <4>1. BLOCKS \in Nat /\ file.reserved \in 0..BLOCKS
        BY BmfsAssumption DEF DirEntries
      <4> QED
        BY <1>1, <2>1, <4>1
    <3> QED
      BY <3>1
  <2>2. CASE i # f
    BY <1>1, <2>2 DEF EntriesOK
  <2> QED
    BY <2>1, <2>2
<1>4. EndsLast(e)
  <2> SUFFICES ASSUME NEW i \in Ends(e), NEW j \in Slots, i <= j PROVE j \in Ends(e)
    BY DEF EndsLast
  <2>1. i \in Slots /\ i # f /\ i \in Ends(d)
    BY <1>1 DEF Ends
  <2>2. j \in Ends(d) /\ f <= i
    BY <2>1 DEF EndsLast, FreeEntries
  <2>3. i \in Nat /\ j \in Nat /\ f \in Nat
    BY <2>1, SlotsAre
  <2>4. j # f
    BY <2>1, <2>2, <2>3
  <2> QED
    BY <1>1, <2>2, <2>4 DEF Ends
<1>5. NamesDiffer(e)
  <2> SUFFICES ASSUME NEW i \in Slots, NEW j \in Slots, Used(e, i), Used(e, j),
                      e[i].name = e[j].name
               PROVE  i = j
    BY DEF NamesDiffer
  <2>1. \A k \in Slots : k # f => (Used(d, k) <=> Used(e, k)) /\ d[k].name = e[k].name
    BY <1>1 DEF Used
  <2>2. e[f].name = file.name
    BY <1>1
  <2>3. CASE i # f /\ j # f
    BY <2>1, <2>3 DEF NamesDiffer
  <2>4. CASE i = f /\ j # f
    BY <2>1, <2>2, <2>4
  <2>5. CASE i # f /\ j = f
    BY <2>1, <2>2, <2>5
  <2> QED
    BY <2>3, <2>4, <2>5
<1> QED
  BY <1>2, <1>3, <1>4, <1>5

(* ... and nobody's blocks are taken for it.                               *)
LEMMA WithRoom ==
  ASSUME NEW d \in Directories, Placed(d), Apart(d), NEW held, Kept(d, held), NEW f \in Slots,
         ~Used(d, f), NEW file \in DirEntries, file.size = 0,
         file.start + file.reserved <= BLOCKS - 1,
         \A i \in Slots : Used(d, i) => \/ d[i].start + d[i].reserved <= file.start
                                        \/ file.start + file.reserved <= d[i].start,
         NEW e, \A i \in Slots : e[i] = IF i = f THEN file ELSE d[i]
  PROVE  Placed(e) /\ Apart(e) /\ Kept(e, held)
<1>1. \A i \in Slots : i # f => e[i] = d[i] /\ (Used(d, i) <=> Used(e, i))
  BY DEF Used
<1>2. e[f] = file
  OBVIOUS
<1>3. Placed(e)
  BY <1>1, <1>2 DEF Placed
<1>4. Apart(e)
  <2> SUFFICES ASSUME NEW i \in Slots, NEW j \in Slots, Used(e, i), Used(e, j), i # j
               PROVE  \/ e[i].start + e[i].reserved <= e[j].start
                      \/ e[j].start + e[j].reserved <= e[i].start
    BY DEF Apart
  <2>1. CASE i # f /\ j # f
    BY <1>1, <2>1 DEF Apart
  <2>2. CASE i = f /\ j # f
    BY <1>1, <1>2, <2>2
  <2>3. CASE i # f /\ j = f
    BY <1>1, <1>2, <2>3
  <2> QED
    BY <2>1, <2>2, <2>3
<1>5. Kept(e, held)
  <2> SUFFICES ASSUME NEW i \in Slots, Used(e, i), NEW k \in 0..e[i].size - 1
               PROVE  held[e[i].start + k] = <<e[i].name, k>>
    BY DEF Kept
  <2>1. i # f
    BY <1>2
  <2> QED
    BY <1>1, <2>1 DEF Kept
<1> QED
  BY <1>3, <1>4, <1>5

LEMMA RoomStarts ==
  ASSUME NEW d \in Directories, EntriesOK(d), NEW s \in Sorted(d), NEW k \in 1..Len(s) + 1
  PROVE  RoomStart(d, s, k) \in Nat /\ RoomStart(d, s, k) >= 1
<1> PICK n : n = num_used_entries(d)
  OBVIOUS
<1>1. n \in Nat /\ Len(s) = n /\ s \in [1..n -> 0..n - 1]
  BY SortedOnce
<1>2. CASE k = 1
  BY <1>2 DEF RoomStart
<1>3. CASE k # 1
  <2>1. k - 1 \in 1..n
    BY <1>1, <1>3
  <2>2. s[k - 1] \in Slots /\ s[k - 1] \notin Ends(d)
    BY <1>1, <2>1, InFront
  <2>3. d[s[k - 1]].start \in Nat /\ d[s[k - 1]].reserved \in Nat /\ d[s[k - 1]].start >= 1
    BY <2>2, EntryFields DEF EntriesOK, Ends
  <2>4. RoomStart(d, s, k) = d[s[k - 1]].start + d[s[k - 1]].reserved
    BY <1>3 DEF RoomStart
  <2> QED
    BY ONLY <2>3, <2>4
<1> QED
  BY <1>2, <1>3

LEMMA CreateKeeps ==
  ASSUME DiskInv, NEW name \in FileNames, NEW requested \in 1..BLOCKS, Create(name, requested)
  PROVE  DiskInv'
<1> PICK d : d = Directory
  OBVIOUS
<1>1. /\ d \in Directories /\ EntriesOK(d) /\ EndsLast(d) /\ NamesDiffer(d)
      /\ FreeEntries(d) # {} /\ blocks' = blocks
      /\ Found(d, name) = {}
  BY DEF DiskInv, Create
<1>2. PICK s \in Sorted(d) :
        /\ Rooms(d, s, requested) # {}
        /\ LET k == Min(Rooms(d, s, requested))
               file == [mark |-> "used", name |-> name, reserved |-> requested, size |-> 0,
                        start |-> RoomStart(d, s, k)]
           IN  /\ Directory' = [d EXCEPT ![Min(FreeEntries(d))] = file]
               /\ misled' = (misled \/ Ends(d) = {} \/ (k > 1 /\ Deleted(d, s[k - 1])))
  BY DEF Create
<1> PICK k : k = Min(Rooms(d, s, requested))
  OBVIOUS
<1> PICK start : start = RoomStart(d, s, k)
  OBVIOUS
<1> PICK file : file = [mark |-> "used", name |-> name, reserved |-> requested, size |-> 0,
                        start |-> start]
  OBVIOUS
<1> PICK f : f = Min(FreeEntries(d))
  OBVIOUS
<1>3. /\ Directory' = [d EXCEPT ![f] = file]
      /\ ~misled' => ~misled /\ Ends(d) # {} /\ ~(k > 1 /\ Deleted(d, s[k - 1]))
  BY <1>2
<1>4. k \in Rooms(d, s, requested) /\ k \in 1..Len(s) + 1
  <2> PICK T : T = Rooms(d, s, requested)
    OBVIOUS
  <2>1. Len(s) \in Nat
    BY <1>1, SortedOnce
  <2>2. T \subseteq 1..Len(s) + 1 /\ T # {}
    BY <1>2 DEF Rooms
  <2>3. T \subseteq Nat /\ k = Min(T)
    BY <2>1, <2>2
  <2>4. k \in T
    BY <2>2, <2>3, MinOfNaturals
  <2> QED
    BY <2>2, <2>4
<1>5. start \in Nat /\ start >= 1
  BY <1>1, <1>4, RoomStarts
<1>6. f \in FreeEntries(d) /\ f \in Slots /\ \A i \in FreeEntries(d) : f <= i
  <2> PICK T : T = FreeEntries(d)
    OBVIOUS
  <2>1. T \subseteq Slots /\ T # {}
    BY <1>1 DEF FreeEntries, Ends
  <2>2. T \subseteq Nat /\ f = Min(T)
    BY <2>1, SlotsAre
  <2>3. f \in T /\ \A i \in T : f <= i
    BY <2>1, <2>2, MinOfNaturals
  <2> QED
    BY <2>1, <2>3
<1>7. /\ file \in DirEntries /\ file.mark = "used" /\ file.size = 0 /\ file.name = name
      /\ file.start = start /\ file.reserved = requested /\ requested >= 1 /\ requested \in Nat
  <2>1. BLOCKS \in Nat
    BY BmfsAssumption
  <2>2. requested \in 0..BLOCKS /\ requested >= 1 /\ requested \in Nat /\ 0 \in Nat
    BY <2>1
  <2>3. file \in DirEntries
    BY <1>5, <2>2 DEF DirEntries
  <2> QED
    BY <2>2, <2>3
<1>8. \A i \in Slots : Used(d, i) => d[i].name # file.name
  BY <1>1, <1>7, FoundAre
<1>9. /\ Directory' \in Directories /\ EntriesOK(Directory') /\ EndsLast(Directory')
      /\ NamesDiffer(Directory')
      /\ \A i \in Slots : Directory'[i] = IF i = f THEN file ELSE d[i]
      /\ ~Used(d, f)
  <2> PICK e : e = Directory'
    OBVIOUS
  <2>1. file.start >= 1 /\ file.reserved >= 1
    BY <1>5, <1>7
  <2>2. d \in Directories /\ EntriesOK(d) /\ EndsLast(d) /\ NamesDiffer(d)
    BY <1>1
  <2>3. f \in FreeEntries(d) /\ f \in Slots
    BY <1>6
  <2>4. \A i \in FreeEntries(d) : f <= i
    BY <1>6
  <2>5. NewFile(d, file)
    BY <1>7, <1>8, <2>1 DEF NewFile
  <2>6. e \in Directories /\ \A i \in Slots : e[i] = IF i = f THEN file ELSE d[i]
    BY <1>3, <1>7, <2>2, <2>3 DEF Directories
  <2>7. \A i \in Slots : e[i] = IF i = f THEN file ELSE d[i]
    BY <2>6
  <2>8. EntriesOK(e) /\ EndsLast(e) /\ NamesDiffer(e) /\ ~Used(d, f)
    BY ONLY <2>2, <2>3, <2>4, <2>5, <2>7, WithFile
  <2> QED
    BY <2>6, <2>8
<1>10. ASSUME ~misled'
       PROVE  Placed(Directory') /\ Apart(Directory') /\ Kept(Directory', blocks')
  <2>1. Ends(d) # {} /\ (k > 1 => ~Deleted(d, s[k - 1])) /\ ~misled
    BY <1>3, <1>10
  <2>2. Placed(d) /\ Apart(d) /\ Kept(d, blocks')
    BY <1>1, <2>1 DEF DiskInv
  <2>3. /\ start + requested <= BLOCKS - 1
        /\ \A i \in Slots : Used(d, i) => \/ d[i].start + d[i].reserved <= start
                                          \/ start + requested <= d[i].start
    BY ONLY <1>1, <1>4, <2>1, <2>2, s \in Sorted(d), requested \in 1..BLOCKS,
            start = RoomStart(d, s, k), RoomIsFree
  <2> QED
    BY ONLY <1>1, <1>6, <1>7, <1>9, <2>2, <2>3, WithRoom
<1> QED
  BY <1>1, <1>9, <1>10 DEF DiskInv

LEMMA WriteKeeps ==
  ASSUME DiskInv, NEW name \in FileNames, NEW size \in 1..BLOCKS, Write(name, size)
  PROVE  DiskInv'
<1> PICK d, held : d = Directory /\ held = blocks
  OBVIOUS
<1> PICK e, kept : e = Directory' /\ kept = blocks'
  OBVIOUS
<1>1. /\ d \in Directories /\ EntriesOK(d) /\ EndsLast(d) /\ NamesDiffer(d)
      /\ DOMAIN held = 0..BLOCKS - 1 /\ held[0] \in SystemBlocks
      /\ ~misled => Placed(d) /\ Apart(d) /\ Kept(d, held)
  BY DEF DiskInv
<1>2. BLOCKS \in Nat /\ BLOCKS > 2 /\ size \in Nat
  BY BmfsAssumption
<1>3. PICK i \in Found(d, name) :
        /\ size <= d[i].reserved
        /\ kept = [b \in DOMAIN held |-> IF b \in d[i].start..d[i].start + size - 1
                                         THEN <<name, b - d[i].start>> ELSE held[b]]
        /\ e = [d EXCEPT ![i].size = size]
  BY DEF Write, HasRoom
<1>4. i \in Slots /\ Used(d, i) /\ d[i].name = name
  BY <1>1, FoundAre
<1>5. e \in Directories
  <2> PICK r : r = d[i]
    OBVIOUS
  <2>1. r \in DirEntries
    BY <1>1, <1>4, EntryFields
  <2>2. [r EXCEPT !.size = size] \in DirEntries
    BY ONLY <1>2, <2>1 DEF DirEntries
  <2>3. e = [d EXCEPT ![i] = [r EXCEPT !.size = size]]
    BY <1>3
  <2> QED
    BY <1>1, <1>4, <2>2, <2>3 DEF Directories
<1>6. \A j \in Slots : /\ e[j].mark = d[j].mark /\ e[j].name = d[j].name
                       /\ e[j].start = d[j].start /\ e[j].reserved = d[j].reserved
                       /\ e[j].size = IF j = i THEN size ELSE d[j].size
  <2> TAKE j \in Slots
  <2>1. CASE j = i
    <3>1. d[i] \in DirEntries
      BY <1>1, <1>4, EntryFields
    <3>2. e[i] = [d[i] EXCEPT !.size = size]
      BY <1>1, <1>3, <1>4 DEF Directories
    <3> QED
      BY <2>1, <3>1, <3>2 DEF DirEntries
  <2>2. CASE j # i
    BY <1>1, <1>3, <2>2 DEF Directories
  <2> QED
    BY <2>1, <2>2
<1>7. \A j \in Slots : (Used(d, j) <=> Used(e, j)) /\ (j \in Ends(d) <=> j \in Ends(e))
  BY <1>6 DEF Used, Ends
<1>8. EntriesOK(e)
  BY <1>1, <1>3, <1>6 DEF EntriesOK
<1>9. EndsLast(e)
  <2>1. Ends(d) = Ends(e)
    BY <1>7 DEF Ends
  <2> QED
    BY <1>1, <2>1 DEF EndsLast
<1>10. NamesDiffer(e)
  BY <1>1, <1>6, <1>7 DEF NamesDiffer
<1>11. d[i].start \in Nat /\ d[i].start >= 1 /\ d[i].reserved \in Nat
  <2>1. d[i].mark # "end"
    BY <1>4 DEF Used
  <2> QED
    BY <1>1, <1>4, <2>1, EntryFields DEF EntriesOK
<1>12. DOMAIN kept = 0..BLOCKS - 1 /\ kept[0] \in SystemBlocks
  <2>1. 0 \in DOMAIN held /\ 0 \notin d[i].start..d[i].start + size - 1
    BY <1>1, <1>2, <1>11
  <2>2. kept[0] = held[0] /\ DOMAIN kept = DOMAIN held
    BY <1>3, <2>1
  <2> QED
    BY <1>1, <2>2
<1>13. ASSUME ~misled PROVE Placed(e) /\ Apart(e) /\ Kept(e, kept)
  <2>1. Placed(d) /\ Apart(d) /\ Kept(d, held)
    BY <1>1, <1>13
  <2>2. Placed(e)
    BY <1>6, <1>7, <2>1 DEF Placed
  <2>3. Apart(e)
    BY <1>6, <1>7, <2>1 DEF Apart
  <2>4. Kept(e, kept)
    <3> SUFFICES ASSUME NEW j \in Slots, Used(e, j), NEW k \in 0..e[j].size - 1
                 PROVE  kept[e[j].start + k] = <<e[j].name, k>>
      BY DEF Kept
    <3>1. Used(d, j) /\ e[j].start = d[j].start /\ e[j].name = d[j].name
      BY <1>6, <1>7
    <3>2. /\ d[j].start \in Nat /\ d[j].reserved \in Nat /\ d[j].size \in Nat
          /\ d[j].size <= d[j].reserved /\ d[j].start + d[j].reserved <= BLOCKS - 1
      BY <1>1, <2>1, <3>1, EntryFields DEF EntriesOK, Placed
    <3> PICK b : b = d[j].start + k
      OBVIOUS
    <3>3. CASE j = i
      <4>1. k \in 0..size - 1
        BY <1>6, <3>3
      <4>2. b \in d[i].start..d[i].start + size - 1 /\ b \in 0..BLOCKS - 1 /\ b - d[i].start = k
        BY <1>2, <1>3, <3>2, <3>3, <4>1
      <4>3. kept[b] = <<name, b - d[i].start>>
        BY <1>1, <1>3, <4>2
      <4> QED
        BY <1>4, <3>1, <3>3, <4>2, <4>3
    <3>4. CASE j # i
      <4>1. k \in 0..d[j].size - 1
        BY <1>6, <3>4
      <4>2. \/ d[i].start + d[i].reserved <= d[j].start
            \/ d[j].start + d[j].reserved <= d[i].start
        BY <1>4, <2>1, <3>1, <3>4 DEF Apart
      <4>3. b \notin d[i].start..d[i].start + size - 1 /\ b \in 0..BLOCKS - 1
        BY <1>2, <1>3, <1>11, <3>2, <4>1, <4>2
      <4>4. kept[b] = held[b]
        BY <1>1, <1>3, <4>3
      <4>5. held[b] = <<d[j].name, k>>
        BY <2>1, <3>1, <4>1 DEF Kept
      <4> QED
        BY <3>1, <4>4, <4>5
    <3> QED
      BY <3>3, <3>4
  <2> QED
    BY <2>2, <2>3, <2>4
<1>14. misled' = misled
  BY DEF Write
<1> QED
  BY <1>5, <1>8, <1>9, <1>10, <1>12, <1>13, <1>14 DEF DiskInv

LEMMA DeleteKeeps ==
  ASSUME DiskInv, NEW name \in FileNames, Delete(name)
  PROVE  DiskInv'
<1> PICK d, e : d = Directory /\ e = Directory'
  OBVIOUS
<1>1. /\ d \in Directories /\ EntriesOK(d) /\ EndsLast(d) /\ NamesDiffer(d)
      /\ DOMAIN blocks = 0..BLOCKS - 1 /\ blocks[0] \in SystemBlocks
      /\ ~misled => Placed(d) /\ Apart(d) /\ Kept(d, blocks)
  BY DEF DiskInv
<1>2. PICK i \in Found(d, name) : e = [d EXCEPT ![i].mark = "deleted", ![i].name = ""]
  BY DEF Delete
<1>3. blocks' = blocks /\ misled' = misled
  BY DEF Delete
<1>4. i \in Slots /\ Used(d, i)
  BY <1>1, FoundAre
<1>5. e \in Directories
  <2> PICK r, noName : r = d[i] /\ noName = ""
    OBVIOUS
  <2>1. r \in DirEntries
    BY <1>1, <1>4, EntryFields
  <2>2. [r EXCEPT !.mark = "deleted", !.name = noName] \in DirEntries
    <3>1. noName \in FileNames \cup {""}
      OBVIOUS
    <3> QED
      BY ONLY <2>1, <3>1 DEF DirEntries
  <2>3. e = [d EXCEPT ![i] = [r EXCEPT !.mark = "deleted", !.name = noName]]
    BY <1>2
  <2> QED
    BY <1>1, <1>4, <2>2, <2>3 DEF Directories
<1>6. \A j \in Slots :
        /\ e[j].start = d[j].start /\ e[j].reserved = d[j].reserved /\ e[j].size = d[j].size
        /\ e[j].mark = IF j = i THEN "deleted" ELSE d[j].mark
        /\ j # i => e[j].name = d[j].name
  <2> TAKE j \in Slots
  <2>1. CASE j = i
    <3>1. d[i] \in DirEntries
      BY <1>1, <1>4, EntryFields
    <3>2. e[i] = [d[i] EXCEPT !.mark = "deleted", !.name = ""]
      BY <1>1, <1>2, <1>4 DEF Directories
    <3> QED
      BY <2>1, <3>1, <3>2 DEF DirEntries
  <2>2. CASE j # i
    BY <1>1, <1>2, <2>2 DEF Directories
  <2> QED
    BY <2>1, <2>2
<1>7. \A j \in Slots : Used(e, j) => Used(d, j) /\ e[j].name = d[j].name
  BY <1>6 DEF Used
<1>8. EntriesOK(e)
  BY <1>1, <1>4, <1>6 DEF EntriesOK, Used
<1>9. EndsLast(e)
  <2>1. Ends(d) = Ends(e)
    BY <1>4, <1>6 DEF Ends, Used
  <2> QED
    BY <1>1, <2>1 DEF EndsLast
<1>10. NamesDiffer(e)
  BY <1>1, <1>7 DEF NamesDiffer
<1>11. ASSUME ~misled PROVE Placed(e) /\ Apart(e) /\ Kept(e, blocks)
  <2>1. Placed(d) /\ Apart(d) /\ Kept(d, blocks)
    BY <1>1, <1>11
  <2>2. Placed(e)
    BY <1>6, <1>7, <2>1 DEF Placed
  <2>3. Apart(e)
    BY <1>6, <1>7, <2>1 DEF Apart
  <2>4. Kept(e, blocks)
    BY <1>6, <1>7, <2>1 DEF Kept
  <2> QED
    BY <2>2, <2>3, <2>4
<1> QED
  BY <1>1, <1>3, <1>5, <1>8, <1>9, <1>10, <1>11 DEF DiskInv

LEMMA EmptyKeeps ==
  ASSUME Directory' = [i \in Slots |-> END], DOMAIN blocks' = 0..BLOCKS - 1,
         blocks'[0] \in SystemBlocks
  PROVE  DiskInv'
<1> PICK d, held : d = Directory' /\ held = blocks'
  OBVIOUS
<1>1. d = [i \in Slots |-> END]
  OBVIOUS
<1>2. /\ d \in Directories /\ EntriesOK(d) /\ EndsLast(d) /\ NamesDiffer(d)
      /\ Placed(d) /\ Apart(d) /\ Kept(d, held)
  BY ONLY <1>1, EmptyIsSound
<1> QED
  BY <1>2 DEF DiskInv

LEMMA FormatKeeps ==
  ASSUME DiskInv, Format \/ Initialize
  PROVE  DiskInv'
<1>1. Directory' = [i \in Slots |-> END]
  BY DEF Format, Initialize
<1>2. DOMAIN blocks = 0..BLOCKS - 1 /\ blocks[0] \in SystemBlocks /\ 0 \in DOMAIN blocks
  BY BmfsAssumption DEF DiskInv
<1>3. DOMAIN blocks' = 0..BLOCKS - 1 /\ blocks'[0] \in SystemBlocks
  BY <1>2 DEF Format, Initialize, SystemBlocks
<1> QED
  BY <1>1, <1>3, EmptyKeeps

LEMMA DiskStarts == BmfsInit => DiskInv
<1> SUFFICES ASSUME BmfsInit PROVE DiskInv
  OBVIOUS
<1> PICK d, held : d = Directory /\ held = blocks
  OBVIOUS
<1>1. d = [i \in Slots |-> END]
  BY DEF BmfsInit
<1>2. /\ d \in Directories /\ EntriesOK(d) /\ EndsLast(d) /\ NamesDiffer(d)
      /\ Placed(d) /\ Apart(d) /\ Kept(d, held)
  BY ONLY <1>1, EmptyIsSound
<1>3. DOMAIN held = 0..BLOCKS - 1 /\ held[0] \in SystemBlocks
  BY BmfsAssumption DEF BmfsInit, SystemBlocks
<1> QED
  BY <1>2, <1>3 DEF DiskInv

LEMMA DiskSteps == DiskInv /\ [BmfsNext]_bmfsVars => DiskInv'
<1> SUFFICES ASSUME DiskInv, [BmfsNext]_bmfsVars PROVE DiskInv'
  OBVIOUS
<1>1. CASE Format \/ Initialize
  BY <1>1, FormatKeeps
<1>2. CASE \E name \in FileNames, n \in 1..BLOCKS : Create(name, n)
  BY <1>2, CreateKeeps
<1>3. CASE \E name \in FileNames, n \in 1..BLOCKS : Write(name, n)
  BY <1>3, WriteKeeps
<1>4. CASE \E name \in FileNames : Delete(name)
  BY <1>4, DeleteKeeps
<1>5. CASE UNCHANGED bmfsVars
  <2>1. Directory' = Directory /\ blocks' = blocks /\ misled' = misled
    BY <1>5 DEF bmfsVars
  <2> QED
    BY <2>1 DEF DiskInv
<1> QED
  BY <1>1, <1>2, <1>3, <1>4, <1>5 DEF BmfsNext

(* The invariant of the disk: its directory ends once, no two files have   *)
(* a name, and unless create was misled they lie apart with their contents.*)
THEOREM DiskInvariance == BmfsSpec => []DiskInv
<1> QED
  BY DiskStarts, DiskSteps, PTL DEF BmfsSpec

LEMMA DiskInvIsSound == DiskInv => DiskSound
<1> SUFFICES ASSUME DiskInv PROVE DiskSound
  OBVIOUS
<1> PICK d : d = Directory
  OBVIOUS
<1>1. /\ d \in Directories /\ EntriesOK(d) /\ EndsLast(d) /\ NamesDiffer(d)
      /\ DOMAIN blocks = 0..BLOCKS - 1 /\ blocks[0] \in SystemBlocks
      /\ ~misled => Placed(d) /\ Apart(d) /\ Kept(d, blocks)
  BY DEF DiskInv
<1>2. BmfsTypeOK
  BY <1>1, EntryFields DEF BmfsTypeOK, EntriesOK
<1>3. EveryFileIsFound
  <2>1. ASSUME NEW i \in Slots, Used(d, i) PROVE Found(d, d[i].name) = {i}
    BY <1>1, <2>1, FoundAre DEF NamesDiffer
  <2>2. ASSUME NEW i \in Ends(d), NEW j \in i..ENTRIES - 1 PROVE j \in Ends(d)
    <3>1. i \in Nat /\ i \in Slots
      BY SlotsAre DEF Ends
    <3>2. j \in Slots /\ i <= j
      BY <3>1, BmfsAssumption DEF Slots
    <3> QED
      BY <1>1, <3>2 DEF EndsLast
  <2> QED
    BY <2>1, <2>2 DEF EveryFileIsFound
<1>4. ContentsKept
  <2> SUFFICES ASSUME ~misled
               PROVE  /\ FilesApart
                      /\ \A i \in Listed(Directory) : \A k \in 0..Directory[i].size - 1 :
                            blocks[Directory[i].start + k] = <<Directory[i].name, k>>
                      /\ blocks[0] \in SystemBlocks
    BY DEF ContentsKept, SystemBlocks
  <2>1. Listed(d) = {i \in Slots : Used(d, i)}
    BY <1>1, FoundAre
  <2>2. FilesApart
    <3> SUFFICES ASSUME NEW i \in Listed(d), NEW j \in Listed(d), i # j PROVE ~Overlap(i, j)
      BY DEF FilesApart
    <3>1. \/ d[i].start + d[i].reserved <= d[j].start
          \/ d[j].start + d[j].reserved <= d[i].start
      BY <1>1, <2>1 DEF Apart
    <3>2. /\ d[i].start \in Nat /\ d[i].reserved \in Nat
          /\ d[j].start \in Nat /\ d[j].reserved \in Nat
      BY <1>1, <2>1, EntryFields
    <3> QED
      BY <3>1, <3>2 DEF Overlap
  <2> QED
    BY <1>1, <2>1, <2>2 DEF Kept
<1> QED
  BY <1>2, <1>3, <1>4 DEF DiskSound

(* The disk stays sound: every file is found, once, and unless create was  *)
(* misled what is written to a file stays in it.                           *)
THEOREM DiskStaysSound == BmfsSpec => []DiskSound
<1> QED
  BY DiskInvariance, DiskInvIsSound, PTL

=============================================================================
