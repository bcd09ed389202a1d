--------------------------- MODULE ProcessesProofs ---------------------------
(***************************************************************************)
(* Proofs about the process table: for any number of processes and any     *)
(* creators, waiters and arguments, the process table, the scheduler's     *)
(* table and the family tree never disagree, and the waits of a parent end *)
(* when, and only when, they should.                                       *)
(*                                                                         *)
(* ProcInv is inductive.  It is the conjunction of the scheduler's         *)
(* invariant, the types, the agreement of the tables and the family tree;  *)
(* each needs the others: a process is put in a free slot of the           *)
(* scheduler because the tables agree, and kill moves a whole family       *)
(* because childrenArr and the parent fields say the same.                 *)
(***************************************************************************)
EXTENDS Processes, SchedulerProofs

Family == [children : SUBSET PIDS, numberOfChildren : Int]

ProcTypes ==
    /\ processArr \in [PIDS -> ProcessS]
    /\ families \in [PIDS -> Family]
    /\ waitFor \in [PIDS -> PIDS \cup {NOBODY, ANY_CHILD}]
    /\ eof \subseteq Pipes

ProcInv == SchedInv(sched) /\ ProcTypes /\ TablesAgree /\ FamilyTree

USE DEF NOBODY, ANY_CHILD, PID_KERNEL, NO_PROC, NULL, MIN_PRIORITY

-----------------------------------------------------------------------------
(* What the invariant says of single processes.                            *)

(* The used slots are those the scheduler has a stack for.                 *)
LEMMA UsedAreAlive ==
  ASSUME ProcInv
  PROVE  /\ Used \subseteq PIDS /\ 0 \in Used /\ 0 \in PIDS
         /\ \A p \in PIDS : p \in Used <=> sched.rsp[p] # NULL
         /\ \A p \in PIDS : p \in Used <=> Alive(sched, p)
         /\ Current \in PIDS => Current \in Used
<1>1. Used \subseteq PIDS /\ 0 \in Used
  BY DEF ProcInv, FamilyTree, OneTree, Used
<1>2. \A p \in PIDS : p \in Used <=> Alive(sched, p)
  BY DEF ProcInv, TablesAgree
<1>3. Current \in PIDS => Alive(sched, Current)
  BY DEF ProcInv, SchedInv, CurrentHasCpu, Current
<1> QED
  BY <1>1, <1>2, <1>3 DEF Alive

(* The process on the CPU, or its absence, is an integer.                  *)
LEMMA CurrentIsInt ==
  ASSUME ProcInv
  PROVE  Current \in Int /\ Current \in PIDS \cup {PID_KERNEL, NO_PROC}
<1>1. Current \in PIDS \cup {PID_KERNEL, NO_PROC}
  BY DEF ProcInv, SchedInv, SchedStates, Current
<1> QED
  BY <1>1 DEF PIDS

(* The fields of an entry of the process table.                            *)
LEMMA EntryFields ==
  ASSUME NEW r \in ProcessS
  PROVE  /\ r.used \in BOOLEAN /\ r.fg \in BOOLEAN
         /\ r.parent \in PIDS \cup {PID_KERNEL}
         /\ r.input \in Channels /\ r.output \in Channels
  BY DEF ProcessS

(* The parent field can be passed to the scheduler.                        *)
LEMMA ParentIsInt ==
  ASSUME ProcInv, NEW p \in Used
  PROVE  p \in PIDS /\ processArr[p].parent \in Int
<1>1. p \in PIDS /\ processArr[p] \in ProcessS
  BY DEF ProcInv, ProcTypes, Used
<1>2. processArr[p].parent \in PIDS \cup {PID_KERNEL}
  BY <1>1, EntryFields
<1> QED
  BY <1>1, <1>2 DEF PIDS

(* A child is a process other than the shell and other than its parent.    *)
LEMMA ChildrenAreUsed ==
  ASSUME ProcInv, NEW p \in PIDS
  PROVE  /\ Children(p) \subseteq Used \ {0, p}
         /\ IsFiniteSet(Children(p))
         /\ Children(p) # {} => p \in Used
         /\ \A i \in PIDS : i \in Children(p) <=> i \in Used \ {0} /\ processArr[i].parent = p
<1>1. \A i \in PIDS : i \in Children(p) <=> i \in Used \ {0} /\ processArr[i].parent = p
  BY DEF ProcInv, FamilyTree, FamiliesMatchParents
<1>2. Children(p) \subseteq PIDS
  BY DEF ProcInv, ProcTypes, Family, Children
<1>3. p \notin Children(p)
  <2>1. SUFFICES ASSUME p \in Children(p) PROVE FALSE
    OBVIOUS
  <2>2. p \in Used \ {0} /\ processArr[p].parent = p
    BY <1>1, <2>1
  <2>3. {p} \in (SUBSET (Used \ {0})) \ {{}}
    BY <2>2
  <2>4. \E i \in {p} : processArr[i].parent \notin {p}
    BY <2>3, Zenon DEF ProcInv, FamilyTree, OneTree
  <2> QED
    BY <2>2, <2>4
<1>4. \A i \in Children(p) : i \in Used \ {0} /\ processArr[i].parent \in Used
  BY <1>1, <1>2 DEF ProcInv, FamilyTree, OneTree
<1> QED
  BY <1>1, <1>2, <1>3, <1>4, SetsOfPids

-----------------------------------------------------------------------------
(* The scheduler's part of a death: the parent is unblocked when no other  *)
(* child is in the foreground, then the dead lose their stacks.            *)

(* What remove_child and process_was_killed leave behind in s, seen from   *)
(* the state before.                                                       *)
Buried(s, dead) ==
    /\ SchedInv(s)
    /\ \A q \in PIDS : s.rsp[q] = NULL <=> sched.rsp[q] = NULL \/ q \in dead
    /\ \A q \in PIDS \ dead : Awake(sched, q) => Awake(s, q)

(* Unblocking leaves a state that is the same for all the properties here. *)
LEMMA UnblockQuiet ==
  ASSUME NEW s, SchedInv(s), NEW p \in Int
  PROVE  /\ SchedInv(Unblock(s, p))
         /\ SameStacks(s, Unblock(s, p))
         /\ \A q \in PIDS : Awake(s, q) => Awake(Unblock(s, p), q)
         /\ p \in PIDS /\ s.rsp[p] # NULL => Awake(Unblock(s, p), p)
<1>1. \A q \in PIDS \ {p} : Awake(s, q) => Awake(Unblock(s, p), q)
  BY UnblockKeeps DEF Awake
<1>2. p \in PIDS /\ Awake(s, p) => Awake(Unblock(s, p), p)
  BY UnblockKeeps DEF Unblock, Awake
<1> QED
  BY <1>1, <1>2, UnblockInv, UnblockKeeps DEF Alive

LEMMA KillBuries ==
  ASSUME NEW s, SchedInv(s), SameStacks(sched, s), NEW dead \in SUBSET PIDS,
         \A q \in PIDS : Awake(sched, q) => Awake(s, q)
  PROVE  Buried(ProcessWasKilled(s, dead), dead)
<1>1. SchedInv(ProcessWasKilled(s, dead))
  BY KilledInv
<1> QED
  BY <1>1, KillKeeps DEF Buried, SameStacks, Awake

(* kill.                                                                   *)
LEMMA KillOneBuries ==
  ASSUME ProcInv, NEW p \in Used
  PROVE  /\ Buried(KillOne(sched, p), {p})
         /\ LET parent == processArr[p].parent
            IN  parent \in PIDS \ {p} /\ sched.rsp[parent] # NULL
                /\ (~\E i \in Children(parent) \ {p} : processArr[i].fg)
                  => Awake(KillOne(sched, p), parent)
<1> DEFINE parent == processArr[p].parent
           s == RemoveChild(sched, p)
<1>1. p \in PIDS /\ parent \in Int /\ SchedInv(sched)
  BY ParentIsInt DEF ProcInv
<1>2. /\ SchedInv(s) /\ SameStacks(sched, s)
      /\ \A q \in PIDS : Awake(sched, q) => Awake(s, q)
      /\ parent \in PIDS /\ sched.rsp[parent] # NULL
           /\ (~\E i \in Children(parent) \ {p} : processArr[i].fg)
           => Awake(s, parent)
  BY <1>1, UnblockQuiet DEF RemoveChild, SameStacks
<1>3. KillOne(sched, p) = ProcessWasKilled(s, {p})
  BY DEF KillOne
<1> HIDE DEF s
<1>4. Buried(KillOne(sched, p), {p})
  BY <1>1, <1>2, <1>3, KillBuries
<1>5. \A q \in PIDS \ {p} : Awake(s, q) => Awake(KillOne(sched, p), q)
  BY <1>1, <1>2, <1>3, KillKeeps DEF Awake
<1> QED
  BY <1>2, <1>4, <1>5

(* kill_with_children.                                                     *)
LEMMA KillFamilyBuries ==
  ASSUME ProcInv, NEW p \in Used
  PROVE  /\ Buried(KillFamily(sched, p), {p} \cup Children(p))
         /\ LET parent == processArr[p].parent
            IN  parent \in PIDS \ ({p} \cup Children(p)) /\ sched.rsp[parent] # NULL
                /\ (~\E i \in Children(parent) \ {p} : processArr[i].fg)
                  => Awake(KillFamily(sched, p), parent)
<1> DEFINE parent == processArr[p].parent
           dead == {p} \cup Children(p)
           s == RemoveChild(sched, p)
           r == IF Children(p) # {} THEN Unblock(s, p) ELSE s
<1>1. p \in PIDS /\ parent \in Int /\ SchedInv(sched) /\ dead \in SUBSET PIDS
  BY ParentIsInt, ChildrenAreUsed, UsedAreAlive DEF ProcInv
<1>2. /\ SchedInv(s) /\ SameStacks(sched, s)
      /\ \A q \in PIDS : Awake(sched, q) => Awake(s, q)
      /\ parent \in PIDS /\ sched.rsp[parent] # NULL
           /\ (~\E i \in Children(parent) \ {p} : processArr[i].fg)
           => Awake(s, parent)
  BY <1>1, UnblockQuiet DEF RemoveChild, SameStacks
<1> HIDE DEF s
<1>3. SchedInv(r) /\ SameStacks(sched, r) /\ \A q \in PIDS : Awake(s, q) => Awake(r, q)
  <2>1. p \in Int
    BY <1>1 DEF PIDS
  <2> QED
    BY <1>2, <2>1, UnblockQuiet DEF SameStacks
<1>4. KillFamily(sched, p) = ProcessWasKilled(r, dead)
  BY DEF KillFamily, s
<1> HIDE DEF r, dead
<1>5. Buried(KillFamily(sched, p), dead)
  BY <1>1, <1>2, <1>3, <1>4, KillBuries
<1>6. \A q \in PIDS \ dead : Awake(r, q) => Awake(KillFamily(sched, p), q)
  BY <1>1, <1>3, <1>4, KillKeeps DEF Awake
<1> QED
  BY <1>2, <1>3, <1>5, <1>6 DEF dead

-----------------------------------------------------------------------------
(* The tables' part of a death.                                            *)

(* An orphan is a surviving process whose parent dies.                     *)
LEMMA OrphansLostParent ==
  ASSUME ProcInv, NEW dead \in SUBSET Used
  PROVE  /\ Orphans(dead) \subseteq PIDS
         /\ \A i \in PIDS : i \in Orphans(dead)
              <=> i \in Used \ {0} /\ i \notin dead /\ processArr[i].parent \in dead
<1>1. dead \subseteq PIDS
  BY UsedAreAlive
<1>2. \A i : i \in Orphans(dead) <=> i \notin dead /\ \E d \in dead : i \in Children(d)
  BY DEF Orphans
<1>3. \A d \in dead : Children(d) \subseteq PIDS
  BY <1>1, ChildrenAreUsed, UsedAreAlive
<1>4. \A d \in dead, i \in PIDS :
        i \in Children(d) <=> i \in Used \ {0} /\ processArr[i].parent = d
  BY <1>1, ChildrenAreUsed
<1> QED
  BY <1>2, <1>3, <1>4

(* The process table afterwards.                                           *)
LEMMA BuryEntries ==
  ASSUME ProcInv, NEW dead \in SUBSET (Used \ {0}), Bury(dead)
  PROVE  /\ processArr' \in [PIDS -> ProcessS]
         /\ Used' = Used \ dead
         /\ \A i \in Used \ dead :
              /\ processArr'[i].parent = IF processArr[i].parent \in dead /\ i # 0
                                         THEN 0 ELSE processArr[i].parent
              /\ processArr'[i].output = processArr[i].output
<1>1. processArr \in [PIDS -> ProcessS] /\ Used \subseteq PIDS /\ 0 \in PIDS
  BY UsedAreAlive DEF ProcInv, ProcTypes
<1>2. Free \in ProcessS
  BY <1>1 DEF Free, ProcessS, Channels, STDIN, STDOUT, STDERR
<1>3. ASSUME NEW r \in ProcessS
      PROVE  /\ [r EXCEPT !.parent = 0] \in ProcessS
             /\ [r EXCEPT !.parent = 0].parent = 0
             /\ [r EXCEPT !.parent = 0].used = r.used
             /\ [r EXCEPT !.parent = 0].output = r.output
  BY <1>1 DEF ProcessS
<1>4. ASSUME NEW i \in PIDS
      PROVE  /\ AfterDeath(i, dead) \in ProcessS
             /\ AfterDeath(i, dead).used <=> i \in Used \ dead
             /\ i \in Used \ dead =>
                  /\ AfterDeath(i, dead).parent = IF processArr[i].parent \in dead /\ i # 0
                                                  THEN 0 ELSE processArr[i].parent
                  /\ AfterDeath(i, dead).output = processArr[i].output
  <2>1. processArr[i] \in ProcessS /\ (i \in Used <=> processArr[i].used)
    BY <1>1 DEF Used
  <2>2. i \in Orphans(dead)
          <=> i \in Used \ {0} /\ i \notin dead /\ processArr[i].parent \in dead
    BY OrphansLostParent
  <2>3. CASE i \in dead
    BY <2>3, <1>2 DEF AfterDeath, Free
  <2>4. CASE i \in Orphans(dead)
    BY <2>1, <2>2, <2>4, <1>3 DEF AfterDeath
  <2>5. CASE i \notin dead /\ i \notin Orphans(dead)
    BY <2>1, <2>2, <2>5 DEF AfterDeath
  <2> QED
    BY <2>3, <2>4, <2>5
<1>5. processArr' = [i \in PIDS |-> AfterDeath(i, dead)]
  BY DEF Bury
<1>6. processArr' \in [PIDS -> ProcessS] /\ \A i \in PIDS : processArr'[i] = AfterDeath(i, dead)
  BY <1>4, <1>5
<1>7. Used' = Used \ dead
  BY <1>1, <1>4, <1>6 DEF Used
<1> QED
  BY <1>1, <1>4, <1>6, <1>7

(* The family tree afterwards.                                             *)
LEMMA BuryFamilies ==
  ASSUME ProcInv, NEW dead \in SUBSET (Used \ {0}), Bury(dead)
  PROVE  families' \in [PIDS -> Family] /\ FamilyTree'
<1>1. Used \subseteq PIDS /\ 0 \in Used /\ Used' = Used \ dead
  BY UsedAreAlive, BuryEntries
<1>2. /\ Orphans(dead) \subseteq PIDS
      /\ \A i \in PIDS : i \in Orphans(dead)
           <=> i \in Used \ {0} /\ i \notin dead /\ processArr[i].parent \in dead
  BY <1>1, OrphansLostParent
<1>3. ASSUME NEW p \in PIDS
      PROVE  /\ FamilyAfter(p, dead) \in Family
             /\ FamilyAfter(p, dead).children
                  = (Children(p) \ Lost(p, dead)) \cup Adopted(p, dead)
             /\ FamilyAfter(p, dead).numberOfChildren
                  = Cardinality(FamilyAfter(p, dead).children)
  <2>1. /\ Children(p) \subseteq PIDS /\ IsFiniteSet(Children(p))
        /\ \A i \in Children(p) : processArr[i].parent = p
    BY <1>1, ChildrenAreUsed
  <2>2. /\ Lost(p, dead) \subseteq Children(p)
        /\ Adopted(p, dead) \subseteq Orphans(dead)
        /\ Children(p) \cap Adopted(p, dead) = {}
    <3>1. Lost(p, dead) \subseteq Children(p) /\ Adopted(p, dead) \subseteq Orphans(dead)
      BY DEF Lost, Adopted
    <3>2. ASSUME NEW i \in Children(p), i \in Adopted(p, dead) PROVE FALSE
      <4>1. p = 0 /\ i \in Orphans(dead)
        BY <3>2 DEF Adopted
      <4>2. processArr[i].parent \in dead
        BY <4>1, <1>2
      <4> QED
        BY <4>1, <4>2, <2>1
    <3> QED
      BY <3>1, <3>2
  <2>3. IsFiniteSet(Adopted(p, dead)) /\ Cardinality(Adopted(p, dead)) \in Nat
    BY <1>2, <2>2, SetsOfPids
  <2>4. families[p].numberOfChildren = Cardinality(Children(p))
    BY DEF ProcInv, FamilyTree, FamiliesMatchParents
  <2>5. Children(p) \cap Lost(p, dead) = Lost(p, dead)
    BY <2>2
  <2>6. /\ IsFiniteSet(Children(p) \ Lost(p, dead))
        /\ Cardinality(Children(p) \ Lost(p, dead))
             = Cardinality(Children(p)) - Cardinality(Lost(p, dead))
    BY <2>1, <2>5, FS_Difference
  <2>7. Cardinality((Children(p) \ Lost(p, dead)) \cup Adopted(p, dead))
          = Cardinality(Children(p) \ Lost(p, dead)) + Cardinality(Adopted(p, dead))
              - Cardinality((Children(p) \ Lost(p, dead)) \cap Adopted(p, dead))
    BY <2>3, <2>6, FS_Union
  <2>8. (Children(p) \ Lost(p, dead)) \cap Adopted(p, dead) = {}
    BY <2>2
  <2>9. /\ Cardinality(Children(p)) \in Nat /\ Cardinality(Lost(p, dead)) \in Nat
        /\ Cardinality({}) = 0
    BY <2>1, <2>2, FS_Subset, FS_CardinalityType, FS_EmptySet
  <2>10. families[p].numberOfChildren - Cardinality(Lost(p, dead)) + Cardinality(Adopted(p, dead))
           = Cardinality((Children(p) \ Lost(p, dead)) \cup Adopted(p, dead))
    BY <2>3, <2>4, <2>6, <2>7, <2>8, <2>9
  <2> QED
    BY <1>2, <2>1, <2>2, <2>3, <2>4, <2>9, <2>10 DEF FamilyAfter, Family
<1>4. families' \in [PIDS -> Family] /\ \A p \in PIDS : families'[p] = FamilyAfter(p, dead)
  BY <1>3 DEF Bury
<1>5. \A p \in PIDS : Children(p)' = (Children(p) \ Lost(p, dead)) \cup Adopted(p, dead)
  BY <1>3, <1>4 DEF Children
<1>6. ASSUME NEW p \in PIDS, NEW i \in PIDS
      PROVE  i \in Children(p)' <=> (i \in Used' \ {0} /\ processArr'[i].parent = p)
  <2>1. i \in Children(p) <=> i \in Used \ {0} /\ processArr[i].parent = p
    BY ChildrenAreUsed
  <2>2. i \in Children(p)' <=> \/ i \in Children(p) /\ p \notin dead /\ i \notin dead
                               \/ p = 0 /\ i \in Orphans(dead)
    BY <1>5 DEF Lost, Adopted
  <2>3. i \in Used \ dead => processArr'[i].parent = IF processArr[i].parent \in dead /\ i # 0
                                                     THEN 0 ELSE processArr[i].parent
    BY BuryEntries
  <2> QED
    BY <1>1, <1>2, <2>1, <2>2, <2>3
<1>7. FamiliesMatchParents'
  BY <1>3, <1>4, <1>6 DEF FamiliesMatchParents, Children
<1>8. \A i \in Used \ {0} : processArr[i].parent \in Used
  BY DEF ProcInv, FamilyTree, OneTree
<1>9. OneTree'
  <2>1. 0 \in Used'
    BY <1>1
  <2>2. \A i \in Used' \ {0} : processArr'[i].parent \in Used'
    BY <1>1, <1>8, BuryEntries
  <2>3. ASSUME NEW S \in (SUBSET (Used' \ {0})) \ {{}}
        PROVE  \E i \in S : processArr'[i].parent \notin S
    <3>1. S \in (SUBSET (Used \ {0})) \ {{}} /\ S \cap dead = {}
      BY <1>1
    <3>2. PICK i \in S : processArr[i].parent \notin S
      BY <3>1, Zenon DEF ProcInv, FamilyTree, OneTree
    <3>3. i \in Used \ dead
      BY <3>1
    <3> QED
      BY <3>1, <3>2, <3>3, BuryEntries
  <2> QED
    BY <2>1, <2>2, <2>3 DEF OneTree
<1> QED
  BY <1>4, <1>7, <1>9 DEF FamilyTree

(* Burying keeps the invariant, whatever the scheduler does beside it.     *)
LEMMA BuryInv ==
  ASSUME ProcInv, NEW dead \in SUBSET (Used \ {0}), Bury(dead), eof' \subseteq Pipes,
         SchedInv(sched'),
         \A q \in PIDS : sched'.rsp[q] = NULL <=> sched.rsp[q] = NULL \/ q \in dead
  PROVE  ProcInv'
<1>1. Used' = Used \ dead /\ processArr' \in [PIDS -> ProcessS]
  BY BuryEntries
<1>2. waitFor \in [PIDS -> PIDS \cup {NOBODY, ANY_CHILD}]
  BY DEF ProcInv, ProcTypes
<1>3. waitFor' = [p \in PIDS |-> IF p \in dead THEN NOBODY ELSE waitFor[p]]
  BY DEF Bury
<1>4. waitFor' \in [PIDS -> PIDS \cup {NOBODY, ANY_CHILD}]
  BY <1>2, <1>3
<1>5. ProcTypes'
  BY <1>1, <1>4, BuryFamilies DEF ProcTypes
<1>6. \A p \in PIDS : p \in Used' <=> Alive(sched', p)
  BY <1>1, UsedAreAlive DEF Alive
<1>7. lastPID' = Cardinality(Used')
  <2>1. IsFiniteSet(Used) /\ Used \cap dead = dead
    BY UsedAreAlive, SetsOfPids
  <2>2. Cardinality(Used \ dead) = Cardinality(Used) - Cardinality(dead)
    BY <2>1, FS_Difference
  <2> QED
    BY <1>1, <2>2 DEF Bury, ProcInv, TablesAgree
<1>8. \A p \in PIDS : waitFor'[p] # NOBODY => p \in Used'
  BY <1>1, <1>3 DEF ProcInv, TablesAgree
<1>9. TablesAgree'
  BY <1>6, <1>7, <1>8 DEF TablesAgree
<1> QED
  BY <1>5, <1>9, BuryFamilies DEF ProcInv

-----------------------------------------------------------------------------
(* The steps.                                                              *)

GoodProcStep == ProcInv' /\ DeathWakesParentStep /\ WaitsToTheEndStep

(* Steps that leave the process table alone.                               *)
LEMMA QuietProcStep ==
  ASSUME ProcInv, UNCHANGED procVars, SchedInv(sched'), SameStacks(sched, sched'),
         waitFor' \in [PIDS -> PIDS \cup {NOBODY, ANY_CHILD}],
         \A p \in PIDS : waitFor'[p] # waitFor[p] =>
              p \in Used /\ (waitFor[p] \in PIDS => waitFor[p] \notin Used)
  PROVE  GoodProcStep
<1>1. Used' = Used /\ \A p \in PIDS : Children(p)' = Children(p)
  BY DEF procVars, Used, Children
<1>2. ProcTypes'
  BY DEF ProcInv, ProcTypes, procVars
<1>3. FamilyTree'
  BY <1>1 DEF ProcInv, FamilyTree, FamiliesMatchParents, OneTree, procVars
<1>4. TablesAgree'
  <2>1. \A p \in PIDS : p \in Used' <=> Alive(sched', p)
    BY <1>1, UsedAreAlive DEF SameStacks, Alive
  <2>2. \A p \in PIDS : waitFor'[p] # NOBODY => p \in Used'
    BY <1>1 DEF ProcInv, TablesAgree
  <2> QED
    BY <1>1, <2>1, <2>2 DEF ProcInv, TablesAgree, procVars
<1>5. DeathWakesParentStep
  BY DEF DeathWakesParentStep, procVars, Used
<1>6. WaitsToTheEndStep
  BY DEF WaitsToTheEndStep
<1> QED
  BY <1>2, <1>3, <1>4, <1>5, <1>6 DEF GoodProcStep, ProcInv

(* Steps that kill p, alone or with its children, perhaps yielding after.  *)
LEMMA DeathStep ==
  ASSUME ProcInv, NEW p \in Used \ {0}, NEW dead, dead \in {{p}, {p} \cup Children(p)},
         NEW s, Buried(s, dead), sched' \in {s, YieldCpu(s)},
         LET parent == processArr[p].parent
         IN  parent \in PIDS \ dead /\ sched.rsp[parent] # NULL
             /\ (~\E i \in Children(parent) \ {p} : processArr[i].fg)
               => Awake(s, parent),
         Bury(dead), eof' \subseteq Pipes
  PROVE  GoodProcStep
<1>1. p \in PIDS /\ Used \subseteq PIDS
  BY UsedAreAlive
<1>2. dead \in SUBSET (Used \ {0}) /\ p \in dead
  BY <1>1, ChildrenAreUsed
<1>3. SchedInv(s)
  BY DEF Buried
<1>4. SchedInv(sched') /\ SameStacks(s, sched') /\ SameAwake(s, sched')
  <2>1. SchedInv(YieldCpu(s))
    BY <1>3, YieldInv
  <2> QED
    BY <2>1, <1>3, YieldKeeps DEF SameStacks, SameAwake
<1>5. ProcInv'
  <2>1. \A q \in PIDS : sched'.rsp[q] = NULL <=> sched.rsp[q] = NULL \/ q \in dead
    BY <1>4 DEF SameStacks, Buried
  <2> QED
    BY <2>1, <1>2, <1>4, BuryInv
<1>6. /\ Used' = Used \ dead
      /\ \A q \in Used : processArr'[q].used <=> q \notin dead
  <2>1. Used' = Used \ dead
    BY <1>2, BuryEntries
  <2> QED
    BY <2>1, <1>1 DEF Used
<1>7. DeathWakesParentStep
  <2> SUFFICES ASSUME NEW q \in Used, NEW r \in Used,
                      ~processArr'[q].used, processArr'[r].used,
                      processArr[q].parent = r,
                      ~\E i \in Children(r) \ {q} : processArr[i].fg
               PROVE  sched'.status[r] \in {"READY", "RUNNING"}
    BY DEF DeathWakesParentStep
  <2>1. q \in dead /\ r \notin dead /\ r \in PIDS
    BY <1>1, <1>6
  <2>2. q = p
    BY <1>1, <1>2, <2>1, ChildrenAreUsed
  <2>3. sched.rsp[r] # NULL
    BY <2>1, UsedAreAlive
  <2>4. Awake(s, r)
    BY <2>1, <2>2, <2>3
  <2> QED
    BY <1>4, <2>1, <2>4 DEF SameAwake, Awake
<1>8. WaitsToTheEndStep
  <2> SUFFICES ASSUME NEW q \in PIDS, waitFor'[q] # waitFor[q], processArr'[q].used
               PROVE  FALSE
    BY DEF WaitsToTheEndStep
  <2>1. waitFor'[q] = IF q \in dead THEN NOBODY ELSE waitFor[q]
    BY DEF Bury
  <2> QED
    BY <2>1, <1>2, <1>6
<1> QED
  BY <1>5, <1>7, <1>8 DEF GoodProcStep

(* Every pid that SignalEof adds is that of a pipe.                        *)
LEMMA SignalsPipes ==
  ASSUME ProcInv, NEW dying, SignalEof(dying)
  PROVE  eof' \subseteq Pipes
  BY DEF ProcInv, ProcTypes, SignalEof

LEMMA SysKillStep ==
  ASSUME ProcInv, NEW p \in PIDS, SysKill(p)
  PROVE  GoodProcStep
<1>1. p \in Used \ {0} /\ sched' = KillOne(sched, p) /\ Bury({p}) /\ SignalEof({p})
  BY DEF SysKill, Killable, Find
<1> QED
  BY <1>1, KillOneBuries, DeathStep, SignalsPipes

LEMMA ExitProcessStep ==
  ASSUME ProcInv, ExitProcess
  PROVE  GoodProcStep
<1>1. CASE Killable(Current)
  <2>1. /\ Current \in Used \ {0} /\ sched' = YieldCpu(KillOne(sched, Current))
        /\ Bury({Current}) /\ SignalEof({Current})
    BY <1>1 DEF ExitProcess, Killable, Find
  <2> QED
    BY <2>1, KillOneBuries, DeathStep, SignalsPipes
<1>2. CASE ~Killable(Current)
  <2>1. sched' = YieldCpu(sched) /\ UNCHANGED <<procVars, waitFor>> /\ SchedInv(sched)
    BY <1>2 DEF ExitProcess, ProcInv
  <2>2. SchedInv(sched') /\ SameStacks(sched, sched')
    BY <2>1, YieldInv, YieldKeeps
  <2> QED
    BY <2>1, <2>2, QuietProcStep DEF ProcInv, ProcTypes
<1> QED
  BY <1>1, <1>2

LEMMA KeyboardInterruptStep ==
  ASSUME ProcInv, KeyboardInterrupt
  PROVE  GoodProcStep
<1> DEFINE foreground == {q \in Used \ {0} : processArr[q].fg}
           p == Min(foreground)
<1>1. foreground # {} /\ foreground \subseteq Nat
  BY UsedAreAlive DEF KeyboardInterrupt, PIDS
<1>2. p \in Used \ {0}
  <2>1. p \in foreground
    <3> HIDE DEF foreground
    <3> QED  BY <1>1, MinOfNaturals
  <2> QED
    BY <2>1
<1>3. /\ sched' = KillFamily(sched, p) /\ Bury({p} \cup Children(p))
      /\ SignalEof(Children(p))
  BY DEF KeyboardInterrupt
<1> HIDE DEF p
<1> QED
  BY <1>2, <1>3, KillFamilyBuries, DeathStep, SignalsPipes

(* A turn of wait_for_pid's loop by a process that waits for q already, or *)
(* for nobody.                                                             *)
LEMMA WaitTurnStep ==
  ASSUME ProcInv, NEW q \in PIDS, WaitTurn(q), UNCHANGED procVars,
         Current \in PIDS => waitFor[Current] \in {NOBODY, q}
  PROVE  GoodProcStep
<1>1. Current \in Int /\ SchedInv(sched) /\ (Current \in PIDS => Current \in Used)
  BY CurrentIsInt, UsedAreAlive DEF ProcInv
<1>2. waitFor \in [PIDS -> PIDS \cup {NOBODY, ANY_CHILD}] /\ NOBODY \notin PIDS
  BY DEF ProcInv, ProcTypes, PIDS
<1>3. CASE Alive(sched, q)
  <2>1. /\ sched' = YieldCpu(Block(sched, Current))
        /\ waitFor' = IF Current \in PIDS THEN [waitFor EXCEPT ![Current] = q] ELSE waitFor
    BY <1>3 DEF WaitTurn
  <2>2. SchedInv(Block(sched, Current)) /\ SameStacks(sched, Block(sched, Current))
    BY <1>1, BlockInv, BlockKeeps
  <2>3. SchedInv(sched') /\ SameStacks(sched, sched')
    BY <2>1, <2>2, YieldInv, YieldKeeps DEF SameStacks
  <2> QED
    BY <1>1, <1>2, <2>1, <2>3, QuietProcStep
<1>4. CASE ~Alive(sched, q)
  <2>1. /\ sched' = sched /\ q \notin Used
        /\ waitFor' = IF Current \in PIDS THEN [waitFor EXCEPT ![Current] = NOBODY] ELSE waitFor
    BY <1>4, UsedAreAlive DEF WaitTurn
  <2> QED
    BY <1>1, <1>2, <2>1, QuietProcStep DEF SameStacks
<1> QED
  BY <1>3, <1>4

LEMMA WaitForPidStep ==
  ASSUME ProcInv, NEW q \in PIDS, WaitForPid(q)
  PROVE  GoodProcStep
<1>1. WaitTurn(q) /\ UNCHANGED procVars /\ (Current \in PIDS => waitFor[Current] = NOBODY)
  BY DEF WaitForPid, MayWait, InKernel
<1> QED
  BY <1>1, WaitTurnStep

LEMMA WaitForChildrenStep ==
  ASSUME ProcInv, WaitForChildren
  PROVE  GoodProcStep
<1>1. /\ Current \in Int /\ SchedInv(sched)
      /\ Current \in PIDS => Current \in Used /\ waitFor[Current] = NOBODY
  BY CurrentIsInt, UsedAreAlive DEF ProcInv, WaitForChildren, MayWait, InKernel
<1>2. waitFor \in [PIDS -> PIDS \cup {NOBODY, ANY_CHILD}] /\ NOBODY \notin PIDS
  BY DEF ProcInv, ProcTypes, PIDS
<1>3. /\ sched' = YieldCpu(Block(sched, Current)) /\ UNCHANGED procVars
      /\ waitFor' = IF Current \in PIDS THEN [waitFor EXCEPT ![Current] = ANY_CHILD] ELSE waitFor
  BY DEF WaitForChildren
<1>4. SchedInv(Block(sched, Current)) /\ SameStacks(sched, Block(sched, Current))
  BY <1>1, BlockInv, BlockKeeps
<1>5. SchedInv(sched') /\ SameStacks(sched, sched')
  BY <1>3, <1>4, YieldInv, YieldKeeps DEF SameStacks
<1> QED
  BY <1>1, <1>2, <1>3, <1>5, QuietProcStep

LEMMA ResumeStep ==
  ASSUME ProcInv, Resume
  PROVE  GoodProcStep
<1>1. /\ Current \in PIDS /\ Current \in Used /\ SchedInv(sched) /\ UNCHANGED procVars
      /\ waitFor[Current] \in PIDS \cup {ANY_CHILD}
      /\ waitFor \in [PIDS -> PIDS \cup {NOBODY, ANY_CHILD}]
  BY UsedAreAlive DEF Resume, InKernel, ProcInv, ProcTypes
<1>2. CASE waitFor[Current] = ANY_CHILD
  <2>1. waitFor' = [waitFor EXCEPT ![Current] = NOBODY] /\ sched' = sched
    BY <1>2 DEF Resume
  <2>2. ANY_CHILD \notin PIDS
    BY DEF PIDS
  <2> QED
    BY <1>1, <1>2, <2>1, <2>2, QuietProcStep DEF SameStacks
<1>3. CASE waitFor[Current] # ANY_CHILD
  BY <1>1, <1>3, WaitTurnStep DEF Resume
<1> QED
  BY <1>2, <1>3

LEMMA TimerTickStep ==
  ASSUME ProcInv, TimerTick
  PROVE  GoodProcStep
<1>1. sched' = SwitchProcess(sched) /\ UNCHANGED <<procVars, waitFor>> /\ SchedInv(sched)
  BY DEF TimerTick, Tick, ProcInv
<1>2. SchedInv(sched') /\ SameStacks(sched, sched')
  BY <1>1, SwitchInv, SwitchKeeps
<1> QED
  BY <1>1, <1>2, QuietProcStep DEF ProcInv, ProcTypes

LEMMA SchedulerCallStep ==
  ASSUME ProcInv, SchedulerCall
  PROVE  GoodProcStep
<1>1. /\ UNCHANGED <<procVars, waitFor>> /\ SchedInv(sched) /\ Current \in Int
      /\ waitFor' \in [PIDS -> PIDS \cup {NOBODY, ANY_CHILD}]
  BY CurrentIsInt DEF SchedulerCall, ProcInv, ProcTypes
<1>2. SchedInv(sched') /\ SameStacks(sched, sched')
  <2>1. CASE Yield
    BY <2>1, <1>1, YieldInv, YieldKeeps DEF Yield
  <2>2. CASE BlockAndYield
    <3>1. SchedInv(Block(sched, Current)) /\ SameStacks(sched, Block(sched, Current))
      BY <1>1, BlockInv, BlockKeeps
    <3>2. sched' = YieldCpu(Block(sched, Current))
      BY <2>2 DEF BlockAndYield, Current
    <3> QED
      BY <3>1, <3>2, YieldInv, YieldKeeps DEF SameStacks
  <2>3. ASSUME NEW p \in PauseArgs, SysBlock(p) PROVE SchedInv(sched') /\ SameStacks(sched, sched')
    BY <1>1, <2>3, InfosAssumption, BlockInv, BlockKeeps DEF SysBlock
  <2>4. ASSUME NEW p \in WakeArgs, Wake(p) PROVE SchedInv(sched') /\ SameStacks(sched, sched')
    BY <1>1, <2>4, InfosAssumption, UnblockInv, UnblockKeeps DEF Wake
  <2>5. ASSUME NEW p \in NiceArgs, NEW prio \in PriorityArgs,
               SysNice(p, prio) \/ SysSetPriority(p, prio)
        PROVE  SchedInv(sched') /\ SameStacks(sched, sched')
    <3>1. p \in Int /\ prio \in Int
      BY InfosAssumption, PriorityAssumption
    <3> QED
      BY <1>1, <2>5, <3>1, NiceInv, SetPriorityInv, NiceKeeps DEF SysNice, SysSetPriority
  <2> QED
    BY <2>1, <2>2, <2>3, <2>4, <2>5 DEF SchedulerCall
<1> QED
  BY <1>1, <1>2, QuietProcStep

(* create_process: what it writes into the first free slot.                *)
LEMMA CreatedEntry ==
  ASSUME ProcInv, NEW info \in Infos, CreateProcess(info)
  PROVE  LET p == Min(PIDS \ Used)
         IN  /\ p \in PIDS \ Used /\ p # 0 /\ Current \in Used
             /\ processArr' \in [PIDS -> ProcessS]
             /\ processArr'[p].used /\ processArr'[p].parent = Current
             /\ processArr'[p].output = IF GetOutput(Current) # STDOUT /\ info.output = STDOUT
                                        THEN GetOutput(Current) ELSE info.output
             /\ \A i \in PIDS \ {p} : processArr'[i] = processArr[i]
             /\ Used' = Used \cup {p}
<1> DEFINE p == Min(PIDS \ Used)
           entry == [ used   |-> TRUE,
                      fg     |-> info.fg,
                      parent |-> Current,
                      input  |-> IF GetInput(Current) # STDIN /\ info.input = STDIN
                                 THEN GetInput(Current) ELSE info.input,
                      output |-> IF GetOutput(Current) # STDOUT /\ info.output = STDOUT
                                 THEN GetOutput(Current) ELSE info.output ]
<1>1. Current \in Used /\ Current \in PIDS /\ PIDS \ Used # {} /\ 0 \in Used
  BY UsedAreAlive DEF CreateProcess
<1>2. p \in PIDS \ Used
  <2>1. PIDS \ Used \subseteq Nat
    BY DEF PIDS
  <2> QED
    BY <1>1, <2>1, MinOfNaturals
<1>3. processArr \in [PIDS -> ProcessS] /\ processArr' = [processArr EXCEPT ![p] = entry]
  BY DEF ProcInv, ProcTypes, CreateProcess
<1> HIDE DEF p
<1>4. entry \in ProcessS
  <2>1. GetInput(Current) \in Channels /\ GetOutput(Current) \in Channels
    <3>1. processArr[Current].input \in Channels /\ processArr[Current].output \in Channels
      BY <1>1, <1>3, EntryFields
    <3> QED
      BY <3>1 DEF GetInput, GetOutput, Channels
  <2>2. info.input \in Channels /\ info.output \in Channels /\ info.fg \in BOOLEAN
    BY InfosAssumption DEF Channels
  <2> QED
    BY <1>1, <2>1, <2>2 DEF ProcessS
<1>5. entry.used /\ entry.parent = Current
  OBVIOUS
<1>6. entry.output = IF GetOutput(Current) # STDOUT /\ info.output = STDOUT
                     THEN GetOutput(Current) ELSE info.output
  OBVIOUS
<1> HIDE DEF entry
<1>7. /\ processArr' \in [PIDS -> ProcessS] /\ processArr'[p] = entry
      /\ \A i \in PIDS \ {p} : processArr'[i] = processArr[i]
  BY <1>2, <1>3, <1>4
<1>8. Used' = Used \cup {p}
  BY <1>2, <1>5, <1>7 DEF Used
<1> QED
  BY <1>1, <1>2, <1>5, <1>6, <1>7, <1>8 DEF p

LEMMA CreateProcessStep ==
  ASSUME ProcInv, NEW info \in Infos, CreateProcess(info)
  PROVE  GoodProcStep
<1> DEFINE p == Min(PIDS \ Used)
<1>1. /\ p \in PIDS \ Used /\ p # 0 /\ Current \in Used
      /\ processArr' \in [PIDS -> ProcessS]
      /\ processArr'[p].used /\ processArr'[p].parent = Current
      /\ \A i \in PIDS \ {p} : processArr'[i] = processArr[i]
      /\ Used' = Used \cup {p}
  BY CreatedEntry
<1>2. /\ families' = [families EXCEPT ![Current] =
              [ children |-> @.children \cup {p}, numberOfChildren |-> @.numberOfChildren + 1 ]]
      /\ sched' = ProcessWasCreated(sched, p, info.priority)
      /\ lastPID' = lastPID + 1 /\ UNCHANGED <<waitFor, eof>>
  BY DEF CreateProcess
<1> HIDE DEF p
<1>3. /\ Current \in PIDS /\ Used \subseteq PIDS /\ 0 \in Used
      /\ families \in [PIDS -> Family] /\ IsFiniteSet(Used)
      /\ \A i \in Used \ {0} : processArr[i].parent \in Used
  BY <1>1, UsedAreAlive, SetsOfPids DEF ProcInv, ProcTypes, FamilyTree, OneTree
<1>4. SchedInv(sched') /\ \A q \in PIDS : sched'.rsp[q] # NULL <=> q \in Used \cup {p}
  <2>1. info.priority \in Int
    BY InfosAssumption, PriorityAssumption
  <2>2. \A q \in PIDS : q \in Used <=> sched.rsp[q] # NULL
    BY UsedAreAlive
  <2>3. sched.rsp[p] = NULL
    BY <1>1, <2>2
  <2>4. sched.currentPID # NO_PROC
    BY <1>3 DEF Current, PIDS
  <2>5. SchedInv(sched)
    BY DEF ProcInv
  <2>6. p # NULL
    BY <1>1 DEF PIDS
  <2>7. SchedInv(sched')
    BY <1>1, <1>2, <2>1, <2>3, <2>4, <2>5, CreatedInv
  <2>8. sched'.rsp[p] = p /\ \A q \in PIDS \ {p} : sched'.rsp[q] = sched.rsp[q]
    BY <1>1, <1>2, <2>1, <2>5, CreatedKeeps
  <2> QED
    BY <1>1, <2>2, <2>6, <2>7, <2>8
<1>5. /\ families' \in [PIDS -> Family]
      /\ \A q \in PIDS : Children(q)' = IF q = Current THEN Children(q) \cup {p} ELSE Children(q)
      /\ \A q \in PIDS : families'[q].numberOfChildren =
            IF q = Current THEN families[q].numberOfChildren + 1 ELSE families[q].numberOfChildren
  <2>1. \A q \in PIDS : /\ families[q].children \in SUBSET PIDS
                        /\ families[q].numberOfChildren \in Int
    BY <1>3 DEF Family
  <2>2. DEFINE grown == [ children |-> families[Current].children \cup {p},
                          numberOfChildren |-> families[Current].numberOfChildren + 1 ]
  <2>3. grown \in Family
    BY <1>1, <1>3, <2>1 DEF Family
  <2>4. families' = [families EXCEPT ![Current] = grown]
    BY <1>2
  <2>5. /\ grown.children = families[Current].children \cup {p}
        /\ grown.numberOfChildren = families[Current].numberOfChildren + 1
    OBVIOUS
  <2> HIDE DEF grown
  <2>6. /\ families' \in [PIDS -> Family]
        /\ \A q \in PIDS : families'[q] = IF q = Current THEN grown ELSE families[q]
    BY <1>3, <2>3, <2>4
  <2> QED
    BY <2>5, <2>6 DEF Children
<1>6. ASSUME NEW q \in PIDS, NEW i \in PIDS
      PROVE  i \in Children(q)' <=> (i \in Used' \ {0} /\ processArr'[i].parent = q)
  <2>1. i \in Children(q) <=> i \in Used \ {0} /\ processArr[i].parent = q
    BY ChildrenAreUsed
  <2>2. CASE i = p
    BY <1>1, <1>5, <2>1, <2>2
  <2>3. CASE i # p
    BY <1>1, <1>5, <2>1, <2>3
  <2> QED
    BY <2>2, <2>3
<1>7. ASSUME NEW q \in PIDS
      PROVE  families'[q].numberOfChildren = Cardinality(Children(q)')
  <2>1. families[q].numberOfChildren = Cardinality(Children(q))
    BY DEF ProcInv, FamilyTree, FamiliesMatchParents
  <2>2. p \notin Children(q) /\ IsFiniteSet(Children(q))
    BY <1>1, ChildrenAreUsed
  <2>3. Cardinality(Children(q) \cup {p}) = Cardinality(Children(q)) + 1
    BY <2>2, FS_AddElement
  <2> QED
    BY <1>5, <2>1, <2>3
<1>8. FamiliesMatchParents'
  BY <1>6, <1>7 DEF FamiliesMatchParents
<1>9. OneTree'
  <2>1. 0 \in Used' /\ \A i \in Used' \ {0} : processArr'[i].parent \in Used'
    BY <1>1, <1>3
  <2>2. ASSUME NEW S \in (SUBSET (Used' \ {0})) \ {{}}
        PROVE  \E i \in S : processArr'[i].parent \notin S
    <3>1. CASE S = {p}
      BY <3>1, <1>1
    <3>2. CASE S # {p}
      <4>1. S \ {p} \in (SUBSET (Used \ {0})) \ {{}}
        BY <3>2, <1>1
      <4>2. PICK i \in S \ {p} : processArr[i].parent \notin S \ {p}
        BY <4>1, Zenon DEF ProcInv, FamilyTree, OneTree
      <4>3. i \in Used \ {0} /\ i \in PIDS
        BY <4>1, <1>3
      <4> QED
        BY <4>2, <4>3, <1>1, <1>3
    <3> QED
      BY <3>1, <3>2
  <2> QED
    BY <2>1, <2>2 DEF OneTree
<1>10. TablesAgree'
  <2>1. \A q \in PIDS : q \in Used' <=> Alive(sched', q)
    BY <1>1, <1>4 DEF Alive
  <2>2. lastPID' = Cardinality(Used')
    BY <1>1, <1>2, <1>3, FS_AddElement DEF ProcInv, TablesAgree
  <2>3. \A q \in PIDS : waitFor'[q] # NOBODY => q \in Used'
    BY <1>1, <1>2 DEF ProcInv, TablesAgree
  <2> QED
    BY <2>1, <2>2, <2>3 DEF TablesAgree
<1>11. ProcInv'
  BY <1>1, <1>2, <1>4, <1>5, <1>8, <1>9, <1>10 DEF ProcInv, ProcTypes, FamilyTree
<1>12. DeathWakesParentStep
  BY <1>1, <1>3 DEF DeathWakesParentStep, Used
<1>13. WaitsToTheEndStep
  BY <1>2 DEF WaitsToTheEndStep
<1> QED
  BY <1>11, <1>12, <1>13 DEF GoodProcStep

-----------------------------------------------------------------------------
(* The initial state and the whole next-state relation.                    *)

LEMMA ProcInitInv == ProcInit => ProcInv
<1> SUFFICES ASSUME ProcInit PROVE ProcInv
  OBVIOUS
<1>1. 0 \in PIDS
  BY TableAssumption DEF PIDS
<1>2. Free \in ProcessS /\ ~Free.used
  BY <1>1 DEF Free, ProcessS, Channels, STDIN, STDOUT, STDERR
<1> DEFINE shell == [ used |-> TRUE, fg |-> TRUE, parent |-> PID_KERNEL,
                      input |-> STDIN, output |-> STDOUT ]
<1>3. shell \in ProcessS /\ shell.used
  BY DEF ProcessS, Channels
<1>4. processArr = [p \in PIDS |-> IF p = 0 THEN shell ELSE Free]
  BY DEF ProcInit
<1> HIDE DEF shell
<1>5. processArr \in [PIDS -> ProcessS] /\ Used = {0}
  BY <1>1, <1>2, <1>3, <1>4 DEF Used
<1>6. /\ families \in [PIDS -> Family]
      /\ \A p \in PIDS : Children(p) = {} /\ families[p].numberOfChildren = 0
  BY DEF ProcInit, Family, Children
<1>7. FamilyTree
  <2>1. FamiliesMatchParents
    BY <1>5, <1>6, FS_EmptySet DEF FamiliesMatchParents
  <2>2. OneTree
    BY <1>5 DEF OneTree
  <2> QED
    BY <2>1, <2>2 DEF FamilyTree
<1>8. SchedInv(sched) /\ \A p \in PIDS : sched.rsp[p] # NULL <=> p = 0
  <2>1. SchedInv(sched)
    BY InitInv DEF ProcInit
  <2>2. sched.rsp = [p \in PIDS |-> IF p = 0 THEN 0 ELSE NULL]
    BY <1>1 DEF ProcInit, Init, ProcessWasCreated, InitScheduler
  <2> QED
    BY <2>1, <2>2
<1>9. TablesAgree
  BY <1>5, <1>8, FS_Singleton DEF TablesAgree, ProcInit, Alive
<1> QED
  BY <1>5, <1>6, <1>7, <1>8, <1>9 DEF ProcInv, ProcTypes, ProcInit

LEMMA ProcNextStep ==
  ASSUME ProcInv, [ProcNext]_allVars
  PROVE  GoodProcStep
<1>1. CASE UNCHANGED allVars
  BY <1>1, QuietProcStep DEF allVars, procVars, ProcInv, ProcTypes, SameStacks
<1> QED
  BY <1>1, TimerTickStep, SchedulerCallStep, CreateProcessStep, SysKillStep,
     KeyboardInterruptStep, ExitProcessStep, WaitForPidStep, WaitForChildrenStep,
     ResumeStep
  DEF ProcNext

-----------------------------------------------------------------------------
(* Who writes where.  kill sends no EOF for a process whose parent writes  *)
(* to a pipe itself.  That loses nothing as long as the parent writes to   *)
(* the same pipe, which is so when only the shell creates processes, and   *)
(* when there is one pipe to hand out.                                     *)

OutputsNest ==
    \/ Creators \subseteq {0}
    \/ \E c : \A info \in Infos : info.output \in {STDOUT, c}

NestInv ==
    \/ Creators \subseteq {0} /\ \A i \in Used \ {0} : processArr[i].parent = 0
    \/ \E c : /\ \A info \in Infos : info.output \in {STDOUT, c}
              /\ \A i \in Used : processArr[i].output \in {STDOUT, c}

(* What every step makes of parents and outputs: survivors keep both, or   *)
(* are adopted by the shell; a new process is a creator's child.           *)
LEMMA StepOnEntries ==
  ASSUME ProcInv, [ProcNext]_allVars, NEW i \in Used'
  PROVE  \/ /\ i \in Used /\ processArr'[i].output = processArr[i].output
            /\ processArr'[i].parent \in {processArr[i].parent, 0}
         \/ /\ i # 0 /\ processArr'[i].parent \in Creators \cap Used
            /\ \E info \in Infos :
                  processArr'[i].output \in {info.output, GetOutput(processArr'[i].parent)}
<1>1. ASSUME NEW dead \in SUBSET (Used \ {0}), Bury(dead)
      PROVE  /\ i \in Used /\ processArr'[i].output = processArr[i].output
             /\ processArr'[i].parent \in {processArr[i].parent, 0}
  BY <1>1, BuryEntries
<1>2. CASE UNCHANGED procVars
  BY <1>2 DEF procVars, Used
<1>3. ASSUME NEW info \in Infos, CreateProcess(info)
      PROVE  \/ i \in Used /\ processArr'[i] = processArr[i]
             \/ /\ i # 0 /\ processArr'[i].parent \in Creators \cap Used
                /\ processArr'[i].output \in {info.output, GetOutput(processArr'[i].parent)}
  <2>1. Current \in Creators \cap Used
    BY <1>3 DEF CreateProcess
  <2>2. CASE i = Min(PIDS \ Used)
    BY <1>3, <2>1, <2>2, CreatedEntry
  <2>3. CASE i # Min(PIDS \ Used)
    BY <1>3, <2>3, CreatedEntry, UsedAreAlive
  <2> QED
    BY <2>2, <2>3
<1>4. ASSUME NEW p \in PIDS, SysKill(p)
      PROVE  {p} \in SUBSET (Used \ {0}) /\ Bury({p})
  BY <1>4 DEF SysKill, Killable, Find
<1>5. CASE KeyboardInterrupt
  <2> DEFINE foreground == {q \in Used \ {0} : processArr[q].fg}
             p == Min(foreground)
  <2>1. foreground # {} /\ foreground \subseteq Nat
    BY <1>5, UsedAreAlive DEF KeyboardInterrupt, PIDS
  <2>2. p \in foreground
    <3> HIDE DEF foreground
    <3> QED  BY <2>1, MinOfNaturals
  <2>3. Bury({p} \cup Children(p)) /\ p \in Used \ {0}
    BY <1>5, <2>2 DEF KeyboardInterrupt
  <2> HIDE DEF p
  <2>4. {p} \cup Children(p) \in SUBSET (Used \ {0})
    BY <2>3, UsedAreAlive, ChildrenAreUsed
  <2> QED
    BY <1>1, <2>3, <2>4
<1>6. CASE ExitProcess
  <2>1. CASE Killable(Current)
    <3>1. {Current} \in SUBSET (Used \ {0}) /\ Bury({Current})
      BY <1>6, <2>1 DEF ExitProcess, Killable, Find
    <3> QED
      BY <1>1, <3>1
  <2>2. CASE ~Killable(Current)
    BY <1>2, <1>6, <2>2 DEF ExitProcess
  <2> QED
    BY <2>1, <2>2
<1>7. CASE UNCHANGED allVars
  BY <1>2, <1>7 DEF allVars, procVars
<1>8. \/ \E info \in Infos : CreateProcess(info)
      \/ \E p \in PIDS : SysKill(p)
      \/ KeyboardInterrupt \/ ExitProcess \/ UNCHANGED procVars \/ UNCHANGED allVars
  BY DEF ProcNext, TimerTick, SchedulerCall, WaitForPid, WaitForChildren, Resume
<1> QED
  BY <1>1, <1>2, <1>3, <1>4, <1>5, <1>6, <1>7, <1>8

LEMMA NestStep ==
  ASSUME ProcInv, NestInv, [ProcNext]_allVars
  PROVE  NestInv'
<1>1. CASE Creators \subseteq {0} /\ \A i \in Used \ {0} : processArr[i].parent = 0
  <2>1. \A i \in Used' \ {0} : processArr'[i].parent = 0
    BY <1>1, StepOnEntries
  <2> QED
    BY <1>1, <2>1 DEF NestInv
<1>2. ASSUME NEW c, \A info \in Infos : info.output \in {STDOUT, c},
             \A i \in Used : processArr[i].output \in {STDOUT, c}
      PROVE  NestInv'
  <2>1. \A p \in Used : GetOutput(p) \in {STDOUT, c}
    BY <1>2 DEF GetOutput
  <2>2. \A i \in Used' : processArr'[i].output \in {STDOUT, c}
    BY <1>2, <2>1, StepOnEntries
  <2> QED
    BY <1>2, <2>2 DEF NestInv
<1> QED
  BY <1>1, <1>2 DEF NestInv

(* kill or exit of the last writer.                                        *)
LEMMA LastWriterHeard ==
  ASSUME ProcInv, NestInv, NEW p \in Used \ {0}, Bury({p}), SignalEof({p}),
         NEW c \in Pipes, Writers(c) # {}, Writers(c)' = {}
  PROVE  c \in eof'
<1>1. Writers(c) = {p}
  <2>1. {p} \in SUBSET (Used \ {0})
    OBVIOUS
  <2>2. \A w \in Writers(c) \ {p} : w \in Used' /\ processArr'[w].output = c
    BY <2>1, BuryEntries DEF Writers
  <2>3. Writers(c) \subseteq {p}
    BY <2>2 DEF Writers
  <2> QED
    BY <2>3
<1> DEFINE parent == processArr[p].parent
<1>2. processArr[p].output = c /\ c # STDOUT
  BY <1>1 DEF Writers, Pipes
<1>3. parent \in Used /\ parent # p
  <2>1. p \in PIDS /\ parent \in Used
    BY UsedAreAlive DEF ProcInv, FamilyTree, OneTree
  <2>2. parent \in PIDS
    BY <2>1, UsedAreAlive
  <2> QED
    BY <2>1, <2>2, ChildrenAreUsed
<1>4. GetOutput(parent) = STDOUT
  <2>1. CASE \A i \in Used \ {0} : processArr[i].parent = 0
    BY <2>1 DEF GetOutput
  <2>2. ASSUME NEW d, \A i \in Used : processArr[i].output \in {STDOUT, d}
        PROVE  GetOutput(parent) = STDOUT
    <3>1. d = c
      BY <1>2, <2>2
    <3>2. processArr[parent].output # c
      BY <1>1, <1>3 DEF Writers
    <3> QED
      BY <1>3, <2>2, <3>1, <3>2 DEF GetOutput
  <2> QED
    BY <2>1, <2>2 DEF NestInv
<1> QED
  BY <1>2, <1>4 DEF SignalEof

LEMMA EofStep ==
  ASSUME ProcInv, NestInv, [ProcNext]_allVars
  PROVE  EofAfterLastWriterStep
<1> SUFFICES ASSUME ~KeyboardInterrupt, NEW c \in Pipes, Writers(c) # {}, Writers(c)' = {}
             PROVE  c \in eof'
  BY DEF EofAfterLastWriterStep
<1>1. ASSUME NEW p \in PIDS, SysKill(p)
      PROVE  c \in eof'
  BY <1>1, LastWriterHeard DEF SysKill, Killable, Find
<1>2. CASE ExitProcess /\ Killable(Current)
  BY <1>2, LastWriterHeard DEF ExitProcess, Killable, Find
<1>3. CASE UNCHANGED procVars
  BY <1>3 DEF procVars, Writers, Used
<1>4. ASSUME NEW info \in Infos, CreateProcess(info)
      PROVE  c \in eof'
  <2>1. Writers(c) \subseteq Used /\ \A w \in Used : w \in Writers(c) <=> processArr[w].output = c
    BY DEF Writers
  <2>2. \A w \in Used : w \in Used' /\ processArr'[w] = processArr[w]
    BY <1>4, CreatedEntry, UsedAreAlive
  <2> QED
    BY <2>1, <2>2 DEF Writers
<1>5. CASE UNCHANGED allVars
  BY <1>3, <1>5 DEF allVars, procVars
<1> QED
  BY <1>1, <1>2, <1>3, <1>4, <1>5
  DEF ProcNext, TimerTick, SchedulerCall, WaitForPid, WaitForChildren, Resume, ExitProcess

-----------------------------------------------------------------------------
(* The theorems.                                                           *)

(* The inductive invariant: scheduler, process table and family tree fit   *)
(* together after any sequence of creations, kills, ^C, exits, waits and   *)
(* scheduler calls.                                                        *)
THEOREM ProcInvariance == ProcSpec => []ProcInv
<1>1. ProcInv /\ [ProcNext]_allVars => ProcInv'
  BY ProcNextStep DEF GoodProcStep
<1> QED
  BY <1>1, ProcInitInv, PTL DEF ProcSpec

(* The types, and the ownership of the CPU, under the functions of         *)
(* processes.c: kill_with_children, exit_process and the waits call        *)
(* several scheduler functions in one step, and none of the combinations   *)
(* mixes up two stacks.                                                    *)
THEOREM ProcessesAreSound == ProcSpec => []ProcSound
<1>1. ProcInv => ProcSound
  <2> SUFFICES ASSUME ProcInv PROVE ProcSound
    OBVIOUS
  <2>1. CpuOwnership /\ TypeOK
    BY DEF ProcInv, SchedInv, CpuOwnership, TypeOK
  <2>2. ASSUME NEW p \in PIDS
        PROVE  families[p] \in [children : SUBSET PIDS, numberOfChildren : 0..MAX_PROCESSES]
    <3>1. families[p] \in Family
      BY DEF ProcInv, ProcTypes
    <3>2. families[p].numberOfChildren = Cardinality(Children(p)) /\ Children(p) \in SUBSET PIDS
      BY <3>1 DEF ProcInv, FamilyTree, FamiliesMatchParents, Family, Children
    <3>3. families[p].numberOfChildren \in 0..MAX_PROCESSES
      BY <3>2, SetsOfPids
    <3> QED
      BY <3>1, <3>3 DEF Family
  <2>3. lastPID \in 0..MAX_PROCESSES
    BY SetsOfPids, UsedAreAlive DEF ProcInv, TablesAgree
  <2> QED
    BY <2>1, <2>2, <2>3 DEF ProcSound, ProcTypeOK, ProcInv, ProcTypes
<1> QED
  BY <1>1, ProcInvariance, PTL

(* processArr and the scheduler's table hold the same processes, and       *)
(* lastPID counts them.                                                    *)
THEOREM TablesStayEqual == ProcSpec => []TablesAgree
<1>1. ProcInv => TablesAgree
  BY DEF ProcInv
<1> QED
  BY <1>1, ProcInvariance, PTL

(* remove_child, shell_adoption and kill_with_children keep one tree, its  *)
(* root the shell: nobody is lost and nobody is its own ancestor.          *)
THEOREM OneFamilyTree == ProcSpec => []FamilyTree
<1>1. ProcInv => FamilyTree
  BY DEF ProcInv
<1> QED
  BY <1>1, ProcInvariance, PTL

(* remove_child wakes the parent that waits for the process that dies.     *)
THEOREM DeathsWakeParents == ProcSpec => DeathWakesParent
<1>1. ProcInv /\ [ProcNext]_allVars => DeathWakesParentStep
  BY ProcNextStep DEF GoodProcStep
<1> QED
  BY <1>1, ProcInvariance, PTL DEF ProcSpec, DeathWakesParent

(* The loop of wait_for_pid ends only after the process has died.          *)
THEOREM WaitsEndWithDeath == ProcSpec => WaitsToTheEnd
<1>1. ProcInv /\ [ProcNext]_allVars => WaitsToTheEndStep
  BY ProcNextStep DEF GoodProcStep
<1> QED
  BY <1>1, ProcInvariance, PTL DEF ProcSpec, WaitsToTheEnd

(* kill and exit_process leave an EOF behind a pipe's last writer, if only *)
(* the shell creates processes or there is one pipe to write to.           *)
THEOREM LastWriterLeavesEof ==
  ASSUME OutputsNest
  PROVE  ProcSpec => EofAfterLastWriter
<1>1. ProcInit => NestInv
  <2> SUFFICES ASSUME ProcInit PROVE NestInv
    OBVIOUS
  <2>1. Used = {0} /\ processArr[0].output = STDOUT
    <3>1. 0 \in PIDS
      BY TableAssumption DEF PIDS
    <3> QED
      BY <3>1 DEF ProcInit, Used, Free
  <2> QED
    BY <2>1 DEF OutputsNest, NestInv
<1>2. ProcInv /\ NestInv /\ [ProcNext]_allVars => NestInv' /\ EofAfterLastWriterStep
  BY NestStep, EofStep
<1> QED
  BY <1>1, <1>2, ProcInvariance, PTL DEF ProcSpec, EofAfterLastWriter

=============================================================================
