--------------------------- MODULE SchedulerProofs ---------------------------
(***************************************************************************)
(* Proofs about the scheduler: for every size of the process table, every  *)
(* priority range and every quantum, the scheduler's state keeps its type, *)
(* saved contexts are never mixed up, and a switch dispatches only ready   *)
(* processes and goes idle only when there is none.                        *)
(*                                                                         *)
(* SchedInv, the conjunction of the type and of CpuOwnership, is           *)
(* inductive; one lemma per scheduler function says the function preserves *)
(* it, so that modules that compose these functions can cite the lemmas.   *)
(***************************************************************************)
EXTENDS Scheduler, DataLemmas

SchedInv(s) ==
    /\ s \in SchedStates
    /\ StacksAreOwn(s)
    /\ RunningIsCurrent(s)
    /\ KilledIsEmpty(s)
    /\ CurrentHasCpu(s)
    /\ KernelIsSaved(s)

USE DEF MIN_PRIORITY, PID_KERNEL, NO_PROC, NULL

-----------------------------------------------------------------------------
(* The table of processes is finite, and so is every set of processes.     *)
LEMMA SetsOfPids ==
  /\ IsFiniteSet(PIDS) /\ Cardinality(PIDS) = MAX_PROCESSES
  /\ \A S \in SUBSET PIDS : IsFiniteSet(S) /\ Cardinality(S) \in 0..MAX_PROCESSES
<1>1. IsFiniteSet(PIDS) /\ Cardinality(PIDS) = MAX_PROCESSES
  BY TableAssumption, FS_Interval DEF PIDS
<1>2. ASSUME NEW S \in SUBSET PIDS
      PROVE  IsFiniteSet(S) /\ Cardinality(S) \in 0..MAX_PROCESSES
  <2>1. IsFiniteSet(S) /\ Cardinality(S) <= MAX_PROCESSES
    BY <1>1, FS_Subset
  <2> QED
    BY <2>1, FS_CardinalityType, TableAssumption
<1> QED
  BY <1>1, <1>2

-----------------------------------------------------------------------------
(* The scan of the table returns a process that may be dispatched, or      *)
(* PID_KERNEL when there is none.                                          *)

LEMMA GetNextReadyCorrect ==
  ASSUME NEW s, s \in SchedStates
  PROVE  \/ GetNextReady(s) \in PIDS /\ Eligible(s, GetNextReady(s))
         \/ GetNextReady(s) = PID_KERNEL /\ \A p \in PIDS : ~Eligible(s, p)
<1> DEFINE first == IF s.currentPID < 0 THEN 0 ELSE s.currentPID
           ready == {p \in PIDS : Eligible(s, p)}
           dist  == {Distance(first, p) : p \in ready}
<1>1. CASE ready = {}
  BY <1>1 DEF GetNextReady
<1>2. CASE ready # {}
  <2>1. first \in PIDS
    BY TableAssumption DEF SchedStates, PIDS
  <2>2. \A p \in PIDS : Distance(first, p) \in Nat
    BY <2>1, TableAssumption DEF Distance, PIDS
  <2>3. dist \subseteq Nat /\ dist # {}
    BY <1>2, <2>2
  <2>4. PICK d \in dist : \A e \in dist : d <= e
    <3> HIDE DEF dist
    <3> QED  BY <2>3, LeastNatural
  <2>5. PICK p \in ready : d = Distance(first, p)
    BY <2>4
  <2>6. \A q \in ready : Distance(first, p) <= Distance(first, q)
    BY <2>4, <2>5
  <2>7. GetNextReady(s) = CHOOSE r \in ready :
              \A q \in ready : Distance(first, r) <= Distance(first, q)
    BY <1>2 DEF GetNextReady
  <2>8. GetNextReady(s) \in ready
    <3> HIDE DEF ready, first
    <3> QED  BY <2>5, <2>6, <2>7
  <2> QED
    BY <2>8
<1> QED
  BY <1>1, <1>2

-----------------------------------------------------------------------------
(* One lemma per function of the scheduler: it preserves SchedInv.         *)

LEMMA CreatedInv ==
  ASSUME NEW s, SchedInv(s), NEW p \in PIDS, NEW prio \in Int,
         s.rsp[p] = NULL, s.currentPID # NO_PROC
  PROVE  SchedInv(ProcessWasCreated(s, p, prio))
<1> DEFINE t == ProcessWasCreated(s, p, prio)
<1>1. t \in SchedStates
  <2> DEFINE given == IF ValidPriority(prio) THEN prio ELSE DEFAULT_PRIORITY
  <2>1. given \in MIN_PRIORITY..MAX_PRIORITY
    BY PriorityAssumption DEF ValidPriority
  <2>2. t = [s EXCEPT !.status[p] = "READY", !.priority[p] = given, !.rsp[p] = p]
    BY DEF ProcessWasCreated
  <2> HIDE DEF given, t
  <2> QED
    BY <2>1, <2>2 DEF SchedInv, SchedStates, STATUSES, STACKS
<1>2. StacksAreOwn(t) /\ RunningIsCurrent(t) /\ KilledIsEmpty(t)
  BY DEF SchedInv, SchedStates, ProcessWasCreated, StacksAreOwn, RunningIsCurrent, KilledIsEmpty
<1>3. CurrentHasCpu(t) /\ KernelIsSaved(t)
  BY DEF SchedInv, SchedStates, ProcessWasCreated, CurrentHasCpu, KernelIsSaved, Alive, PIDS
<1> QED
  BY <1>1, <1>2, <1>3 DEF SchedInv

LEMMA KilledInv ==
  ASSUME NEW s, SchedInv(s), NEW dead \in SUBSET PIDS
  PROVE  SchedInv(ProcessWasKilled(s, dead))
<1> DEFINE t == ProcessWasKilled(s, dead)
<1>1. t \in SchedStates
  BY DEF SchedInv, SchedStates, ProcessWasKilled, STATUSES, STACKS
<1>2. StacksAreOwn(t) /\ RunningIsCurrent(t) /\ KilledIsEmpty(t)
  BY DEF SchedInv, SchedStates, ProcessWasKilled, StacksAreOwn, RunningIsCurrent, KilledIsEmpty,
         Alive, CurrentHasCpu
<1>3. CurrentHasCpu(t) /\ KernelIsSaved(t)
  BY DEF SchedInv, SchedStates, ProcessWasKilled, CurrentHasCpu, KernelIsSaved, Alive, PIDS
<1> QED
  BY <1>1, <1>2, <1>3 DEF SchedInv

LEMMA BlockInv ==
  ASSUME NEW s, SchedInv(s), NEW p \in Int
  PROVE  SchedInv(Block(s, p))
<1>1. CASE ~Alive(s, p)
  BY <1>1 DEF Block
<1>2. CASE Alive(s, p)
  <2> DEFINE t == Block(s, p)
  <2>1. t \in SchedStates
    <3>1. 0 \in 0..MAX_PRIORITY + QUANTUM
      BY PriorityAssumption
    <3>2. t.currentQuantum \in 0..MAX_PRIORITY + QUANTUM
      BY <3>1, <1>2 DEF Block, SchedInv, SchedStates
    <3> QED
      BY <3>1, <1>2 DEF SchedInv, SchedStates, Block, Alive, STATUSES
  <2>2. StacksAreOwn(t) /\ RunningIsCurrent(t) /\ KilledIsEmpty(t)
    BY <1>2 DEF SchedInv, SchedStates, Block, StacksAreOwn, RunningIsCurrent, KilledIsEmpty, Alive
  <2>3. CurrentHasCpu(t) /\ KernelIsSaved(t)
    BY <1>2 DEF SchedInv, SchedStates, Block, CurrentHasCpu, KernelIsSaved, Alive
  <2> QED
    BY <2>1, <2>2, <2>3 DEF SchedInv
<1> QED
  BY <1>1, <1>2

LEMMA UnblockInv ==
  ASSUME NEW s, SchedInv(s), NEW p \in Int
  PROVE  SchedInv(Unblock(s, p))
<1>1. CASE ~Alive(s, p) \/ s.status[p] \in {"READY", "RUNNING"}
  BY <1>1 DEF Unblock
<1>2. CASE Alive(s, p) /\ s.status[p] \notin {"READY", "RUNNING"}
  <2> DEFINE t == Unblock(s, p)
  <2>1. t \in SchedStates
    BY <1>2 DEF SchedInv, SchedStates, Unblock, Alive, STATUSES
  <2>2. StacksAreOwn(t) /\ RunningIsCurrent(t) /\ KilledIsEmpty(t)
    BY <1>2 DEF SchedInv, SchedStates, Unblock, StacksAreOwn, RunningIsCurrent, KilledIsEmpty, Alive
  <2>3. CurrentHasCpu(t) /\ KernelIsSaved(t)
    BY <1>2 DEF SchedInv, SchedStates, Unblock, CurrentHasCpu, KernelIsSaved, Alive
  <2> QED
    BY <2>1, <2>2, <2>3 DEF SchedInv
<1> QED
  BY <1>1, <1>2

LEMMA NiceInv ==
  ASSUME NEW s, SchedInv(s), NEW p \in Int, NEW prio \in Int
  PROVE  SchedInv(Nice(s, p, prio))
<1>1. CASE ~Alive(s, p) \/ p = 0 \/ ~ValidPriority(prio)
  BY <1>1 DEF Nice
<1>2. CASE Alive(s, p) /\ p # 0 /\ ValidPriority(prio)
  <2> DEFINE t == Nice(s, p, prio)
  <2>1. t \in SchedStates
    <3>1. prio \in MIN_PRIORITY..MAX_PRIORITY
      BY <1>2 DEF ValidPriority
    <3> QED
      BY <1>2, <3>1 DEF SchedInv, SchedStates, Nice, Alive
  <2>2. StacksAreOwn(t) /\ RunningIsCurrent(t) /\ KilledIsEmpty(t)
    BY <1>2 DEF SchedInv, SchedStates, Nice, StacksAreOwn, RunningIsCurrent, KilledIsEmpty
  <2>3. CurrentHasCpu(t) /\ KernelIsSaved(t)
    BY <1>2 DEF SchedInv, SchedStates, Nice, CurrentHasCpu, KernelIsSaved, Alive
  <2> QED
    BY <2>1, <2>2, <2>3 DEF SchedInv
<1> QED
  BY <1>1, <1>2

LEMMA SetPriorityInv ==
  ASSUME NEW s, SchedInv(s), NEW p \in Int, NEW prio \in Int
  PROVE  SchedInv(SetPriority(s, p, prio))
<1>1. CASE ~Alive(s, p) \/ ~ValidPriority(prio)
  BY <1>1 DEF SetPriority
<1>2. CASE Alive(s, p) /\ ValidPriority(prio)
  <2> DEFINE t == SetPriority(s, p, prio)
  <2>1. t \in SchedStates
    <3>1. prio \in MIN_PRIORITY..MAX_PRIORITY
      BY <1>2 DEF ValidPriority
    <3> QED
      BY <1>2, <3>1 DEF SchedInv, SchedStates, SetPriority, Alive
  <2>2. StacksAreOwn(t) /\ RunningIsCurrent(t) /\ KilledIsEmpty(t)
    BY <1>2 DEF SchedInv, SchedStates, SetPriority, StacksAreOwn, RunningIsCurrent, KilledIsEmpty
  <2>3. CurrentHasCpu(t) /\ KernelIsSaved(t)
    BY <1>2 DEF SchedInv, SchedStates, SetPriority, CurrentHasCpu, KernelIsSaved, Alive
  <2> QED
    BY <2>1, <2>2, <2>3 DEF SchedInv
<1> QED
  BY <1>1, <1>2

(* Between saving the old context and loading the new one nobody is        *)
(* RUNNING and the boot context is saved.                                  *)
NobodyRuns(s) ==
    /\ s.mainRSP = PID_KERNEL
    /\ \A p \in PIDS : s.status[p] # "RUNNING"

LEMMA SaveContextInv ==
  ASSUME NEW s, SchedInv(s)
  PROVE  /\ SchedInv(SaveContext(s))
         /\ NobodyRuns(SaveContext(s))
         /\ SaveContext(s).currentPID = s.currentPID
         /\ SaveContext(s).cpu = s.cpu
         /\ \A p \in PIDS : s.rsp[p] = SaveContext(s).rsp[p]
<1> DEFINE t == SaveContext(s)
<1>1. t \in SchedStates
  BY DEF SchedInv, SchedStates, SaveContext, STATUSES, STACKS, CurrentHasCpu
<1>2. StacksAreOwn(t) /\ KilledIsEmpty(t) /\ \A p \in PIDS : s.rsp[p] = t.rsp[p]
  BY DEF SchedInv, SchedStates, SaveContext, StacksAreOwn, KilledIsEmpty, CurrentHasCpu, Alive
<1>3. NobodyRuns(t)
  <2>1. t.mainRSP = PID_KERNEL
    BY DEF SchedInv, SchedStates, SaveContext, CurrentHasCpu, KernelIsSaved
  <2>2. ASSUME NEW p \in PIDS PROVE t.status[p] # "RUNNING"
    <3>1. CASE s.currentPID = p
      <4>1. p # PID_KERNEL
        BY DEF PIDS
      <4>2. t.status[p] = IF s.status[p] = "RUNNING" THEN "READY" ELSE s.status[p]
        BY <3>1, <4>1 DEF SchedInv, SchedStates, SaveContext
      <4> QED
        BY <4>2
    <3>2. CASE s.currentPID # p
      <4>1. t.status[p] = s.status[p]
        BY <3>2 DEF SchedInv, SchedStates, SaveContext
      <4> QED
        BY <3>2, <4>1 DEF SchedInv, RunningIsCurrent
    <3> QED
      BY <3>1, <3>2
  <2> QED
    BY <2>1, <2>2 DEF NobodyRuns
<1>4. /\ CurrentHasCpu(t) /\ KernelIsSaved(t)
      /\ t.currentPID = s.currentPID /\ t.cpu = s.cpu
  BY DEF SchedInv, SchedStates, SaveContext, CurrentHasCpu, KernelIsSaved, Alive, PIDS
<1> QED
  BY <1>1, <1>2, <1>3, <1>4 DEF SchedInv, NobodyRuns, RunningIsCurrent

LEMMA RunInv ==
  ASSUME NEW s, SchedInv(s), NobodyRuns(s), NEW p, Eligible(s, p),
         NEW q \in 0..MAX_PRIORITY + QUANTUM
  PROVE  SchedInv(Run(s, p, q)) /\ Run(s, p, q).cpu = p
<1> DEFINE t == Run(s, p, q)
<1>1. p \in PIDS /\ s.rsp[p] = p
  BY DEF Eligible, Alive, SchedInv, StacksAreOwn
<1>2. t \in SchedStates
  BY <1>1 DEF SchedInv, SchedStates, Run, STATUSES, STACKS
<1>3. StacksAreOwn(t) /\ RunningIsCurrent(t) /\ KilledIsEmpty(t)
  BY <1>1 DEF SchedInv, SchedStates, Run, StacksAreOwn, RunningIsCurrent, KilledIsEmpty, NobodyRuns
<1>4. CurrentHasCpu(t) /\ KernelIsSaved(t) /\ t.cpu = p
  BY <1>1 DEF SchedInv, SchedStates, Run, CurrentHasCpu, KernelIsSaved, Alive, NobodyRuns, PIDS
<1> QED
  BY <1>2, <1>3, <1>4 DEF SchedInv

LEMMA IdleInv ==
  ASSUME NEW s, SchedInv(s), NobodyRuns(s)
  PROVE  SchedInv(Idle(s)) /\ Idle(s).cpu = PID_KERNEL
<1> DEFINE t == Idle(s)
<1>1. t \in SchedStates
  <2>1. 0 \in 0..MAX_PRIORITY + QUANTUM
    BY PriorityAssumption
  <2> QED
    BY <2>1 DEF SchedInv, SchedStates, Idle, STACKS, NobodyRuns
<1>2. StacksAreOwn(t) /\ RunningIsCurrent(t) /\ KilledIsEmpty(t)
  BY DEF SchedInv, SchedStates, Idle, StacksAreOwn, RunningIsCurrent, KilledIsEmpty, NobodyRuns
<1>3. CurrentHasCpu(t) /\ KernelIsSaved(t) /\ t.cpu = PID_KERNEL
  BY DEF SchedInv, SchedStates, Idle, CurrentHasCpu, KernelIsSaved, NobodyRuns, PIDS
<1> QED
  BY <1>1, <1>2, <1>3 DEF SchedInv

-----------------------------------------------------------------------------
(* switch_process as a whole.  What it dispatches was READY before, or is  *)
(* the process that had the CPU; it goes idle only if nobody is READY.     *)

LEMMA SavedEligible ==
  ASSUME NEW s, SchedInv(s), NEW p, p # s.currentPID
  PROVE  Eligible(SaveContext(s), p) = Eligible(s, p)
  BY DEF SchedInv, SchedStates, SaveContext, Eligible, Alive, CurrentHasCpu

LEMMA QuantumInRange ==
  ASSUME NEW s, s \in SchedStates, NEW p \in PIDS
  PROVE  GetQuantum(s, p) \in 0..MAX_PRIORITY + QUANTUM
<1>1. s.priority[p] \in 0..MAX_PRIORITY
  BY DEF SchedStates
<1> QED
  BY <1>1, PriorityAssumption DEF GetQuantum

LEMMA SwitchInv ==
  ASSUME NEW s, SchedInv(s)
  PROVE  /\ SchedInv(SwitchProcess(s))
         /\ SwitchProcess(s).cpu \in PIDS \ {s.cpu} => Eligible(s, SwitchProcess(s).cpu)
         /\ SwitchProcess(s).cpu = PID_KERNEL /\ s.cpu # PID_KERNEL
              => \A p \in PIDS : ~Eligible(SwitchProcess(s), p)
<1> DEFINE saved == SaveContext(s)
           next  == GetNextReady(saved)
           t     == SwitchProcess(s)
<1>1. SchedInv(saved) /\ NobodyRuns(saved)
  BY SaveContextInv
<1>2. saved.cpu = s.cpu /\ saved.currentPID = s.currentPID
  BY SaveContextInv
<1>3. ASSUME NEW p \in PIDS, Eligible(saved, p), p # s.cpu
      PROVE  Eligible(s, p)
  <2>1. p # s.currentPID
    BY <1>3 DEF SchedInv, CurrentHasCpu
  <2> QED
    BY <1>3, <2>1, SavedEligible
<1>4. PID_KERNEL \notin PIDS
  BY DEF PIDS
<1>5. \A p : Eligible(saved, p) => p \in PIDS
  BY DEF Eligible, Alive
<1>6. saved \in SchedStates
  BY <1>1 DEF SchedInv
<1> HIDE DEF saved
<1>7. CASE Eligible(saved, saved.nextPID)
  <2> DEFINE cleared == [saved EXCEPT !.nextPID = NO_PROC]
             p == saved.nextPID
  <2>1. SchedInv(cleared) /\ NobodyRuns(cleared) /\ Eligible(cleared, p)
    BY <1>1, <1>7 DEF SchedInv, SchedStates, NobodyRuns, Eligible, Alive, StacksAreOwn,
                      RunningIsCurrent, KilledIsEmpty, CurrentHasCpu, KernelIsSaved
  <2>2. GetQuantum(saved, p) \in 0..MAX_PRIORITY + QUANTUM
    BY <1>5, <1>6, <1>7, QuantumInRange
  <2>3. t = Run(cleared, p, GetQuantum(saved, p))
    BY <1>7 DEF SwitchProcess, saved
  <2> HIDE DEF cleared, p, t
  <2>4. SchedInv(t) /\ t.cpu = p
    BY <2>1, <2>2, <2>3, RunInv
  <2> QED
    BY <2>4, <1>3, <1>4, <1>5, <1>7 DEF p, t
<1>8. CASE /\ ~Eligible(saved, saved.nextPID)
           /\ Eligible(saved, saved.currentPID) /\ saved.currentQuantum # 0
  <2> DEFINE p == saved.currentPID
             q == saved.currentQuantum - 1
  <2>1. q \in 0..MAX_PRIORITY + QUANTUM
    BY <1>6, <1>8, PriorityAssumption DEF SchedStates
  <2>2. t = Run(saved, p, q)
    BY <1>8 DEF SwitchProcess, saved
  <2> HIDE DEF p, q, t
  <2>3. SchedInv(t) /\ t.cpu = p
    BY <1>1, <1>8, <2>1, <2>2, RunInv DEF p
  <2> QED
    BY <2>3, <1>3, <1>4, <1>5, <1>8 DEF p, t
<1>9. CASE /\ ~Eligible(saved, saved.nextPID)
           /\ ~(Eligible(saved, saved.currentPID) /\ saved.currentQuantum # 0)
  <2>1. CASE next = PID_KERNEL
    <3>1. t = Idle(saved)
      BY <1>9, <2>1 DEF SwitchProcess, saved
    <3>2. SchedInv(t) /\ t.cpu = PID_KERNEL
      BY <1>1, <3>1, IdleInv
    <3>3. \A p \in PIDS : ~Eligible(saved, p)
      BY <1>4, <1>6, <2>1, GetNextReadyCorrect
    <3>4. \A p \in PIDS : ~Eligible(t, p)
      BY <3>1, <3>3, <1>6 DEF Idle, Eligible, Alive, SchedStates
    <3> QED
      BY <3>2, <3>4, <1>4
  <2>2. CASE next # PID_KERNEL
    <3>1. next \in PIDS /\ Eligible(saved, next)
      BY <1>6, <2>2, GetNextReadyCorrect
    <3>2. t = Run(saved, next, GetQuantum(saved, next))
      BY <1>9, <2>2 DEF SwitchProcess, saved
    <3>3. GetQuantum(saved, next) \in 0..MAX_PRIORITY + QUANTUM
      BY <1>6, <3>1, QuantumInRange
    <3> HIDE DEF next, t
    <3>4. SchedInv(t) /\ t.cpu = next
      BY <1>1, <3>1, <3>2, <3>3, RunInv
    <3> QED
      BY <3>4, <3>1, <1>3, <1>4 DEF t
  <2> QED
    BY <2>1, <2>2
<1> QED
  BY <1>7, <1>8, <1>9

(* The same of a yield, seen from a state r in which at most fewer         *)
(* processes were killed or blocked.                                       *)
LEMMA YieldInv ==
  ASSUME NEW r, NEW s, SchedInv(s), s.cpu = r.cpu,
         \A p \in PIDS : Eligible(s, p) => Eligible(r, p)
  PROVE  /\ SchedInv(YieldCpu(s))
         /\ YieldCpu(s).cpu \in PIDS \ {r.cpu} => Eligible(r, YieldCpu(s).cpu)
         /\ YieldCpu(s).cpu = PID_KERNEL /\ r.cpu # PID_KERNEL
              => \A p \in PIDS : ~Eligible(YieldCpu(s), p)
<1> DEFINE t == [s EXCEPT !.currentQuantum = 0]
<1>1. SchedInv(t) /\ t.cpu = s.cpu /\ \A p \in PIDS : Eligible(t, p) => Eligible(s, p)
  <2>1. 0 \in 0..MAX_PRIORITY + QUANTUM
    BY PriorityAssumption
  <2> QED
    BY <2>1 DEF SchedInv, SchedStates, Eligible, Alive, StacksAreOwn, RunningIsCurrent,
                KilledIsEmpty, CurrentHasCpu, KernelIsSaved
<1>2. YieldCpu(s) = SwitchProcess(t)
  BY DEF YieldCpu
<1> HIDE DEF t
<1> QED
  BY <1>1, <1>2, SwitchInv

LEMMA BlockOnlyRemoves ==
  ASSUME NEW s, SchedInv(s), NEW p \in Int
  PROVE  /\ Block(s, p).cpu = s.cpu
         /\ \A q \in PIDS : Eligible(Block(s, p), q) => Eligible(s, q)
  BY DEF SchedInv, SchedStates, Block, Eligible, Alive

LEMMA KillOnlyRemoves ==
  ASSUME NEW s, SchedInv(s), NEW dead \in SUBSET PIDS
  PROVE  /\ ProcessWasKilled(s, dead).cpu = s.cpu
         /\ \A q \in PIDS : Eligible(ProcessWasKilled(s, dead), q) => Eligible(s, q)
  BY DEF SchedInv, SchedStates, ProcessWasKilled, Eligible, Alive

-----------------------------------------------------------------------------
(* What the functions leave alone: which slots hold a process, and which   *)
(* processes are awake, blocked or killed.                                 *)

SameStacks(s, t) == \A q \in PIDS : t.rsp[q] = s.rsp[q]

Awake(s, q) == s.status[q] \in {"READY", "RUNNING"}

SameAwake(s, t) ==
    \A q \in PIDS : /\ Awake(t, q) <=> Awake(s, q)
                    /\ t.status[q] = "BLOCKED" <=> s.status[q] = "BLOCKED"

LEMMA BlockKeeps ==
  ASSUME NEW s, SchedInv(s), NEW p \in Int
  PROVE  /\ SameStacks(s, Block(s, p))
         /\ Block(s, p).currentPID = s.currentPID /\ Block(s, p).cpu = s.cpu
         /\ \A q \in PIDS \ {p} : Block(s, p).status[q] = s.status[q]
         /\ Alive(s, p) => Block(s, p).status[p] = "BLOCKED"
  BY DEF SchedInv, SchedStates, Block, SameStacks, Alive

LEMMA UnblockKeeps ==
  ASSUME NEW s, SchedInv(s), NEW p \in Int
  PROVE  /\ SameStacks(s, Unblock(s, p))
         /\ Unblock(s, p).currentPID = s.currentPID /\ Unblock(s, p).cpu = s.cpu
         /\ \A q \in PIDS \ {p} : Unblock(s, p).status[q] = s.status[q]
         /\ Alive(s, p) => Awake(Unblock(s, p), p)
         /\ ~Alive(s, p) => Unblock(s, p) = s
  BY DEF SchedInv, SchedStates, Unblock, SameStacks, Alive, Awake

LEMMA KillKeeps ==
  ASSUME NEW s, SchedInv(s), NEW dead \in SUBSET PIDS
  PROVE  /\ \A q \in PIDS \ dead :
               /\ ProcessWasKilled(s, dead).rsp[q] = s.rsp[q]
               /\ ProcessWasKilled(s, dead).status[q] = s.status[q]
         /\ \A q \in dead : ProcessWasKilled(s, dead).rsp[q] = NULL
         /\ ProcessWasKilled(s, dead).cpu = s.cpu
  BY DEF SchedInv, SchedStates, ProcessWasKilled

LEMMA CreatedKeeps ==
  ASSUME NEW s, SchedInv(s), NEW p \in PIDS, NEW prio \in Int
  PROVE  /\ \A q \in PIDS \ {p} :
               /\ ProcessWasCreated(s, p, prio).rsp[q] = s.rsp[q]
               /\ ProcessWasCreated(s, p, prio).status[q] = s.status[q]
         /\ ProcessWasCreated(s, p, prio).rsp[p] = p
         /\ ProcessWasCreated(s, p, prio).status[p] = "READY"
         /\ ProcessWasCreated(s, p, prio).currentPID = s.currentPID
         /\ ProcessWasCreated(s, p, prio).cpu = s.cpu
  BY DEF SchedInv, SchedStates, ProcessWasCreated

LEMMA NiceKeeps ==
  ASSUME NEW s, SchedInv(s), NEW p \in Int, NEW prio \in Int
  PROVE  /\ SameStacks(s, Nice(s, p, prio)) /\ Nice(s, p, prio).status = s.status
         /\ SameStacks(s, SetPriority(s, p, prio)) /\ SetPriority(s, p, prio).status = s.status
  BY DEF SchedInv, SchedStates, Nice, SetPriority, SameStacks

LEMMA SaveKeeps ==
  ASSUME NEW s, SchedInv(s)
  PROVE  SameStacks(s, SaveContext(s)) /\ SameAwake(s, SaveContext(s))
<1>1. SameStacks(s, SaveContext(s))
  BY SaveContextInv DEF SameStacks
<1>2. ASSUME NEW q \in PIDS
      PROVE  SaveContext(s).status[q] = IF q = s.currentPID /\ s.status[q] = "RUNNING"
                                        THEN "READY" ELSE s.status[q]
  <2>1. CASE q = s.currentPID
    <3>1. q # PID_KERNEL
      BY DEF PIDS
    <3> QED
      BY <2>1, <3>1 DEF SchedInv, SchedStates, SaveContext
  <2>2. CASE q # s.currentPID
    BY <2>2 DEF SchedInv, SchedStates, SaveContext
  <2> QED
    BY <2>1, <2>2
<1> QED
  BY <1>1, <1>2 DEF SameAwake, Awake

LEMMA RunKeeps ==
  ASSUME NEW s, s \in SchedStates, NEW p, Eligible(s, p), NEW quantum
  PROVE  SameStacks(s, Run(s, p, quantum)) /\ SameAwake(s, Run(s, p, quantum))
  BY DEF SchedStates, Run, SameStacks, SameAwake, Awake, Eligible, Alive

LEMMA SwitchKeeps ==
  ASSUME NEW s, SchedInv(s)
  PROVE  SameStacks(s, SwitchProcess(s)) /\ SameAwake(s, SwitchProcess(s))
<1> DEFINE saved   == SaveContext(s)
           cleared == [saved EXCEPT !.nextPID = NO_PROC]
           next    == GetNextReady(saved)
           t       == SwitchProcess(s)
<1>1. saved \in SchedStates
  BY SaveContextInv DEF SchedInv
<1>2. SameStacks(s, saved) /\ SameAwake(s, saved)
  BY SaveKeeps
<1> HIDE DEF saved
<1>3. /\ cleared \in SchedStates /\ SameStacks(saved, cleared) /\ SameAwake(saved, cleared)
      /\ \A p : Eligible(saved, p) => Eligible(cleared, p)
  BY <1>1 DEF SchedStates, SameStacks, SameAwake, Awake, Eligible, Alive
<1>4. next # PID_KERNEL => Eligible(saved, next)
  BY <1>1, GetNextReadyCorrect
<1> HIDE DEF next
<1>5. SameStacks(saved, Idle(saved)) /\ SameAwake(saved, Idle(saved))
  BY <1>1 DEF SchedStates, Idle, SameStacks, SameAwake, Awake
<1>6. \/ Eligible(saved, saved.nextPID)
            /\ t = Run(cleared, saved.nextPID, GetQuantum(saved, saved.nextPID))
      \/ \E p, q : Eligible(saved, p) /\ t = Run(saved, p, q)
      \/ t = Idle(saved)
  BY <1>4 DEF SwitchProcess, saved, next
<1> HIDE DEF t, cleared
<1>7. SameStacks(saved, t) /\ SameAwake(saved, t)
  <2>1. CASE t = Idle(saved)
    BY <2>1, <1>5
  <2>2. ASSUME NEW p, NEW q, Eligible(saved, p), t = Run(saved, p, q)
        PROVE  SameStacks(saved, t) /\ SameAwake(saved, t)
    BY <2>2, <1>1, RunKeeps
  <2>3. CASE /\ Eligible(saved, saved.nextPID)
             /\ t = Run(cleared, saved.nextPID, GetQuantum(saved, saved.nextPID))
    <3>1. SameStacks(cleared, t) /\ SameAwake(cleared, t)
      BY <2>3, <1>3, RunKeeps
    <3> QED
      BY <3>1, <1>3 DEF SameStacks, SameAwake
  <2> QED
    BY <1>6, <2>1, <2>2, <2>3
<1> QED
  BY <1>2, <1>7 DEF SameStacks, SameAwake, t

LEMMA YieldKeeps ==
  ASSUME NEW s, SchedInv(s)
  PROVE  SameStacks(s, YieldCpu(s)) /\ SameAwake(s, YieldCpu(s))
<1> DEFINE t == [s EXCEPT !.currentQuantum = 0]
<1>1. 0 \in 0..MAX_PRIORITY + QUANTUM
  BY PriorityAssumption
<1>2. SchedInv(t) /\ SameStacks(s, t) /\ SameAwake(s, t)
  BY <1>1 DEF SchedInv, SchedStates, SameStacks, SameAwake, Awake, Alive, StacksAreOwn,
              RunningIsCurrent, KilledIsEmpty, CurrentHasCpu, KernelIsSaved
<1>3. YieldCpu(s) = SwitchProcess(t)
  BY DEF YieldCpu
<1> HIDE DEF t
<1>4. SameStacks(t, YieldCpu(s)) /\ SameAwake(t, YieldCpu(s))
  BY <1>2, <1>3, SwitchKeeps
<1> QED
  BY <1>2, <1>4 DEF SameStacks, SameAwake

(* What a switch dispatches is RUNNING, and somebody has the CPU: a        *)
(* process or the boot context.                                            *)
CurrentRuns(s) ==
    /\ s.currentPID # NO_PROC
    /\ s.currentPID \in PIDS => s.status[s.currentPID] = "RUNNING"

LEMMA RunRuns ==
  ASSUME NEW s, s \in SchedStates, NEW p \in PIDS, NEW quantum
  PROVE  CurrentRuns(Run(s, p, quantum))
<1>1. Run(s, p, quantum).currentPID = p /\ Run(s, p, quantum).status[p] = "RUNNING"
  BY DEF SchedStates, Run
<1> QED
  BY <1>1 DEF CurrentRuns, PIDS

LEMMA SwitchRuns ==
  ASSUME NEW s, SchedInv(s)
  PROVE  CurrentRuns(SwitchProcess(s))
<1> DEFINE saved   == SaveContext(s)
           cleared == [saved EXCEPT !.nextPID = NO_PROC]
           next    == GetNextReady(saved)
           t       == SwitchProcess(s)
<1>1. saved \in SchedStates
  BY SaveContextInv DEF SchedInv
<1> HIDE DEF saved
<1>2. cleared \in SchedStates
  BY <1>1 DEF SchedStates
<1>3. next # PID_KERNEL => Eligible(saved, next)
  BY <1>1, GetNextReadyCorrect
<1> HIDE DEF next
<1>4. \/ Eligible(saved, saved.nextPID)
            /\ t = Run(cleared, saved.nextPID, GetQuantum(saved, saved.nextPID))
      \/ \E p, q : Eligible(saved, p) /\ t = Run(saved, p, q)
      \/ t = Idle(saved)
  BY <1>3 DEF SwitchProcess, saved, next
<1> HIDE DEF t, cleared
<1>5. CurrentRuns(Idle(saved))
  <2>1. Idle(saved).currentPID = PID_KERNEL
    BY <1>1 DEF SchedStates, Idle
  <2> QED
    BY <2>1 DEF CurrentRuns, PIDS
<1>6. \A p : Eligible(saved, p) => p \in PIDS
  BY DEF Eligible, Alive
<1>7. CurrentRuns(t)
  BY <1>1, <1>2, <1>4, <1>5, <1>6, RunRuns
<1> QED
  BY <1>7 DEF t

LEMMA YieldRuns ==
  ASSUME NEW s, SchedInv(s)
  PROVE  CurrentRuns(YieldCpu(s))
<1> DEFINE t == [s EXCEPT !.currentQuantum = 0]
<1>1. 0 \in 0..MAX_PRIORITY + QUANTUM
  BY PriorityAssumption
<1>2. SchedInv(t)
  BY <1>1 DEF SchedInv, SchedStates, Alive, StacksAreOwn, RunningIsCurrent, KilledIsEmpty,
              CurrentHasCpu, KernelIsSaved
<1> HIDE DEF t
<1> QED
  BY <1>2, SwitchRuns DEF YieldCpu, t

-----------------------------------------------------------------------------
(* The initial state and the steps.                                        *)

LEMMA InitInv == Init => SchedInv(sched)
<1> SUFFICES ASSUME Init PROVE SchedInv(sched)
  OBVIOUS
<1> DEFINE s == InitScheduler
<1>1. ValidPriority(MAX_PRIORITY) /\ 0 \in 0..MAX_PRIORITY + QUANTUM
         /\ 0 \in MIN_PRIORITY..MAX_PRIORITY /\ MAX_PRIORITY \in MIN_PRIORITY..MAX_PRIORITY
  BY PriorityAssumption DEF ValidPriority
<1>2. 0 \in PIDS
  BY TableAssumption DEF PIDS
<1>3. s \in SchedStates
  BY <1>1 DEF InitScheduler, SchedStates, STATUSES, STACKS
<1>4. /\ sched \in SchedStates
      /\ sched.currentPID = PID_KERNEL /\ sched.cpu = PID_KERNEL
      /\ \A p \in PIDS : sched.status[p] = "READY" /\ sched.rsp[p] \in {p, NULL}
  BY <1>1, <1>2, <1>3
  DEF Init, InitScheduler, ProcessWasCreated, SchedStates, STATUSES, STACKS
<1> QED
  BY <1>4
  DEF SchedInv, StacksAreOwn, RunningIsCurrent, KilledIsEmpty, CurrentHasCpu, KernelIsSaved, PIDS

(* What every step guarantees.                                             *)
GoodStep == SchedInv(sched)' /\ DispatchStep /\ IdleStep

LEMMA QuietStep ==
  ASSUME SchedInv(sched'), sched'.cpu = sched.cpu
  PROVE  GoodStep
  BY DEF GoodStep, DispatchStep, IdleStep

LEMMA NextStep ==
  ASSUME SchedInv(sched), [Next]_vars
  PROVE  GoodStep
<1>1. CASE Tick
  BY <1>1, SwitchInv DEF Tick, GoodStep, DispatchStep, IdleStep, Eligible, Alive
<1>2. CASE Yield
  BY <1>2, YieldInv DEF Yield, GoodStep, DispatchStep, IdleStep, Eligible, Alive
<1>3. CASE Exit
  <2> DEFINE dead == {sched.currentPID} \cap (PIDS \ {0})
             s    == ProcessWasKilled(sched, dead)
  <2>1. dead \in SUBSET PIDS
    OBVIOUS
  <2>2. SchedInv(s)
    BY <2>1, KilledInv
  <2>3. s.cpu = sched.cpu /\ \A q \in PIDS : Eligible(s, q) => Eligible(sched, q)
    BY <2>1, KillOnlyRemoves
  <2>4. sched' = YieldCpu(s)
    BY <1>3 DEF Exit
  <2> HIDE DEF s
  <2> QED
    BY <2>2, <2>3, <2>4, YieldInv DEF GoodStep, DispatchStep, IdleStep, Eligible, Alive
<1>4. CASE BlockAndYield
  <2> DEFINE s == Block(sched, sched.currentPID)
  <2>1. sched.currentPID \in Int
    BY DEF SchedInv, SchedStates, PIDS
  <2>2. SchedInv(s)
    BY <2>1, BlockInv
  <2>3. s.cpu = sched.cpu /\ \A q \in PIDS : Eligible(s, q) => Eligible(sched, q)
    BY <2>1, BlockOnlyRemoves
  <2>4. sched' = YieldCpu(s)
    BY <1>4 DEF BlockAndYield
  <2> HIDE DEF s
  <2> QED
    BY <2>2, <2>3, <2>4, YieldInv DEF GoodStep, DispatchStep, IdleStep, Eligible, Alive
<1>5. ASSUME NEW p \in PidArgs, SysBlock(p) PROVE GoodStep
  <2>1. p \in Int
    BY TableAssumption DEF PidArgs
  <2> QED
    BY <1>5, <2>1, BlockInv, BlockOnlyRemoves, QuietStep DEF SysBlock
<1>6. ASSUME NEW p \in PidArgs, Wake(p) PROVE GoodStep
  <2>1. p \in Int
    BY TableAssumption DEF PidArgs
  <2>2. Unblock(sched, p).cpu = sched.cpu
    BY DEF Unblock, SchedInv, SchedStates
  <2> QED
    BY <1>6, <2>1, <2>2, UnblockInv, QuietStep DEF Wake
<1>7. ASSUME NEW p \in PidArgs, NEW prio \in PriorityArgs, SysNice(p, prio) PROVE GoodStep
  <2>1. p \in Int /\ prio \in Int
    BY TableAssumption, PriorityAssumption DEF PidArgs
  <2>2. Nice(sched, p, prio).cpu = sched.cpu
    BY DEF Nice, SchedInv, SchedStates
  <2> QED
    BY <1>7, <2>1, <2>2, NiceInv, QuietStep DEF SysNice
<1>8. ASSUME NEW p \in PidArgs, NEW prio \in PriorityArgs, SysSetPriority(p, prio) PROVE GoodStep
  <2>1. p \in Int /\ prio \in Int
    BY TableAssumption, PriorityAssumption DEF PidArgs
  <2>2. SetPriority(sched, p, prio).cpu = sched.cpu
    BY DEF SetPriority, SchedInv, SchedStates
  <2> QED
    BY <1>8, <2>1, <2>2, SetPriorityInv, QuietStep DEF SysSetPriority
<1>9. ASSUME NEW p \in PIDS, NEW prio \in PriorityArgs, Create(p, prio) PROVE GoodStep
  <2>1. prio \in Int
    BY PriorityAssumption
  <2>2. sched.currentPID # NO_PROC /\ sched.rsp[p] = NULL
    BY <1>9 DEF Create, PIDS
  <2>3. ProcessWasCreated(sched, p, prio).cpu = sched.cpu
    BY DEF ProcessWasCreated, SchedInv, SchedStates
  <2> QED
    BY <1>9, <2>1, <2>2, <2>3, CreatedInv, QuietStep DEF Create
<1>10. ASSUME NEW dead \in (SUBSET (PIDS \ {0})) \ {{}}, Kill(dead) PROVE GoodStep
  <2>1. dead \in SUBSET PIDS
    OBVIOUS
  <2> QED
    BY <1>10, <2>1, KilledInv, KillOnlyRemoves, QuietStep DEF Kill
<1>11. CASE UNCHANGED vars
  BY <1>11, QuietStep DEF vars
<1> QED
  BY <1>1, <1>2, <1>3, <1>4, <1>5, <1>6, <1>7, <1>8, <1>9, <1>10, <1>11 DEF Next

-----------------------------------------------------------------------------
(* The theorems.                                                           *)

(* SchedInv is an inductive invariant of the scheduler                     *)
(* (switch_process, process_was_created, process_was_killed, block,        *)
(* unblock, nice, set_priority, called in any order).                      *)
THEOREM Invariance == Spec => []SchedInv(sched)
<1>1. SchedInv(sched) /\ [Next]_vars => SchedInv(sched)'
  BY NextStep DEF GoodStep
<1> QED
  BY <1>1, InitInv, PTL DEF Spec

(* The scheduler's variables stay in their ranges: no function stores a    *)
(* pid, a priority or a quantum outside them.                              *)
THEOREM TypeCorrect == Spec => []TypeOK
<1>1. SchedInv(sched) => TypeOK
  BY DEF SchedInv, TypeOK
<1> QED
  BY <1>1, Invariance, PTL

(* switch_process and process_was_killed never mix up saved contexts: at   *)
(* most one process is RUNNING, and currentPID names the stack in use.     *)
THEOREM Ownership == Spec => []CpuOwnership
<1>1. SchedInv(sched) => CpuOwnership
  BY DEF SchedInv, CpuOwnership
<1> QED
  BY <1>1, Invariance, PTL

(* switch_process gives the CPU to no dead or blocked process, whatever    *)
(* stale pid nextPID holds.                                                *)
THEOREM DispatchesReady == Spec => OnlyReadyDispatched
<1>1. SchedInv(sched) /\ [Next]_vars => DispatchStep
  BY NextStep DEF GoodStep
<1>2. DispatchStep => [DispatchStep]_vars
  OBVIOUS
<1> QED
  BY <1>1, <1>2, Invariance, PTL DEF Spec, OnlyReadyDispatched

(* switch_process goes back to the boot context only when nobody is READY. *)
THEOREM ConservesWork == Spec => WorkConserving
<1>1. SchedInv(sched) /\ [Next]_vars => IdleStep
  BY NextStep DEF GoodStep
<1> QED
  BY <1>1, Invariance, PTL DEF Spec, WorkConserving

=============================================================================
