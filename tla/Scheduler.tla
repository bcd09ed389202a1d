------------------------------ MODULE Scheduler ------------------------------
(***************************************************************************)
(* The process scheduler of the kernel (Kernel/processes_scheduler/        *)
(* scheduler.c) together with the interrupt entry points that call it.     *)
(*                                                                         *)
(* Every gate of the IDT is an interrupt gate, so kernel code runs with    *)
(* interrupts masked: a system call is atomic up to the point where it     *)
(* yields.  One call may run several scheduler functions, which is why     *)
(* each C function is an operator from a scheduler state s to the next     *)
(* one; the actions of this module and of the modules that extend it       *)
(* compose these operators.                                                *)
(***************************************************************************)
EXTENDS Integers, FiniteSets

CONSTANTS
    MAX_PROCESSES,      \* slots of the process table
    MAX_PRIORITY,       \* highest priority
    DEFAULT_PRIORITY,   \* given to a process created with a bad priority
    QUANTUM,            \* ticks granted on top of the priority
    PriorityArgs        \* the priorities callers pass, valid or not

ASSUME TableAssumption == MAX_PROCESSES \in Nat \ {0}

ASSUME PriorityAssumption ==
    /\ MAX_PRIORITY \in Nat
    /\ DEFAULT_PRIORITY \in 0..MAX_PRIORITY
    /\ QUANTUM \in Nat
    /\ PriorityArgs \subseteq Int

MIN_PRIORITY == 0
PID_KERNEL   == -1      \* the boot context, which idles in main's hlt loop
NO_PROC      == -2      \* "no process": the current one has been killed
NULL         == -3      \* a null stack pointer

PIDS     == 0..MAX_PROCESSES - 1
STACKS   == PIDS \cup {PID_KERNEL}      \* a stack is named by its owner
STATUSES == {"READY", "RUNNING", "BLOCKED", "KILLED"}

(* Arguments of the pid system calls, an out-of-range one on either side.  *)
PidArgs == PID_KERNEL..MAX_PROCESSES

VARIABLE sched

(* rsp is the saved stack pointer of each slot, cpu the stack the CPU is   *)
(* executing on.  A killed process still has the CPU until the next switch *)
(* when somebody else's handler killed it: cpu keeps naming its stack      *)
(* while currentPID is NO_PROC.                                            *)
SchedStates ==
    [ status         : [PIDS -> STATUSES],
      priority       : [PIDS -> MIN_PRIORITY..MAX_PRIORITY],
      rsp            : [PIDS -> STACKS \cup {NULL}],
      mainRSP        : {PID_KERNEL, NULL},
      currentPID     : PIDS \cup {PID_KERNEL, NO_PROC},
      nextPID        : PIDS \cup {NO_PROC},
      currentQuantum : 0..MAX_PRIORITY + QUANTUM,
      cpu            : STACKS ]

-----------------------------------------------------------------------------
(* Lookup.                                                                 *)

Alive(s, p) == p \in PIDS /\ s.rsp[p] # NULL

ValidPriority(prio) == MIN_PRIORITY <= prio /\ prio <= MAX_PRIORITY

(* Trusting the status alone: a slot never used is all zeros, READY.       *)
EligibleMut(s, p) == p \in PIDS /\ s.status[p] = "READY"

(* A slot switch_process may dispatch.  The C code also indexes the table  *)
(* with PID_KERNEL and NO_PROC; the words in front of the table read as a  *)
(* null stack pointer (README, "Out-of-range reads").                      *)
Eligible(s, p) == Alive(s, p) /\ s.status[p] = "READY"

GetQuantum(s, p) == QUANTUM + s.priority[p]

(* Slots in the order the round robin visits them, from first + 1 around   *)
(* the table to first itself.                                              *)
Distance(first, p) == IF p > first THEN p - first ELSE p + MAX_PROCESSES - first

(* Scanning from slot 0 instead of from the running slot.                  *)
GetNextReadyMut(s) ==
    LET ready == {p \in PIDS : Eligible(s, p)}
    IN  IF ready = {} THEN PID_KERNEL
        ELSE CHOOSE p \in ready : \A q \in ready : p <= q

(* Ending the scan before it comes back to the running process.            *)
GetNextReadyMut2(s) ==
    LET first == IF s.currentPID < 0 THEN 0 ELSE s.currentPID
        ready == {p \in PIDS \ {s.currentPID} : Eligible(s, p)}
    IN  IF ready = {} THEN PID_KERNEL
        ELSE CHOOSE p \in ready :
                \A q \in ready : Distance(first, p) <= Distance(first, q)

GetNextReady(s) ==
    LET first == IF s.currentPID < 0 THEN 0 ELSE s.currentPID
        ready == {p \in PIDS : Eligible(s, p)}
    IN  IF ready = {} THEN PID_KERNEL
        ELSE CHOOSE p \in ready :
                \A q \in ready : Distance(first, p) <= Distance(first, q)

-----------------------------------------------------------------------------
(* The scheduler's functions.                                              *)

InitScheduler ==
    [ status         |-> [p \in PIDS |-> "READY"],
      priority       |-> [p \in PIDS |-> 0],
      rsp            |-> [p \in PIDS |-> NULL],
      mainRSP        |-> NULL,
      currentPID     |-> PID_KERNEL,
      nextPID        |-> NO_PROC,
      currentQuantum |-> 0,
      cpu            |-> PID_KERNEL ]

ProcessWasCreated(s, p, prio) ==
    [s EXCEPT !.status[p]   = "READY",
              !.priority[p] = IF ValidPriority(prio) THEN prio ELSE DEFAULT_PRIORITY,
              !.rsp[p]      = p]

(* Forgetting that the dead process may be the current one.                *)
ProcessWasKilledMut(s, dead) ==
    [s EXCEPT !.status = [p \in PIDS |-> IF p \in dead THEN "KILLED" ELSE s.status[p]],
              !.rsp    = [p \in PIDS |-> IF p \in dead THEN NULL ELSE s.rsp[p]]]

(* Applied to a set of processes: one kill after the other, as             *)
(* kill_with_children does.                                                *)
ProcessWasKilled(s, dead) ==
    [s EXCEPT !.status = [p \in PIDS |->
                            IF p \in dead /\ Alive(s, p) THEN "KILLED" ELSE s.status[p]],
              !.rsp = [p \in PIDS |-> IF p \in dead THEN NULL ELSE s.rsp[p]],
              !.currentPID = IF s.currentPID \in dead THEN NO_PROC ELSE s.currentPID]

Block(s, p) ==
    IF ~Alive(s, p) THEN s
    ELSE [s EXCEPT !.status[p] = "BLOCKED",
                   !.currentQuantum = IF s.currentPID = PID_KERNEL THEN 0
                                      ELSE s.currentQuantum]

Unblock(s, p) ==
    IF ~Alive(s, p) \/ s.status[p] \in {"READY", "RUNNING"} THEN s
    ELSE [s EXCEPT !.status[p] = "READY",
                   !.nextPID = IF s.priority[p] >= MAX_PRIORITY \div 2 THEN p
                               ELSE s.nextPID]

Nice(s, p, newPrio) ==
    IF ~Alive(s, p) \/ p = 0 \/ ~ValidPriority(newPrio) THEN s
    ELSE [s EXCEPT !.priority[p] = newPrio,
                   !.nextPID = IF newPrio >= MAX_PRIORITY \div 2 /\ s.status[p] = "READY"
                               THEN p ELSE s.nextPID]

SetPriority(s, p, newPrio) ==
    IF ~Alive(s, p) \/ ~ValidPriority(newPrio) THEN s
    ELSE [s EXCEPT !.priority[p] = newPrio]

(* switch_process, first part: the interrupted context is saved in the     *)
(* slot of the current process, or in mainRSP; a killed one is dropped.    *)
SaveContext(s) ==
    IF s.currentPID = PID_KERNEL THEN [s EXCEPT !.mainRSP = s.cpu]
    ELSE IF s.currentPID \in PIDS
         THEN [s EXCEPT !.rsp[s.currentPID] = s.cpu,
                        !.status[s.currentPID] = IF @ = "RUNNING" THEN "READY" ELSE @]
         ELSE s

Run(s, p, quantum) ==
    [s EXCEPT !.currentPID     = p,
              !.currentQuantum = quantum,
              !.status[p]      = "RUNNING",
              !.cpu            = s.rsp[p]]

Idle(s) == [s EXCEPT !.currentPID     = PID_KERNEL,
                     !.currentQuantum = 0,
                     !.cpu            = s.mainRSP]

(* Trusting nextPID, set when the process was READY, to be READY still.    *)
SwitchProcessMut(s) ==
    LET saved == SaveContext(s)
        next  == GetNextReady(saved)
    IN  IF Alive(saved, saved.nextPID)
        THEN Run([saved EXCEPT !.nextPID = NO_PROC], saved.nextPID,
                 GetQuantum(saved, saved.nextPID))
        ELSE IF next = PID_KERNEL THEN Idle(saved)
        ELSE Run(saved, next, GetQuantum(saved, next))

SwitchProcess(s) ==
    LET saved == SaveContext(s)
        next  == GetNextReady(saved)
    IN  IF Eligible(saved, saved.nextPID)
        THEN Run([saved EXCEPT !.nextPID = NO_PROC], saved.nextPID,
                 GetQuantum(saved, saved.nextPID))
        ELSE IF Eligible(saved, saved.currentPID) /\ saved.currentQuantum # 0
        THEN Run(saved, saved.currentPID, saved.currentQuantum - 1)
        ELSE IF next = PID_KERNEL THEN Idle(saved)
        ELSE Run(saved, next, GetQuantum(saved, next))

YieldCpu(s) == SwitchProcess([s EXCEPT !.currentQuantum = 0])

-----------------------------------------------------------------------------
(* The callers.  A system call is issued by the process that owns the CPU; *)
(* the boot context only halts.  Interrupt handlers may wake or kill in    *)
(* any context.  A process killed by somebody else keeps issuing system    *)
(* calls until the next switch, now as NO_PROC.                            *)

InSyscall == sched.cpu # PID_KERNEL

(* main: the table is initialised and the shell created, then interrupts   *)
(* are enabled and the boot context halts until the first tick.            *)
Init == sched = ProcessWasCreated(InitScheduler, 0, MAX_PRIORITY)

(* IRQ0.                                                                   *)
Tick == sched' = SwitchProcess(sched)

(* The yield system call, and the end of the keyboard handler on ^C when   *)
(* there is nothing to kill.                                               *)
Yield == sched' = YieldCpu(sched)

SysBlock(p) ==
    /\ InSyscall
    /\ sched' = Block(sched, p)

(* The unblock system call, sem_post and pipe operations of a process, and *)
(* the keyboard handler.                                                   *)
Wake(p) == sched' = Unblock(sched, p)

SysNice(p, prio) ==
    /\ InSyscall
    /\ sched' = Nice(sched, p, prio)

SysSetPriority(p, prio) ==
    /\ InSyscall
    /\ sched' = SetPriority(sched, p, prio)

(* create_process takes a slot without a process.  Only a live process     *)
(* creates (README, "Zombies").                                            *)
Create(p, prio) ==
    /\ sched.currentPID \in PIDS
    /\ sched.rsp[p] = NULL
    /\ sched' = ProcessWasCreated(sched, p, prio)

(* kill and kill_with_children, by a system call or by ^C: nobody yields.  *)
Kill(dead) == sched' = ProcessWasKilled(sched, dead)

(* exit_process; the shell cannot be killed and just yields.               *)
Exit ==
    /\ InSyscall
    /\ sched' = YieldCpu(ProcessWasKilled(sched, {sched.currentPID} \cap (PIDS \ {0})))

(* wait_for_children, one turn of wait_for_pid's loop, and every wait for  *)
(* a semaphore, a pipe or a key: block(currentPID); yield().               *)
BlockAndYield ==
    /\ InSyscall
    /\ sched' = YieldCpu(Block(sched, sched.currentPID))

Next ==
    \/ Tick
    \/ Yield
    \/ Exit
    \/ BlockAndYield
    \/ \E p \in PidArgs : SysBlock(p)
    \/ \E p \in PidArgs : Wake(p)
    \/ \E p \in PidArgs, prio \in PriorityArgs : SysNice(p, prio)
    \/ \E p \in PidArgs, prio \in PriorityArgs : SysSetPriority(p, prio)
    \/ \E p \in PIDS, prio \in PriorityArgs : Create(p, prio)
    \/ \E dead \in (SUBSET (PIDS \ {0})) \ {{}} : Kill(dead)

vars == <<sched>>

Spec == Init /\ [][Next]_vars

(* The timer interrupt keeps coming: nothing masks IRQ0 for ever, because  *)
(* every system call returns to user mode, yields or halts.                *)
FairSpec == Spec /\ WF_vars(Tick)

-----------------------------------------------------------------------------
(* Properties.                                                             *)

(* Every field stays in its range; the quantum never exceeds what one      *)
(* grant gives, so it cannot wrap its uint8_t.                             *)
TypeOK == sched \in SchedStates

(* Every live process has its own stack saved in its slot, never that of   *)
(* another process or of the boot context.                                 *)
StacksAreOwn(s) == \A p \in PIDS : s.rsp[p] \in {p, NULL}

(* RUNNING marks the current process and no other.                         *)
RunningIsCurrent(s) == \A p \in PIDS : s.status[p] = "RUNNING" => s.currentPID = p

(* KILLED marks an empty slot.                                             *)
KilledIsEmpty(s) == \A p \in PIDS : s.status[p] = "KILLED" => s.rsp[p] = NULL

(* currentPID tells the truth about the stack the CPU is on.               *)
CurrentHasCpu(s) ==
    /\ s.currentPID \in PIDS => Alive(s, s.currentPID) /\ s.cpu = s.currentPID
    /\ s.currentPID = PID_KERNEL => s.cpu = PID_KERNEL
    /\ s.currentPID = NO_PROC => s.cpu \in PIDS /\ ~Alive(s, s.cpu)

(* Once a process has run, the boot context is saved, so an idle switch    *)
(* has somewhere to go.                                                    *)
KernelIsSaved(s) == s.currentPID # PID_KERNEL => s.mainRSP = PID_KERNEL

(* Saved contexts never get mixed up: across preemption, yields, kills of  *)
(* the running process by an interrupt and slot reuse, each stack belongs  *)
(* to one process and currentPID names the stack the CPU is really on.     *)
CpuOwnership ==
    /\ StacksAreOwn(sched)
    /\ RunningIsCurrent(sched)
    /\ KilledIsEmpty(sched)
    /\ CurrentHasCpu(sched)
    /\ KernelIsSaved(sched)

(* The CPU changes hands only towards a process that was created and not   *)
(* killed since, and that nobody has blocked.                              *)
DispatchStep ==
    LET p == sched'.cpu
    IN  p \in PIDS \ {sched.cpu} => sched.rsp[p] # NULL /\ sched.status[p] = "READY"

OnlyReadyDispatched == [][DispatchStep]_vars

(* The CPU goes idle only when no process is ready.                        *)
IdleStep ==
    sched'.cpu = PID_KERNEL /\ sched.cpu # PID_KERNEL
        => \A p \in PIDS : ~Eligible(sched', p)

WorkConserving == [][IdleStep]_vars

(* The round robin starves nobody once boosts through nextPID and deaths   *)
(* have stopped: either lets some process overtake the others for ever.    *)
CalmStep ==
    /\ sched'.nextPID = NO_PROC
    /\ \A p \in PIDS : sched.rsp[p] # NULL => sched'.rsp[p] # NULL

NoStarvation ==
    <>[][CalmStep]_vars => \A p \in PIDS : []<>(~Eligible(sched, p))

=============================================================================
