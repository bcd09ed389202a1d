------------------------------ MODULE Processes ------------------------------
(***************************************************************************)
(* The process table of the kernel (Kernel/processes_scheduler/            *)
(* processes.c) over the scheduler: creation, the family tree, kill,       *)
(* kill_with_children (^C), and the two waits of scheduler.c that depend   *)
(* on who kills whom, wait_for_pid and wait_for_children.                  *)
(*                                                                         *)
(* A process that waits in the kernel resumes inside its system call, with *)
(* interrupts masked: until it has left the call or blocked again nothing  *)
(* else happens.  Every other primitive that blocks (semaphores, pipes,    *)
(* the keyboard) is BlockAndYield here, and what ends such a wait is Wake. *)
(***************************************************************************)
EXTENDS Scheduler, FiniteSetsExt

CONSTANTS
    Infos,          \* createProcessInfo records: fg, priority, input, output
    Creators,       \* the processes that create others
    Waiters,        \* the processes that wait for others
    PauseArgs,      \* pids that processes pass to the block system call
    WakeArgs,       \* pids unblocked by anything but the death of a child
    NiceArgs,       \* pids passed to the nice and set_priority system calls
    CtrlC           \* whether the user presses ^C

ASSUME InfosAssumption ==
    /\ \A info \in Infos : /\ info.fg \in BOOLEAN
                           /\ info.priority \in PriorityArgs
                           /\ info.input \in Nat /\ info.output \in Nat
    /\ Creators \subseteq PIDS /\ Waiters \subseteq PIDS
    /\ PauseArgs \subseteq Int
    /\ WakeArgs \subseteq Int
    /\ NiceArgs \subseteq Int
    /\ CtrlC \in BOOLEAN

STDIN  == 0
STDOUT == 1
STDERR == 2

Channels == {STDIN, STDOUT, STDERR}
            \cup {info.input : info \in Infos} \cup {info.output : info \in Infos}
Pipes    == Channels \ {STDIN, STDOUT, STDERR}

NOBODY    == -2     \* waitFor: not inside a wait
ANY_CHILD == -1     \* waitFor: inside wait_for_children

VARIABLES
    processArr,     \* the process table
    families,       \* the children of each process
    lastPID,        \* number of processes
    waitFor,        \* the wait each process is inside of
    eof             \* pipes that were sent an EOF by a dying process

procVars == <<processArr, families, lastPID, eof>>
allVars  == <<sched, processArr, families, lastPID, waitFor, eof>>

-----------------------------------------------------------------------------
Free == [used |-> FALSE, fg |-> FALSE, parent |-> 0, input |-> 0, output |-> 0]

ProcessS == [used : BOOLEAN, fg : BOOLEAN, parent : PIDS \cup {PID_KERNEL},
             input : Channels, output : Channels]

Used == {p \in PIDS : processArr[p].used}

(* find_pid                                                                *)
Find(p) == p \in Used

Children(p) == families[p].children

(* get_process_input and get_process_output of a process that exists; the  *)
(* shell's are the console whatever its slot says.                         *)
GetInput(p)  == IF p \in {NO_PROC, PID_KERNEL, 0} THEN STDIN  ELSE processArr[p].input
GetOutput(p) == IF p \in {NO_PROC, PID_KERNEL, 0} THEN STDOUT ELSE processArr[p].output

Current == sched.currentPID

(* The process on the CPU is inside a wait it has just been resumed in.    *)
InKernel == Current \in PIDS /\ waitFor[Current] # NOBODY

-----------------------------------------------------------------------------
(* create_process, called by a live process.  Failures of malloc leave     *)
(* everything as it was.                                                   *)
CreateProcess(info) ==
    LET parent == Current
        p      == Min(PIDS \ Used)
    IN  /\ ~InKernel
        /\ parent \in Used \cap Creators
        /\ PIDS \ Used # {}
        /\ processArr' = [processArr EXCEPT ![p] =
              [ used   |-> TRUE,
                fg     |-> info.fg,
                parent |-> parent,
                input  |-> IF GetInput(parent) # STDIN /\ info.input = STDIN
                           THEN GetInput(parent) ELSE info.input,
                output |-> IF GetOutput(parent) # STDOUT /\ info.output = STDOUT
                           THEN GetOutput(parent) ELSE info.output ]]
        /\ families' = [families EXCEPT ![parent] =
              [ children |-> @.children \cup {p},
                numberOfChildren |-> @.numberOfChildren + 1 ]]
        /\ sched' = ProcessWasCreated(sched, p, info.priority)
        /\ lastPID' = lastPID + 1
        /\ UNCHANGED <<waitFor, eof>>

(* Waking the parent only when the last child has gone.                    *)
RemoveChildMut(s, p) ==
    LET parent == processArr[p].parent
    IN  IF Children(parent) \ {p} # {}
        THEN s
        ELSE Unblock(s, parent)

(* remove_child as far as the scheduler sees it: the parent is unblocked   *)
(* unless another of its children is in the foreground.                    *)
RemoveChild(s, p) ==
    LET parent == processArr[p].parent
    IN  IF \E i \in Children(parent) \ {p} : processArr[i].fg
        THEN s
        ELSE Unblock(s, parent)

Orphans(dead) == (UNION {Children(d) : d \in dead}) \ dead

(* What is left of process i when dead are killed.  An orphan's parent is  *)
(* the shell from then on.                                                 *)
AfterDeathMut(i, dead) == IF i \in dead THEN Free ELSE processArr[i]

AfterDeath(i, dead) ==
    IF i \in dead THEN Free
    ELSE IF i \in Orphans(dead) THEN [processArr[i] EXCEPT !.parent = 0]
    ELSE processArr[i]

(* The children p loses and those it adopts.                               *)
Lost(p, dead)    == Children(p) \cap (IF p \in dead THEN PIDS ELSE dead)
Adopted(p, dead) == IF p = 0 THEN Orphans(dead) ELSE {}

(* Forgetting numberOfChildren-- in remove_child.                          *)
FamilyAfterMut(p, dead) ==
    [ children |-> (Children(p) \ Lost(p, dead)) \cup Adopted(p, dead),
      numberOfChildren |-> families[p].numberOfChildren + Cardinality(Adopted(p, dead)) ]

FamilyAfter(p, dead) ==
    [ children |-> (Children(p) \ Lost(p, dead)) \cup Adopted(p, dead),
      numberOfChildren |-> families[p].numberOfChildren
                           - Cardinality(Lost(p, dead)) + Cardinality(Adopted(p, dead)) ]

(* The tables after the processes of dead were killed one by one: their    *)
(* slots are zeroed, they leave their families, the shell adopts what they *)
(* leave behind (shell_adoption).                                          *)
Bury(dead) ==
    /\ processArr' = [i \in PIDS |-> AfterDeath(i, dead)]
    /\ families' = [p \in PIDS |-> FamilyAfter(p, dead)]
    /\ lastPID' = lastPID - Cardinality(dead)
    /\ waitFor' = [p \in PIDS |-> IF p \in dead THEN NOBODY ELSE waitFor[p]]

(* Signalling after the slot was zeroed: nothing is left to signal.        *)
SignalEofMut(dying) ==
    LET heard == {i \in dying : processArr'[i].used}
    IN  eof' = eof \cup ({processArr'[i].output : i \in heard} \cap Pipes)

(* The pipes of dying processes that kill sends an EOF: those of a process *)
(* whose parent writes to the console.                                     *)
SignalEof(dying) ==
    LET heard == {i \in dying : GetOutput(processArr[i].parent) = STDOUT}
    IN  eof' = eof \cup ({processArr[i].output : i \in heard} \cap Pipes)

(* kill: the scheduler's part.                                             *)
KillOne(s, p) == ProcessWasKilled(RemoveChild(s, p), {p})

(* Forgetting to kill the children in the scheduler's table.               *)
KillFamilyMut(s, p) == ProcessWasKilled(RemoveChild(s, p), {p})

(* kill_with_children: each child is killed in turn, and the last of them  *)
(* unblocks the process that is about to die.                              *)
KillFamily(s, p) ==
    LET removed == RemoveChild(s, p)
    IN  ProcessWasKilled(IF Children(p) # {} THEN Unblock(removed, p) ELSE removed,
                         {p} \cup Children(p))

Killable(p) == p # 0 /\ Find(p)

(* The kill system call.                                                   *)
SysKill(p) ==
    /\ InSyscall /\ ~InKernel
    /\ Killable(p)
    /\ sched' = KillOne(sched, p)
    /\ Bury({p})
    /\ SignalEof({p})

(* ^C, in any context that takes interrupts: the first foreground process  *)
(* dies with its children; only they, not it, end their pipes.             *)
KeyboardInterrupt ==
    LET foreground == {p \in Used \ {0} : processArr[p].fg}
        p == Min(foreground)
    IN  /\ CtrlC /\ ~InKernel
        /\ foreground # {}
        /\ sched' = KillFamily(sched, p)
        /\ Bury({p} \cup Children(p))
        /\ SignalEof(Children(p))

(* exit_process, and the return of a process's entry function.             *)
ExitProcess ==
    /\ InSyscall /\ ~InKernel
    /\ IF Killable(Current)
       THEN /\ sched' = YieldCpu(KillOne(sched, Current))
            /\ Bury({Current})
            /\ SignalEof({Current})
       ELSE /\ sched' = YieldCpu(sched)
            /\ UNCHANGED <<procVars, waitFor>>

-----------------------------------------------------------------------------
(* Waiting.                                                                *)

(* One turn of the loop in wait_for_pid, by the process on the CPU.        *)
WaitTurn(q) ==
    IF Alive(sched, q)
    THEN /\ sched' = YieldCpu(Block(sched, Current))
         /\ waitFor' = IF Current \in PIDS THEN [waitFor EXCEPT ![Current] = q]
                       ELSE waitFor
    ELSE /\ waitFor' = IF Current \in PIDS THEN [waitFor EXCEPT ![Current] = NOBODY]
                       ELSE waitFor
         /\ UNCHANGED sched

(* wait_for_pid with an if in place of its loop.                           *)
ResumeMut ==
    /\ InKernel
    /\ waitFor' = [waitFor EXCEPT ![Current] = NOBODY]
    /\ UNCHANGED sched
    /\ UNCHANGED procVars

MayWait == InSyscall /\ ~InKernel /\ Current \in Waiters \cup {NO_PROC}

WaitForPid(q) ==
    /\ MayWait
    /\ WaitTurn(q)
    /\ UNCHANGED procVars

WaitForChildren ==
    /\ MayWait
    /\ sched' = YieldCpu(Block(sched, Current))
    /\ waitFor' = IF Current \in PIDS THEN [waitFor EXCEPT ![Current] = ANY_CHILD]
                  ELSE waitFor
    /\ UNCHANGED procVars

(* The rest of either wait, when the process gets the CPU back.            *)
Resume ==
    /\ InKernel
    /\ IF waitFor[Current] = ANY_CHILD
       THEN /\ waitFor' = [waitFor EXCEPT ![Current] = NOBODY]
            /\ UNCHANGED sched
       ELSE WaitTurn(waitFor[Current])
    /\ UNCHANGED procVars

-----------------------------------------------------------------------------
(* What only the scheduler sees.                                           *)
TimerTick ==
    /\ ~InKernel
    /\ Tick
    /\ UNCHANGED <<procVars, waitFor>>

SchedulerCall ==
    /\ ~InKernel
    /\ \/ Yield
       \/ BlockAndYield
       \/ \E p \in PauseArgs : SysBlock(p)
       \/ \E p \in WakeArgs : Wake(p)
       \/ \E p \in NiceArgs, prio \in PriorityArgs :
              SysNice(p, prio) \/ SysSetPriority(p, prio)
    /\ UNCHANGED <<procVars, waitFor>>

(* The shell is the first process; the boot context is its parent.         *)
ProcInit ==
    /\ Init
    /\ processArr = [p \in PIDS |->
          IF p = 0 THEN [ used |-> TRUE, fg |-> TRUE, parent |-> PID_KERNEL,
                          input |-> STDIN, output |-> STDOUT ]
          ELSE Free]
    /\ families = [p \in PIDS |-> [children |-> {}, numberOfChildren |-> 0]]
    /\ lastPID = 1
    /\ waitFor = [p \in PIDS |-> NOBODY]
    /\ eof = {}

ProcNext ==
    \/ TimerTick
    \/ SchedulerCall
    \/ \E info \in Infos : CreateProcess(info)
    \/ \E p \in PIDS : SysKill(p)
    \/ KeyboardInterrupt
    \/ ExitProcess
    \/ \E q \in PIDS : WaitForPid(q)
    \/ WaitForChildren
    \/ Resume

ProcSpec == ProcInit /\ [][ProcNext]_allVars

-----------------------------------------------------------------------------
(* Properties.                                                             *)

ProcTypeOK ==
    /\ TypeOK
    /\ processArr \in [PIDS -> ProcessS]
    /\ \A p \in PIDS : families[p] \in [children : SUBSET PIDS, numberOfChildren : 0..MAX_PROCESSES]
    /\ lastPID \in 0..MAX_PROCESSES
    /\ waitFor \in [PIDS -> PIDS \cup {NOBODY, ANY_CHILD}]
    /\ eof \subseteq Pipes

(* childrenArr and the parent fields are two views of one relation, and    *)
(* numberOfChildren counts it.                                             *)
FamiliesMatchParents ==
    /\ \A p, i \in PIDS : i \in Children(p) <=> (i \in Used \ {0} /\ processArr[i].parent = p)
    /\ \A p \in PIDS : families[p].numberOfChildren = Cardinality(Children(p))

(* Every process but the shell has a live parent, and following parents    *)
(* leads to the shell: no group of processes is its own ancestry.          *)
OneTree ==
    /\ 0 \in Used
    /\ \A i \in Used \ {0} : processArr[i].parent \in Used
    /\ \A S \in (SUBSET (Used \ {0})) \ {{}} : \E i \in S : processArr[i].parent \notin S

(* However processes are created, killed, killed with their children and   *)
(* adopted, the family tree stays one tree rooted at the shell.            *)
FamilyTree == FamiliesMatchParents /\ OneTree

(* processArr and the scheduler's table always hold the same processes,    *)
(* lastPID counts them, and only they wait.                                *)
TablesAgree ==
    /\ \A p \in PIDS : p \in Used <=> Alive(sched, p)
    /\ lastPID = Cardinality(Used)
    /\ \A p \in PIDS : waitFor[p] # NOBODY => p \in Used

(* The types, and the scheduler's invariant in every interleaving of the   *)
(* process functions, which call several of its functions in one step.     *)
ProcSound == ProcTypeOK /\ CpuOwnership

(* A death wakes the parent that waits for it, whoever kills and however,  *)
(* unless another foreground child keeps the parent waiting.               *)
DeathWakesParentStep ==
    \A q \in Used : \A p \in Used :
        (/\ ~processArr'[q].used /\ processArr'[p].used
         /\ processArr[q].parent = p
         /\ waitFor[p] \in {q, ANY_CHILD}
         /\ ~\E i \in Children(p) \ {q} : processArr[i].fg)
        => sched'.status[p] \in {"READY", "RUNNING"}

DeathWakesParent == [][DeathWakesParentStep]_allVars

(* wait_for_pid never gives up before the process has died.                *)
WaitsToTheEndStep ==
    \A p \in PIDS :
        waitFor[p] \in PIDS /\ waitFor'[p] # waitFor[p] /\ processArr'[p].used
            => waitFor[p] \notin Used

WaitsToTheEnd == [][WaitsToTheEndStep]_allVars

(* A pipe's last writer that exits or is killed leaves an EOF behind for   *)
(* the readers, except on ^C.                                              *)
Writers(c) == {p \in Used : processArr[p].output = c}

EofAfterLastWriterStep ==
    \/ KeyboardInterrupt
    \/ \A c \in Pipes : Writers(c) # {} /\ Writers(c)' = {} => c \in eof'

EofAfterLastWriter == [][EofAfterLastWriterStep]_allVars

(* "Waits for children" (scheduler.h): a process blocked in                *)
(* wait_for_children has a child to wait for.                              *)
NoForgottenParent ==
    \A p \in Used : waitFor[p] = ANY_CHILD /\ sched.status[p] = "BLOCKED"
                        => Children(p) # {}

=============================================================================
