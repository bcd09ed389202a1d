-------------------------------- MODULE Shell --------------------------------
(***************************************************************************)
(* The shell (Userland/SampleCodeModule/shell.c) and the processes it runs:*)
(* a line is refused, run as one process, or run as a producer and a       *)
(* consumer joined by a pipe, in the foreground or with "-b" in the        *)
(* background.  The processes use the read and write system calls, which   *)
(* open and close the pipe around every transfer; they end by themselves   *)
(* or by ^C.  Process 0 is the shell; fd[0] is the pipe it has open.       *)
(***************************************************************************)
EXTENDS Pipes, SequencesExt

CONSTANTS Lines         \* what the user types: argument vectors of interpret

VARIABLES
    procs,      \* the processes the shell has started, by pid
    bg_flag,
    job,        \* how far the shell is with its line
    lost,       \* history: per pipe, the users that will never close it
    hole        \* an open semaphore is out of sem_get's sight

shellVars == <<kernel, call, fd, procs, bg_flag, job, lost, hole>>

(* Pids are numbers, and 0 is the shell.                                   *)
ASSUME ShellAssumption == Procs \subseteq Nat /\ 0 \in Procs

Pids == Procs \ {0}

Dead == [alive |-> FALSE, fg |-> FALSE, input |-> NO_PIPE, output |-> NO_PIPE, over |-> FALSE]

Process(fg, input, output) ==
    [alive |-> TRUE, fg |-> fg, input |-> input, output |-> output, over |-> FALSE]

Alive == {p \in Pids : procs[p].alive}

-----------------------------------------------------------------------------
(* Lines.                                                                  *)

Pipeable == {"cat", "filter", "wc"}

numberArgs(command) ==
    CASE command \in {"testsync", "nice"} -> 2
      [] command \in {"testmm", "testproc", "kill", "block", "unblock", "phylo"} -> 1
      [] OTHER -> 0

commandList == Pipeable \cup
    { "help", "time", "eliminator", "regs", "clear", "scaledown", "scaleup", "divzero",
      "invalidopcode", "testmm", "testproc", "testprio", "testsync", "ps", "loop", "kill",
      "block", "unblock", "nice", "mem", "testpipe", "phylo" }

(* The loop of interpret over the arguments: a "-b" is dropped, the one    *)
(* that takes its place is only compared with "|", and what follows the    *)
(* first "|" is left as it is.                                             *)
Scan(line) ==
    LET Step(acc, arg) ==
            IF acc.piped THEN [acc EXCEPT !.right = Append(@, arg)]
            ELSE IF arg = "|" THEN [acc EXCEPT !.piped = TRUE]
            ELSE IF arg = "-b" /\ ~acc.dropped
            THEN [acc EXCEPT !.dropped = TRUE, !.bg = TRUE]
            ELSE [acc EXCEPT !.left = Append(@, arg), !.dropped = FALSE]
    IN  FoldLeft(Step, [left |-> <<>>, right |-> <<>>, piped |-> FALSE,
                        bg |-> FALSE, dropped |-> FALSE], line)

RunsAlone(scan) ==
    /\ ~scan.piped /\ scan.left # <<>>
    /\ Head(scan.left) \in commandList
    /\ Len(scan.left) - 1 = numberArgs(Head(scan.left))

RunsPiped(scan) ==
    /\ scan.piped /\ scan.left # <<>> /\ scan.right # <<>>
    /\ Head(scan.left) \in commandList
    /\ Head(scan.right) \in Pipeable

-----------------------------------------------------------------------------
(* The shell.                                                              *)
Prompt == [at |-> "prompt", pids |-> {}]
NO_PID == -1

NewPid == IF Pids = Alive THEN NO_PID ELSE Min(Pids \ Alive)

(* interpret, up to its first system call; bg_flag outlives a line that is *)
(* refused.                                                                *)
Interpret(line) ==
    /\ job.at = "prompt"
    /\ LET scan == Scan(line)
           opens == RunsPiped(scan) /\ CreatedPipe(kernel, 0) # NO_PIPE
       IN  /\ bg_flag' = (bg_flag \/ scan.bg)
           /\ kernel' = IF RunsPiped(scan) THEN CreatePipe(kernel, 0) ELSE kernel
           /\ fd' = IF opens THEN [fd EXCEPT ![0] = CreatedPipe(kernel, 0)] ELSE fd
           /\ job' = [job EXCEPT !.at = CASE RunsAlone(scan) -> "alone"
                                          [] opens -> "producer"
                                          [] OTHER -> "prompt"]
    /\ UNCHANGED <<call, procs, lost>>

(* sys_create_process, by the shell.                                       *)
Started(p, info) == procs' = IF p = NO_PID THEN procs ELSE [procs EXCEPT ![p] = info]

CreateAlone ==
    /\ job.at = "alone"
    /\ Started(NewPid, Process(~bg_flag, NO_PIPE, NO_PIPE))
    /\ job' = IF bg_flag THEN Prompt ELSE [at |-> "waits", pids |-> {NewPid} \ {NO_PID}]
    /\ bg_flag' = FALSE
    /\ UNCHANGED <<kernel, call, fd, lost>>

(* When one of the two processes of a pipeline cannot be created the shell *)
(* returns to its prompt: nobody will close the pipe.                      *)
GiveUp ==
    /\ job' = Prompt
    /\ lost' = [lost EXCEPT ![fd[0]] = @ + 1]
    /\ fd' = [fd EXCEPT ![0] = NO_PIPE]

CreateProducer ==
    /\ job.at = "producer"
    /\ Started(NewPid, Process(~bg_flag, NO_PIPE, fd[0]))
    /\ IF NewPid = NO_PID THEN GiveUp
       ELSE job' = [at |-> "consumer", pids |-> {NewPid}] /\ UNCHANGED <<fd, lost>>
    /\ UNCHANGED <<kernel, call, bg_flag>>

CreateConsumer ==
    /\ job.at = "consumer"
    /\ Started(NewPid, Process(~bg_flag, fd[0], NO_PIPE))
    /\ IF NewPid = NO_PID THEN GiveUp
       ELSE job' = [at |-> "pipeline", pids |-> job.pids \cup {NewPid}] /\ UNCHANGED <<fd, lost>>
    /\ UNCHANGED <<kernel, call, bg_flag>>

Waited == \A p \in job.pids : ~procs[p].alive

WaitedAlone ==
    /\ job.at = "waits" /\ Waited
    /\ job' = Prompt
    /\ UNCHANGED <<kernel, call, fd, procs, bg_flag, lost>>

(* Closing without waiting.                                                *)
ClosesPipelineMut ==
    /\ job.at = "pipeline"
    /\ kernel' = ClosePipe(kernel, 0, fd[0])
    /\ fd' = [fd EXCEPT ![0] = NO_PIPE]
    /\ job' = Prompt
    /\ bg_flag' = FALSE
    /\ UNCHANGED <<call, procs, lost>>

ClosesPipeline ==
    /\ job.at = "pipeline" /\ (bg_flag \/ Waited)
    /\ kernel' = ClosePipe(kernel, 0, fd[0])
    /\ fd' = [fd EXCEPT ![0] = NO_PIPE]
    /\ job' = Prompt
    /\ bg_flag' = FALSE
    /\ UNCHANGED <<call, procs, lost>>

-----------------------------------------------------------------------------
(* The processes it has started.  Neither system call looks at what        *)
(* open_pipe returns; a pipe that is gone is an error, which ends a reader.*)
ReadPipe(p, bytes) ==
    /\ Idle(p) /\ procs[p].input # NO_PIPE /\ ~procs[p].over
    /\ LET pos == procs[p].input
       IN  IF FindPipe(kernel, pos) = NO_PIPE
           THEN /\ procs' = [procs EXCEPT ![p].over = TRUE]
                /\ UNCHANGED <<kernel, call>>
           ELSE /\ procs' = [procs EXCEPT ![p].over = AtEof(Pipe(kernel, pos))]
                /\ Becomes(p, Advance(JoinPipe(kernel, p, pos), p,
                                      Transfer("read", pos, bytes, TRUE), 0))
    /\ UNCHANGED <<fd, bg_flag, job, lost>>

(* Leaving out the close_pipe at the end of write.                         *)
WritePipeMut(p, bytes) ==
    /\ Idle(p) /\ FindPipe(kernel, procs[p].output) # NO_PIPE
    /\ Becomes(p, Advance(JoinPipe(kernel, p, procs[p].output), p,
                          Transfer("write", procs[p].output, bytes, FALSE), 0))
    /\ UNCHANGED <<fd, procs, bg_flag, job, lost>>

WritePipe(p, bytes) ==
    /\ Idle(p) /\ FindPipe(kernel, procs[p].output) # NO_PIPE
    /\ Becomes(p, Advance(JoinPipe(kernel, p, procs[p].output), p,
                          Transfer("write", procs[p].output, bytes, TRUE), 0))
    /\ UNCHANGED <<fd, procs, bg_flag, job, lost>>

GoesOn(p) == Resume(p) /\ UNCHANGED <<procs, bg_flag, job, lost>>

(* A process that ends while its semaphores keep its pid, and in a         *)
(* transfer its pipe the count of it.                                      *)
Ends(p) ==
    /\ procs' = [procs EXCEPT ![p] = Dead]
    /\ call' = [call EXCEPT ![p] = NoCall]
    /\ lost' = IF Idle(p) THEN lost ELSE [lost EXCEPT ![call[p].pos] = @ + 1]
    /\ UNCHANGED <<fd, bg_flag, job>>

(* kill sends the end of file down the output of the process.              *)
Hangup(k, id) == IF FindPipe(k, id) = NO_PIPE THEN k ELSE SetEof(k, id)

(* A reader ends when a read has failed, the others when they like.        *)
Exit(p) ==
    /\ p \in Alive /\ Idle(p)
    /\ procs[p].input = NO_PIPE \/ procs[p].over
    /\ kernel' = Hangup(kernel, procs[p].output)
    /\ Ends(p)

(* ^C: kill_with_children, which does not send an end of file.             *)
Foreground == {p \in Alive : procs[p].fg}

CtrlC ==
    /\ Foreground # {}
    /\ kernel' = [kernel EXCEPT !.asleep = @ \ {Min(Foreground)}]
    /\ Ends(Min(Foreground))

ShellInit ==
    /\ PipeInit
    /\ procs = [p \in Pids |-> Dead]
    /\ bg_flag = FALSE
    /\ job = Prompt
    /\ lost = [i \in SLOTS |-> 0]
    /\ hole = FALSE

ShellStep ==
    \/ \E line \in Lines : Interpret(line)
    \/ CreateAlone
    \/ CreateProducer
    \/ CreateConsumer
    \/ WaitedAlone
    \/ ClosesPipeline
    \/ CtrlC
    \/ \E p \in Alive :
          \/ \E n \in ReadSizes : ReadPipe(p, n)
          \/ \E n \in WriteSizes : WritePipe(p, n)
          \/ GoesOn(p)
          \/ Exit(p)

(* A bound: what follows a hole is not explored, because pipes then have   *)
(* the wrong semaphores and no end of states.                              *)
ShellNext == ~hole /\ ShellStep /\ hole' = ~InSight(kernel')

ShellSpec == ShellInit /\ [][ShellNext]_shellVars

(* A process that can go on in the kernel gets the CPU.                     *)
RunsOn(p) == p \in Alive /\ GoesOn(p) /\ hole' = ~InSight(kernel')

ShellFairSpec == ShellSpec /\ \A p \in Pids : WF_shellVars(RunsOn(p))

-----------------------------------------------------------------------------
(* Properties.                                                             *)

ShellTypeOK ==
    /\ PipeTypeOK
    /\ procs \in [Pids -> [alive : BOOLEAN, fg : BOOLEAN, over : BOOLEAN,
                           input : SLOTS \cup {NO_PIPE}, output : SLOTS \cup {NO_PIPE}]]
    /\ bg_flag \in BOOLEAN /\ hole \in BOOLEAN
    /\ lost \in [SLOTS -> Nat]
    /\ job.pids \subseteq Pids
    /\ job.at \in {"prompt", "alone", "producer", "consumer", "waits", "pipeline"}
    /\ (fd[0] # NO_PIPE) = (job.at \in {"producer", "consumer", "pipeline"})

(* A pipe is kept for exactly those who will close it: the shell while it  *)
(* runs the pipeline, the processes inside a transfer, and those that were *)
(* killed there or a shell that gave up, which never do.  A background     *)
(* pipeline that outlives its pipe does not change that.                   *)
InterestIsUsers ==
    \A i \in Claimed(kernel) :
        Pipe(kernel, i).interested =
            Cardinality({p \in Procs : fd[p] = i} \cup {p \in Pids : call[p].pos = i}) + lost[i]

(* The types, and the users of the pipes.                                  *)
ShellSound == ShellTypeOK /\ InterestIsUsers

(* With processes killed in the middle of a transfer, pids taken again and *)
(* pipelines in the background, the bytes of the shell's pipe stay in      *)
(* order and its semaphores keep their count, as long as no semaphore has  *)
(* been closed before an older one.                                        *)
PipelineInOrder == ~hole => BytesInOrder /\ PermitsMatchBytes

(* At the prompt no foreground process is left, unless the process table   *)
(* was full in the middle of a pipeline.                                   *)
PromptIsFree ==
    job.at = "prompt" /\ (\A i \in SLOTS : lost[i] = 0) => Foreground = {}

(* "Reads until bytes is up or pipe sends EOF" (pipe.h): a reader whose    *)
(* pipe has been sent an end of file gets out of its read.                 *)
InRead(p) == call[p].kind = "read" /\ Pipe(kernel, call[p].pos).eof

ReaderEnds == \A p \in Pids : InRead(p) ~> ~InRead(p)

=============================================================================
