-------------------------------- MODULE Pipes --------------------------------
(***************************************************************************)
(* The pipes of the kernel (Kernel/pipes/pipe.c) over the semaphore table: *)
(* a ring of bytes, a semaphore that counts its bytes (read_sem) and one   *)
(* that counts its free places (write_sem).                                *)
(*                                                                         *)
(* A system call runs with interrupts masked, so a transfer moves bytes    *)
(* until it is done or one of its sem_waits blocks; when the process has   *)
(* been woken and dispatched it goes on from there (Resume).  Any process  *)
(* that is not blocked may be the next to run.                             *)
(*                                                                         *)
(* The n-th byte stored in a pipe is n % BYTES, which is enough to tell    *)
(* the bytes in a pipe, and the one before, apart.                         *)
(***************************************************************************)
EXTENDS SemTable

CONSTANTS
    Procs,          \* process ids
    MAX_PIPES,      \* slots of pipeList
    PIPE_SIZE,      \* bytes a pipe holds
    WORD,           \* values of an unsigned int, which amount is
    ReadSizes,      \* the byte counts callers ask for
    WriteSizes      \* the byte counts callers offer

ASSUME PipeAssumption ==
    /\ MAX_PIPES \in Nat \ {0} /\ PIPE_SIZE \in Nat \ {0}
    /\ WORD \in Nat /\ WORD > PIPE_SIZE
    /\ ReadSizes \subseteq Nat \ {0} /\ WriteSizes \subseteq Nat \ {0}

(* MAX_OPEN is MAX_PROCESSES, which sem_open uses for both its limits.     *)
ASSUME ProcsAssumption == IsFiniteSet(Procs) /\ Cardinality(Procs) <= MAX_OPEN

SLOTS == 0..MAX_PIPES - 1
PLACES == 0..PIPE_SIZE - 1
BYTES == PIPE_SIZE + 1
NO_PIPE == -1       \* INVALID_PIPE: find_pipe found none

VARIABLES
    kernel,     \* pipeList, active_pipes, the semaphores, the blocked processes
    call,       \* the transfer each process is inside of
    fd          \* the pipe each process has open, as a user of this module

pipeVars == <<kernel, call, fd>>

FreePipe ==
    [ claimed |-> FALSE, read_sem |-> 0, write_sem |-> 0, read_pos |-> 0, write_pos |-> 0,
      amount |-> 0, eof |-> FALSE, interested |-> 0, pipe |-> [x \in PLACES |-> 0],
      stored |-> 0, taken |-> 0 ]      \* the last two count bytes modulo BYTES: history

Kernel0 == [pipeList |-> [i \in SLOTS |-> FreePipe], active_pipes |-> 0,
            sems |-> NoSemaphores, asleep |-> {}]

NoCall == [kind |-> "none", pos |-> NO_PIPE, left |-> 0, syscall |-> FALSE]

Pipe(k, pos) == k.pipeList[pos]

(* sem_get sees every open semaphore.                                      *)
InSight(k) == OpenSems(k.sems) \subseteq 0..k.sems.active - 1

Claimed(k) == {i \in SLOTS : Pipe(k, i).claimed}

(* find_pipe; a pipe's id is its slot plus START_ID.                       *)
FindPipe(k, id) == IF id \in Claimed(k) THEN id ELSE NO_PIPE

(* create_sem_name: the prefix and the id.                                 *)
SemName(kind, pos) == <<kind, pos>>

-----------------------------------------------------------------------------
(* open_pipe(0) by process p: the slot is claimed before anything can      *)
(* fail, and stays claimed when a semaphore cannot be opened.  Without a   *)
(* free slot, the code looks up the pipe with the id NO_SPACE before it    *)
(* returns -1: far behind pipeList, in memory that is not mapped.  What    *)
(* that read does is not modelled; here open_pipe just fails.              *)
CanCreatePipe(k) == k.active_pipes # MAX_PIPES /\ Claimed(k) # SLOTS

NewSlot(k) == Min(SLOTS \ Claimed(k))

WriteSemOpened(k, p) == OpenSem(k.sems, p, SemName("semwrite", NewSlot(k)), PIPE_SIZE)

NewSems(k, p) ==
    [ write |-> OpenedSem(k.sems, p, SemName("semwrite", NewSlot(k)), PIPE_SIZE),
      read  |-> OpenedSem(WriteSemOpened(k, p), p, SemName("semread", NewSlot(k)), 0),
      table |-> OpenSem(WriteSemOpened(k, p), p, SemName("semread", NewSlot(k)), 0) ]

CreatePipe(k, p) ==
    LET pos  == NewSlot(k)
        new  == NewSems(k, p)
        made == [FreePipe EXCEPT !.claimed = TRUE, !.read_sem = new.read,
                                 !.write_sem = new.write, !.interested = 1]
    IN  IF ~CanCreatePipe(k) THEN k
        ELSE IF new.write = NO_SEM \/ new.read = NO_SEM
        THEN [k EXCEPT !.pipeList[pos].claimed = TRUE, !.sems = new.table]
        ELSE [k EXCEPT !.pipeList[pos] = made, !.sems = new.table,
                       !.active_pipes = k.active_pipes + 1]

CreatedPipe(k, p) ==
    IF ~CanCreatePipe(k) \/ NewSems(k, p).write = NO_SEM \/ NewSems(k, p).read = NO_SEM
    THEN NO_PIPE ELSE NewSlot(k)

(* Joining without being counted.                                          *)
JoinPipeMut(k, p, pos) ==
    [k EXCEPT !.sems = OpenSem(OpenSem(k.sems, p, SemName("semread", pos), 1),
                               p, SemName("semwrite", pos), 1)]

(* open_pipe of an existing id: both semaphores are opened by name.        *)
JoinPipe(k, p, pos) ==
    LET read  == OpenedSem(k.sems, p, SemName("semread", pos), 1)
        one   == OpenSem(k.sems, p, SemName("semread", pos), 1)
        write == OpenedSem(one, p, SemName("semwrite", pos), 1)
    IN  IF read = NO_SEM THEN k
        ELSE IF write = NO_SEM THEN [k EXCEPT !.sems = one]
        ELSE [k EXCEPT !.sems = OpenSem(one, p, SemName("semwrite", pos), 1),
                       !.pipeList[pos].interested = @ + 1]

(* close_pipe.                                                             *)
ClosePipe(k, p, pos) ==
    LET pipe   == Pipe(k, pos)
        closed == CloseSem(CloseSem(k.sems, pipe.read_sem, p), pipe.write_sem, p)
    IN  IF pipe.interested = 1
        THEN [k EXCEPT !.sems = closed, !.pipeList[pos] = [FreePipe EXCEPT !.eof = pipe.eof],
                       !.active_pipes = k.active_pipes - 1]
        ELSE [k EXCEPT !.sems = closed, !.pipeList[pos].interested = @ - 1]

(* signal_eof: nobody is woken.                                            *)
SetEof(k, pos) == [k EXCEPT !.pipeList[pos].eof = TRUE]

-----------------------------------------------------------------------------
(* Transfers.  A sem_wait on a semaphore the process is not interested in  *)
(* fails at once; the transfer does not look at its result.                *)
WaitSem(k, c) == IF c.kind = "read" THEN Pipe(k, c.pos).read_sem ELSE Pipe(k, c.pos).write_sem
PostsTo(k, c) == IF c.kind = "read" THEN Pipe(k, c.pos).write_sem ELSE Pipe(k, c.pos).read_sem

Permits(k, p, c) ==
    LET s == WaitSem(k, c)
    IN  IF Interested(k.sems, s, p) THEN Max({0, k.sems.list[s].sem_value}) ELSE c.left

AtEof(pipe) == pipe.eof /\ pipe.amount = 0

(* The bytes a transfer moves before it ends or blocks; a reader stops     *)
(* when a pipe that was sent an EOF is empty, but not before the byte it   *)
(* is waiting for already (owed).                                          *)
Moves(k, p, c, owed) ==
    LET pipe == Pipe(k, c.pos)
        some == Min({c.left, Permits(k, p, c)}
                    \cup IF c.kind = "read" /\ pipe.eof THEN {pipe.amount} ELSE {})
    IN  Max({owed, some})

(* Posting once for all the bytes of a transfer.                           *)
MovePermitsMut(k, p, c, n) ==
    LET t == TakeSem(k.sems, WaitSem(k, c), n)
    IN  [k EXCEPT !.sems = PostSem(t, PostsTo(k, c), 1),
                  !.asleep = @ \ WokenBy(t, PostsTo(k, c), 1)]

MovePermits(k, p, c, n) ==
    LET s == WaitSem(k, c)
        r == PostsTo(k, c)
        t == IF Interested(k.sems, s, p) THEN TakeSem(k.sems, s, n) ELSE k.sems
    IN  IF Interested(t, r, p)
        THEN [k EXCEPT !.sems = PostSem(t, r, n), !.asleep = @ \ WokenBy(t, r, n)]
        ELSE [k EXCEPT !.sems = t]

MoveBytes(pipe, kind, n) ==
    IF kind = "read"
    THEN [pipe EXCEPT !.read_pos = (@ + n) % PIPE_SIZE,
                      !.amount   = (@ - n + WORD) % WORD,
                      !.taken    = (@ + n) % BYTES]
    ELSE [pipe EXCEPT !.write_pos = (@ + n) % PIPE_SIZE,
                      !.amount    = (@ + n) % WORD,
                      !.stored    = (@ + n) % BYTES,
                      !.pipe = [x \in PLACES |->
                          LET i == (x - pipe.write_pos + PIPE_SIZE) % PIPE_SIZE
                              last == i + PIPE_SIZE * ((n - 1 - i) \div PIPE_SIZE)
                          IN  IF i < n THEN (pipe.stored + last) % BYTES ELSE @[x]]]

Move(k, p, c, n) ==
    [MovePermits(k, p, c, n) EXCEPT !.pipeList[c.pos] = MoveBytes(@, c.kind, n)]

Sleep(k, p, c) ==
    [k EXCEPT !.sems = EnqueueSem(k.sems, WaitSem(k, c), p), !.asleep = @ \cup {p}]

(* The loop of a transfer, as far as it gets: the state it leaves and what *)
(* is left of the call.  The read and write system calls close the pipe    *)
(* they opened.                                                            *)
Advance(k, p, c, owed) ==
    LET n     == Moves(k, p, c, owed)
        moved == Move(k, p, c, n)
        rest  == [c EXCEPT !.left = @ - n]
        done  == rest.left = 0 \/ (c.kind = "read" /\ AtEof(Pipe(moved, c.pos)))
    IN  IF ~done THEN [kernel |-> Sleep(moved, p, c), call |-> rest]
        ELSE [kernel |-> IF c.syscall THEN ClosePipe(moved, p, c.pos) ELSE moved,
              call |-> NoCall]

(* Going back to sleep without a place in the queue.                       *)
GoOnMut(k, p, c) ==
    IF Permits(k, p, c) = 0
    THEN [kernel |-> [k EXCEPT !.asleep = @ \cup {p}], call |-> c]
    ELSE Advance(k, p, c, 1)

(* A woken process that finds no permit goes back to sleep, wherever the   *)
(* EOF flag stands by now.                                                 *)
GoOn(k, p, c) ==
    IF Permits(k, p, c) = 0 THEN [kernel |-> Sleep(k, p, c), call |-> c]
    ELSE Advance(k, p, c, 1)

Transfer(kind, pos, size, syscall) ==
    [kind |-> kind, pos |-> pos, left |-> size, syscall |-> syscall]

Becomes(p, result) ==
    \E r \in {result} : kernel' = r.kernel /\ call' = [call EXCEPT ![p] = r.call]

-----------------------------------------------------------------------------
(* Processes that use the pipe calls directly, as test_pipe does: one of   *)
(* them creates a pipe, others open it, each opens it once and closes it   *)
(* when it is through.                                                     *)
Idle(p) == call[p].kind = "none"

SysCreatePipe(p) ==
    /\ Idle(p) /\ fd[p] = NO_PIPE
    /\ kernel' = CreatePipe(kernel, p)
    /\ fd' = [fd EXCEPT ![p] = CreatedPipe(kernel, p)]
    /\ UNCHANGED call

SysOpenPipe(p, id) ==
    /\ Idle(p) /\ fd[p] = NO_PIPE
    /\ \E q \in Procs : fd[q] = id
    /\ FindPipe(kernel, id) # NO_PIPE
    /\ kernel' = JoinPipe(kernel, p, id)
    /\ fd' = [fd EXCEPT ![p] = id]
    /\ UNCHANGED call

SysClosePipe(p) ==
    /\ Idle(p) /\ fd[p] # NO_PIPE
    /\ kernel' = ClosePipe(kernel, p, fd[p])
    /\ fd' = [fd EXCEPT ![p] = NO_PIPE]
    /\ UNCHANGED call

SysReadFromPipe(p, bytes) ==
    /\ Idle(p) /\ fd[p] # NO_PIPE
    /\ Becomes(p, Advance(kernel, p, Transfer("read", fd[p], bytes, FALSE), 0))
    /\ UNCHANGED fd

SysWriteToPipe(p, bytes) ==
    /\ Idle(p) /\ fd[p] # NO_PIPE
    /\ Becomes(p, Advance(kernel, p, Transfer("write", fd[p], bytes, FALSE), 0))
    /\ UNCHANGED fd

(* A sem_wait that accepts the wake-up as the permit.                      *)
ResumeMut(p) ==
    /\ ~Idle(p) /\ p \notin kernel.asleep
    /\ Becomes(p, Advance(kernel, p, call[p], 1))
    /\ UNCHANGED fd

Resume(p) ==
    /\ ~Idle(p) /\ p \notin kernel.asleep
    /\ Becomes(p, GoOn(kernel, p, call[p]))
    /\ UNCHANGED fd

PipeInit ==
    /\ kernel = Kernel0
    /\ call = [p \in Procs |-> NoCall]
    /\ fd = [p \in Procs |-> NO_PIPE]

PipeNext ==
    \E p \in Procs :
        \/ SysCreatePipe(p)
        \/ \E id \in SLOTS : SysOpenPipe(p, id)
        \/ SysClosePipe(p)
        \/ \E n \in ReadSizes : SysReadFromPipe(p, n)
        \/ \E n \in WriteSizes : SysWriteToPipe(p, n)
        \/ Resume(p)

PipeSpec == PipeInit /\ [][PipeNext]_pipeVars

(* A process that has been woken gets the CPU.                             *)
PipeFairSpec == PipeSpec /\ \A p \in Procs : WF_pipeVars(Resume(p))

-----------------------------------------------------------------------------
(* Properties.                                                             *)

PipeRecord ==
    [ claimed : BOOLEAN, read_sem : SEMS, write_sem : SEMS, read_pos : PLACES,
      write_pos : PLACES, amount : 0..WORD - 1, eof : BOOLEAN, interested : Nat,
      pipe : [PLACES -> 0..BYTES - 1], stored : 0..BYTES - 1, taken : 0..BYTES - 1 ]

PipeTypeOK ==
    /\ kernel.pipeList \in [SLOTS -> PipeRecord]
    /\ kernel.active_pipes \in 0..MAX_PIPES
    /\ kernel.asleep \subseteq Procs
    /\ fd \in [Procs -> SLOTS \cup {NO_PIPE}]
    /\ \A p \in Procs : call[p].pos \in SLOTS \cup {NO_PIPE} /\ call[p].left \in Nat

(* The pipes some live process has open.                                   *)
Held == {i \in SLOTS : \E p \in Procs : fd[p] = i}

(* The bytes in a pipe are those stored and not yet taken, oldest first.   *)
InOrder(pipe) ==
    /\ pipe.amount <= PIPE_SIZE
    /\ pipe.stored = (pipe.taken + pipe.amount) % BYTES
    /\ pipe.write_pos = (pipe.read_pos + pipe.amount) % PIPE_SIZE
    /\ \A i \in 0..PIPE_SIZE - 1 : i < pipe.amount =>
           pipe.pipe[(pipe.read_pos + i) % PIPE_SIZE] = (pipe.taken + i) % BYTES

(* "@returns bytes if succesful read" and write (pipe.h): with any number  *)
(* of readers and writers that come and go and block half way through a    *)
(* transfer, every byte comes out once and in the order in which the bytes *)
(* went in.  With several pipes this is lost when an older one is closed:  *)
(* the semaphores of the younger are not found any more and opened anew.   *)
BytesInOrder == \A i \in Held : InOrder(Pipe(kernel, i))

(* read_sem counts the bytes and write_sem the free places.                *)
PermitsMatchBytes ==
    \A i \in Held :
        LET pipe == Pipe(kernel, i)
        IN  /\ kernel.sems.list[pipe.read_sem].sem_value = pipe.amount
            /\ kernel.sems.list[pipe.write_sem].sem_value = PIPE_SIZE - pipe.amount

(* The types, and the counts.                                              *)
PipesSound == PipeTypeOK /\ PermitsMatchBytes

(* A pipe that a live process has open is not freed, its semaphores are    *)
(* still its own, and the process still has a right to them.               *)
HoldersKeepPipe ==
    \A p \in Procs : fd[p] # NO_PIPE =>
        LET pipe == Pipe(kernel, fd[p])
        IN  /\ pipe.claimed
            /\ Cardinality({q \in Procs : fd[q] = fd[p]}) <= pipe.interested
            /\ \A s \in {pipe.read_sem, pipe.write_sem} : Interested(kernel.sems, s, p)
            /\ kernel.sems.list[pipe.read_sem].name = SemName("semread", fd[p])
            /\ kernel.sems.list[pipe.write_sem].name = SemName("semwrite", fd[p])

(* A reader does not sleep for ever beside bytes, nor a writer beside free *)
(* places.                                                                 *)
Stalled(p, kind) ==
    /\ call[p].kind = kind
    /\ IF kind = "read" THEN Pipe(kernel, call[p].pos).amount > 0
       ELSE Pipe(kernel, call[p].pos).amount < PIPE_SIZE

TransfersGoOn ==
    \A p \in Procs : \A kind \in {"read", "write"} : Stalled(p, kind) ~> ~Stalled(p, kind)

=============================================================================
