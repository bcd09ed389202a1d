# caOS in TLA+

A verification development for caOS, a small 64-bit kernel with a round robin
scheduler, a family tree of processes, named semaphores, pipes, a keyboard
buffer, two interchangeable memory managers, and a userland with a shell,
commands, a game and dining philosophers. The models are written from the C
and assembly sources; `PROJECT.json` maps each definition to the lines it
stands for.

    tlc -workers 2 -config MCScheduler.cfg MCScheduler
    tlapm SchedulerProofs.tla        # and every other *Proofs.tla, DataLemmas.tla

## 1. The system

| component | state | operations | talks to | modules |
|---|---|---|---|---|
| scheduler (`scheduler.c`, `interrupts.asm`) | `processTable` (status, priority, saved stack pointer), `currentPID`, `nextPID`, `currentQuantum`, `mainRSP` | `switch_process`, `yield`, `block`, `unblock`, `nice`, `set_priority`, `process_was_created`, `process_was_killed` | called by everything that blocks; the timer calls `switch_process` | `Scheduler` |
| process table (`processes.c`) | `processArr`, `families`, `lastPID` | `create_process`, `kill`, `kill_with_children`, both waits, foreground flags, redirections | scheduler, memory manager, pipes (`signal_eof`) | `Processes` |
| semaphores (`semaphores.c`) | 255 slots: name, value, lock, interested and waiting processes; `active` | `sem_open`, `sem_close`, `sem_wait`, `sem_post` | `block`/`unblock`; userland, pipes | `SemTable`, `Semaphores`, `CountingSemaphore` |
| pipes (`pipe.c`) | ring, indices, eof flag, two semaphores each | open, close, read, write, `signal_eof` | semaphores; `read`/`write` system calls; `kill` | `Pipes`, `Shell` |
| shell (`shell.c`) | command line, background flag, the pipe of a pipeline | commands, pipelines | processes, pipes, waits, keyboard, screen | `Shell`, `Console`, `Library` |
| keyboard (`keyboardDriver.c`) | ring buffer, indices, `waitingToRead`, modifier flags | key handler (IRQ1), `get_buffer`, `clean_read`, ^C, ^D | `kill_with_children`, `unblock` | `Keyboard` |
| screen (`videoDriver.c`) | cursor, scale, what is drawn | `put_char_cursor`, `print`, scrolling, scales | every program that prints | `Console` |
| memory managers (`memory/`) | free list, or buddy levels; counters | `malloc`, `free`, `get_memory_info` | processes, semaphores, pipes, userland | `Heap`, `FreeList`, `Buddy` |
| phylo (`phylo.c`) | philosophers, their states, semaphores, a mutex | take and put forks, add, remove | semaphores, processes, keyboard | `Phylo` |
| eliminator (`eliminator.c`) | two heads, their directions, the painted board | steer, move, lose, play again | keyboard, screen | `Eliminator` |
| commands (`commands.c`, `utils.c`, `_loader.c`) | local buffers | `cat`, `wc`, `filter`, `time`, `regs`, `ps` | `read`, `write` | `Streams`, `Library` |
| system calls (`syscallHandler.c`, `libSysCalls.c`) | the table | `read`, `write`, `exit_process`, dispatch | all of the above | with what they act on; `Library` |
| boot image (`ModulePacker`, `moduleLoader.c`, `bmfs.c`) | the packed image; the disk's directory and blocks | pack, load; format, create, write, delete | the kernel's start | `Library`, `Bmfs` |
| exceptions (`exceptions.c`) | none | show the registers, restart `main` | all of the above | registers in `Library` |

What makes the code hard to test:

- **One processor, but real interleavings.** All IDT gates are interrupt
  gates, so a system call runs alone until it yields; at each yield any other
  process, and the timer and keyboard handlers, may change every table before
  the caller goes on. `block(...); yield();` in a loop is the only form of
  waiting, and who wakes the waiter is spread over four files. (`sys_wait` is
  the exception: it waits for ticks with interrupts on.)
- **Death.** A process dies by its own exit, a `kill` of another process, or
  ^C in the keyboard interrupt, at any point where it can be interrupted. It
  may be the one on the CPU: then it runs on, without identity, until the next
  switch (a *zombie* below). It leaves children, waiters, queue entries,
  permits, and pipes that only it would have closed.
- **Reuse.** Pids, semaphore slots and pipe ids are array indices and are
  handed out again at once.

Per component, correctness means:

- scheduler: stacks are never mixed up; only live, ready processes are
  dispatched; no idling while somebody is ready; no starvation by the round
  robin itself.
- processes: one tree rooted at the shell; both tables agree; a wait ends
  when, and only when, what it waits for has happened.
- semaphores: values conserve permits; a wake-up is never lost while permits
  are available; queues stay within their arrays.
- pipes: bytes come out once and in order; a pipe lives as long as its users;
  nobody sleeps beside what he waits for.
- shell: the prompt returns to an empty foreground; pipes are kept for exactly
  those who will close them.
- keyboard: a read gives fresh keys in order; a key wakes a reader that waits.
- screen: the line that will run is the line that is shown.
- memory: blocks do not overlap and tile the heap; counters tell the truth.
- phylo: neighbours never eat together, also while seats change.
- programs and tools: each does what it is for, on every input of its bounds.

## 2. Plan

1. `Scheduler`, `SchedulerProofs`, `Processes` (done).
2. `Semaphores` over `Scheduler`, and the abstract counting semaphore it
   implements as long as nobody dies (done).
3. `Pipes` over the semaphore table, `Shell` over the pipes, `Keyboard`,
   `Console` (done).
4. `Heap` (abstract), `FreeList` and `Buddy` shown to implement it (done).
5. `Phylo` over the semaphore table; the game, the commands, the libraries
   and the boot image (done).
6. Proofs of the scheduler, the family tree, the semaphores and their
   refinement, the pipes, the shell over them, the keyboard, the console, both
   memory managers and their refinements, the philosophers, the game, the
   commands and the disk (done).

## 3. Modules

    Scheduler <- Processes                SemTable <- Pipes <- Shell
    Scheduler, SemTable <- Semaphores     SemTable <- Phylo
    CountingSemaphore, Heap: abstract, implemented by Semaphores, by
      FreeList and Buddy
    Managers = FreeList and Buddy; MCMachine = Keyboard, Console, Managers
      side by side
    MCPrograms = Phylo, Eliminator, Streams, Bmfs, Library side by side
    <X>Proofs extends X; DataLemmas: queues and intervals, for all of them

### Scheduler

`sched` is one record holding the C file's variables: a system call runs
several scheduler functions in one atomic step, so each C function is an
operator from a state to the next, and an action composes operators. `rsp[p]`
names the owner of the saved stack instead of its address; `cpu` is the stack
the processor is on. `SwitchProcess` is `switch_process`: `SaveContext`, then
the boost through `nextPID`, the rest of the quantum, or `GetNextReady`. The
do-while scan is the ready slot nearest after the current one (`Distance`).
`ProcessWasKilled` takes a set because `kill_with_children` kills several
processes in one call.

| action | code |
|---|---|
| `Tick` | `_irq00_handler` |
| `Yield` | `int 81h`; the end of the keyboard handler on ^C with nobody to kill |
| `SysBlock`, `Wake`, `SysNice`, `SysSetPriority` | the system calls; `Wake` is also every `unblock` from an interrupt |
| `Create`, `Kill` | the scheduler's part of `create_process`, `kill`, `kill_with_children` |
| `Exit`, `BlockAndYield` | `exit_process`; `block(currentPID); yield();` |

### Processes

Extends `Scheduler` with `processArr`, `families`, `lastPID`, the wait each
process is inside of (`waitFor`) and the pipes that were sent an EOF by
`kill` (`eof`). A wait is split at its `yield`: the call blocks and switches;
when the process is dispatched again it is in the kernel with interrupts
masked, so only `Resume` may follow (`InKernel`). `kill_with_children` is
given in closed form: the children die in one step, the last of them unblocks
the dying parent (which may leave its pid in `nextPID`), grandchildren go to
the shell. The constants `Creators`, `Waiters`, `PauseArgs`, `WakeArgs`,
`NiceArgs` and `CtrlC` say what the environment does; a run that narrows them
says so below.

### SemTable, Semaphores and CountingSemaphore

`SemTable` is the semaphore table as a value: what one call makes of it
(`OpenSem`, `CloseSem`, `EnqueueSem`, `TakeSem`, `PostSem`) and what the call
returns. Three modules use it, each with its own idea of who runs next.
`Semaphores` puts it on the scheduler. Each call runs to its end alone except
`sem_wait`, which is cut at its `yield`: `SemWait` up to the switch, `Resume`
from there, once per turn of the loop. A call that returns an error changes
nothing and is a stutter. Every lock is free between steps; the locks of slots
that were never opened are 0, which means taken, and `SpinForever` is a call
on one of those (`stuck`: nothing ever happens again). `Die`, like `kill`,
leaves the semaphores alone: dead pids stay interested and queued, and the
next process in the slot inherits both. The constants say what the
environment does: `Strays` lets callers pass ids they have not opened,
`SpuriousArgs` lists the pids that others wake, `Deaths` allows deaths;
`MaxValue` and `MaxQueue` bound values and queues.

`CountingSemaphore` is what users are promised: a value, a set of waiters,
permits that are taken once and by those who asked, and, fairly, a waiter
passes when there is a permit. `ImplementsCounting` maps the first slot to it.

### Pipes

`kernel` is the pipe table, the semaphore table and the set of sleepers;
`call[p]` is the transfer `p` is inside of and how much of it is left. A
transfer moves bytes until it is done or a `sem_wait` blocks (`Move` and its
parts); `Resume` goes on after the wake-up, on the same slot, whatever has
become of it. Any process that is awake may run next: that is every schedule
the round robin can make, and more. A byte is its number modulo `BYTES`, so
order and loss can be seen. A failed `sem_open` in `open_pipe` leaves the slot
claimed, as in the code.

### Shell

Extends `Pipes`. Process 0 is the shell: `interpret` up to its first system
call is one step, then the pipe, the producer, the consumer, the waits and the
close of `handle_piped_process` follow one by one (`job`). `Scan` keeps the
oddities of the loop over the arguments: the word that takes a dropped `-b`'s
place is not compared with `-b`, and `bg_flag` outlives a refused line. A
process reads and writes through the `read` and `write` system calls, which
open and close the pipe around every transfer; it ends by itself, then
`kill` sends its output pipe an EOF, or by ^C, which does not. `lost` counts
the users that will never close a pipe; `hole` becomes true once an open
semaphore is out of `sem_get`'s sight (`~InSight`, of `Pipes`); what follows is not explored, because
the pipes then have the wrong semaphores and their values no bound.

### Keyboard

`kb` is the driver: ring, indices, flags, the queue of readers. `KeyPress` is
the whole interrupt handler, `SysRead` and `ResumeRead` are `read` from the
keyboard up to and after its `yield`, `SysGetChar` is `get_char`. The driver
looks one place before and one behind its array; both are `before` and
`after`, anything the linker put there. A reader dies by ^C, which kills any of
them and cleans the ring, or by another process's `kill` (`KillReader`), which
leaves ring and queue as they are. `typed` is, per reader, what was typed
since it called; `fresh` is the places in the ring of the keys typed while
somebody was reading, until the next call of `read` passes over them, so
`KeysWakeReaders` looks at the whole ring and not only where a read would.
Three histories record the events after which the code is known not to keep
its promise: `wrapped` (the ring has been full), `swallowed` (a key woke a
process that had left its read, or that was killed before it looked) and
`behind` (`remove_char_from_buffer` moved `writeIndex` before `readIndex`: the
key is stored where the woken reader does not look). Lost with `behind` are
only the keys stored before `readIndex`, and that is all the property excepts.

### Console

The cursor and what each cell shows, in units of one character of scale 1;
`Type` is one turn of `insert_command`, `EndLine` the command that the line
runs in the foreground, `Background` another one beside it, `Call` one of their
system calls. Only a foreground process, or one that writes to `STDERR`,
prints. `Undrawn` are the keys without a glyph (tab, escape, the arrows, the
end of file): `insert_command` keeps them in the line, `put_char` draws nothing
and the cursor stays, so `LineIsShown` is about the characters of the line that
have a glyph. `PressCtrlC` and `PressCtrlD` are what `keyboard_handler` prints
itself, at the cursor of the line that the shell goes on with. `disturbed`
becomes true when a backspace in the first column takes a character from the
buffer only, when it takes one without a glyph and erases the one before, when
another program or ^C or ^D draws over the line, and is true from the start
when the prompt begins between two columns of the grid; `unsettled` between a
change of the scale, or a cursor put at the right edge, and the clearing of the
screen. `print` is a recursive function over the prefixes of the text.

### Heap, FreeList and Buddy

`Heap` says that `malloc` returns room nobody else has and `free` gives it
back. Requests are so small that their sum with the headers does not wrap in a
`size_t` (`ListAssumption`, `BuddyAssumption`). `FreeList` keeps the list in
its order, with headers, splitting, the merge of neighbours in the list, and
counters that wrap. In `Buddy` an address is an offset; order 0 is the order of
the smallest block. The managed heap is not a power of two, so the buddy of the
first whole block lies outside it: its header is `beyond`, unknown, and `wild`
says that a free looked for it in a list that does not hold it and walked past
the end, after which nothing more is said. `Managers` puts the two next to each
other: the build chooses one.

### Phylo

The philosophers use `SemTable` with a set of sleepers. `at[p]` is the place
in the code; whatever runs between taking the mutex and posting it is one
step, and the waits are steps of their own. Philosophers are killed wherever
they are; `leftover` records that one died with a permit granted and not
taken. Creating a process and opening a semaphore succeed; the order in which
a philosopher opens the semaphores of seats nobody has used yet is not kept;
every philosopher's pid is its seat.

### Eliminator, Streams, Bmfs

`Eliminator` is the game as moves on a board: keys come between moves, `Hit`
is the collision that `did_lose` finds before either player has drawn.
`Streams` cuts an input into every sequence of reads the kernel may answer
with, keyboard or pipe, and lets `cat`, `wc` and `filter` work on it. A read of
the keyboard begins with `clean_read`: `PassOver` is the keys that this loses,
those typed since the read before returned, at any point of the input and as
many as there are. `text` is the input without them; when ^D is among them, or
a command read an end and did not act on it, `unseen` becomes true. `Bmfs` is
the disk directory and its blocks; each action is one run of the tool.

### Library

The functions that keep no state: numbers and strings, `memcpy`, the packing
and loading of modules, the clock, the register dumps, `ps`'s columns, the
system call table. One call with arguments from small sets is a behaviour;
each property compares it with a definition of what it is for.

### Abstractions

- **Out-of-range reads.** `switch_process` reads `processTable[nextPID]` and
  `processTable[currentPID]` with -1 and -2. The models take the stack pointer
  found there to be null, so that such an entry is not dispatched. This holds
  of the memory in front of `processTable` as long as it is zero; it is an
  assumption on the link order, not something the code ensures. Likewise
  `add_child(PID_KERNEL, 0)` at boot writes in front of `families`, and
  `open_pipe` without a free slot looks the pipe with the id `NO_SPACE` up, far
  in front of `pipeList` (`pipe.c:82-83`): the models let that call fail.
- **Zombies.** A process killed while on the CPU may issue any system call as
  `NO_PROC` until the next switch, except `create_process`: that would write
  `families[-2]`, outside every table.
- `malloc` failures in `create_process` undo themselves and are stutters; in
  the pipes and semaphores `malloc` does not fail.
- `sem_get` passes the null name of a closed slot to `strcmp`; the models take
  it to equal no name, which holds while the bytes at address 0 spell none.
- `interestedProcesses` is a set: its order is never looked at.
- Callers of the heap free each pointer once, and ask for less than `SIZE_MAX`
  minus the headers. For more, the sum in `malloc` wraps and a block smaller
  than the request is handed out (`memoryManagement.c:35`,
  `buddyMemoryManagement.c:85`); the theorems about the heaps do not hold there.
- Names, arguments, memory lists and stack contents are left out where no
  property is about them.

## 4. Runs

| run | question | bounds |
|---|---|---|
| `scheduler` | are contexts kept apart, only ready processes dispatched, no idling with work; does the round robin starve nobody | 3 slots, priorities {-1, 0, 2} of 0..2 (invalid, unboosted, boosted), quantum 1 |
| `processes` | do deaths by every route wake waiting parents; is `wait_for_pid` never cut short; does the scheduler stay sound; do pipes get their EOF from a dying last writer | 3 slots, foreground and background commands, one pipe, inherited outputs, wake-ups and pauses at any time |
| `families` | is the family one tree, do the tables agree | 4 slots: shell, command, child and grandchild, so that ^C orphans a grandchild; only the shell waits |
| `semaphores` | is a wake-up ever lost, is the queue exact, is a lock ever kept across a yield, is this a counting semaphore | 4 processes, 1 semaphore, the shell boosted and the others not, values to 2; no deaths, no wake-ups from elsewhere |
| `sem_slots` | does `active` count, can a value become negative, is a semaphore closed under a waiter | 2 processes, 3 slots, 2 names, ids from -1, deaths, wake-ups of the shell at any time, stray ids; `active` reaches the limit `MAX_PROCESSES` with a slot to spare; may stop when somebody spins |
| `pipes` | are bytes kept in order, are semaphores and bytes in step, is a pipe ever freed under its holder, does a transfer stop | 3 processes, a pipe of 2 bytes, reads of 1 and 3, writes of 3; may stop when everybody waits for bytes that nobody writes |
| `shell` | are pipes kept for exactly their users, does the prompt come back to an empty foreground, does a pipeline keep its bytes in order | the shell and 2 processes, 2 pipes of 1 byte, transfers of 2, 10 lines with `\|`, `-b` and errors; may stop when a process waits for ever |
| `machine` | the keyboard, the screen and both heaps | 2 readers, each of which may be killed, a ring of 3, four keyboards (^C; backspace; ^D; shift and caps lock), histories to 2; a 6 by 4 screen, scales 1 and 2, 2 lines to 3 characters, one of them undrawn, beside five programs, ^C and ^D; heaps of 11 and 68 bytes |
| `programs` | the philosophers, the game, the commands, the disk, the libraries | 4 seats of which 2 are always taken; a 3 by 4 board; inputs to 4 characters; 3 entries, 5 blocks; ints of 7 bits |
| `forgotten_parent`, `reader_hangs`, `memory_drift` | disagreements, below | as `processes`, `shell` with one pipeline, `machine` |

`machine` and `programs` hold parts that share no state, one of which a
behaviour picks at its start; the others stay as they begin. They stop when
the part is through or its bound is reached.

Why the bounds are enough for the cases that matter:

- Three slots are the shell, a process and a sibling or a child: enough for
  preemption, boosts over a third party, slot reuse and the death of the
  current process. `QUANTUM` 1 with priorities up to 2 gives quanta of 1 to 3
  ticks, so a process is preempted with and without a rest.
- Four processes on one semaphore are two sleepers, a poster and a latecomer
  that takes the permit before the woken sleeper. In `semaphores` `MaxQueue`
  exceeds the number of processes, so it cuts nothing that
  `QueueIsTheSleepers` could see; in `sem_slots` it stops a queue that
  wake-ups from elsewhere would fill with the same process again and again.
- A pipe of 2 bytes with transfers of 3 blocks both sides in the middle;
  three processes give two readers or two writers.
- Two pipes are one in the background, closed by the shell and still used,
  and the next one.
- On the 6 by 4 screen a line of 3 wraps and scrolls at scale 2;
  the programs change the scale with and without clearing, and put the cursor
  between two columns and at the edge.
- The ring of 3 wraps and its index reaches the end; two keys of history keep
  the reads short, not the ring. A character and a backspace that nobody reads
  fit in it, and then the key that is stored behind the reader.
- In the 11-byte heap a block is split, handed out whole, freed out of order
  and merged; 12 values of `size_t` let the counters wrap. The 68-byte buddy
  heap has four orders, five lists and a buddy outside.
- `MAX_PHILOSOPHERS` 4 and `MIN_PHILOSOPHERS` 2 scale down 10 and 3: the table
  has seats that are taken, added and emptied, and the ring of neighbours
  closes over both. `MAX_TURNS` bounds what the process at the keyboard does
  in one behaviour, by the number of philosophers. `InSight` cuts the
  behaviours in which `sem_get` has lost sight of a seat's semaphore.
- The library's arguments are every int of 7 bits in both bases, every line
  of up to 5 characters, every pair of strings of up to 3, every overlap of
  two areas among 6 cells, every hour.

**Fairness.** `FairSpec` assumes that the timer keeps interrupting: interrupts
are masked only inside system calls, which return or yield. (A semaphore that
was never opened breaks this; in `SemFairSpec` nothing ticks once somebody
spins.) `SemFairSpec` adds that a process resumed in the kernel goes on, since
nothing else can run. In `PipeFairSpec` and `ShellFairSpec` a process that has
been woken runs in the end, which is what `NoStarvation` says of the round
robin; nobody has to begin a transfer, end or type. `NoStarvation` assumes in its premise
that boosts and deaths stop: a process unblocked with a high priority
overtakes the round robin each time, and after a death the scan restarts at
slot 0, so either can starve a slot for ever.

### Disagreements found

- `forgotten_parent`: `wait_for_children` blocks also when all children are
  dead already. Nothing wakes the caller: `test_sync` and `test_pipe` hang
  when their children finish first.
- `reader_hangs`: `pipe.h` promises that a read lasts until its bytes are
  there or the pipe has sent EOF; `signal_eof` only sets a flag, and a reader
  that already sleeps is never woken. In `cat | wc` this is `wc`, whenever it
  asks for its next byte before `cat` exits.
- `memory_drift`: the free-list manager's `allocatedSize` is not zero after
  everything has been freed; it wraps below zero once a block was handed out
  whole. `freeSize` loses a header at every `free` (`FreeSizeLosesHeaders`).

Seen on the way, and written into the premises of the properties or into the
models rather than into runs of their own:

- `wait_for_children` returns at the first death when the children are in the
  background; `wait_for_pid` sleeps on after its process has died while
  another foreground child lives. `DeathWakesParent` has both as its premise.
- A call on a semaphore that was never opened spins with interrupts masked
  (`SpinForever`); after a lower slot is closed `sem_get` does not find an
  open semaphore, and opening its name makes a second one (`hole`, `InSight`);
  a killed waiter at the head of a queue swallows the wake-up of a live one.
- A background pipeline's pipe is closed by the shell while its processes
  still use the id; when the second process cannot be created the first one
  blocks for ever on a pipe nobody reads (`lost`).
- A philosopher killed with a granted permit leaves it to the next one at the
  seat, who then dines beside an eating neighbour (`leftover`).
- After 1024 keys `clean_read` may leave an index one behind the ring, and old
  characters turn up again (`wrapped`).
- When a backspace was typed while nobody read, the next key is stored before
  the place where the reader looks: it is woken, sees nothing and sleeps beside
  the key (`behind`, `keyboardDriver.c:141-147`).
- `read` throws away what was typed since the read before it, ^D included
  (`clean_read`, `syscallHandler.c:47`): `cat` and `filter` at the keyboard
  drop input, `wc` does not count it, and a lost end leaves them waiting
  (`PassOver`, `unseen`).
- A tab, an escape, an arrow or ^D goes into the shell's line and is run with
  it, but is not shown (`videoDriver.c:157-159`, `shell.c:179-182`); a
  backspace over it erases another character's glyph. The handler's own `^C`
  and `^D` are printed beside a line that the shell keeps (`disturbed`).
- A program may leave the cursor at the right edge or between two columns:
  the next backspace then wraps the line and steps off the screen, or the line
  is not where the grid has its places (`unsettled`, `Aligned`).
- BMFS `create` may put a file on top of another one when a deleted entry
  comes first or the directory is full (`misled`).
- `regs` shows RBX under the name RAX (`RegistersAreLabelled`); `strncmp` takes
  a prefix for equal; `itoa` is wrong for the smallest int and for negative
  numbers in base 16.
- `help` says of `wc` "Count the number of lines, words, and bytes"
  (`commands.c:40`), but `wc` counts lines and nothing else
  (`commands.c:228`, `LinesAreCounted`); of `cat` "Print the contents of a file
  or echo the input" (`commands.c:39`), but it takes no file; and that pipes
  are written `-` (`commands.c:38`), but `interpret` looks for `|`
  (`shell.c:112`).
- `help` lists `phylo` among the commands that may be piped, `commandList`
  does not; the README names the free list as the default manager, the
  kernel's Makefile builds the buddy manager.

## 5. Proofs

Each theorem holds for every value of the constants that the named
assumptions of its module allow; `PROJECT.json` lists them with the properties
that the runs also check. The invariants below were checked by TLC before they
were proved.

**Scheduler** (`SchedulerProofs`). `SchedInv` is inductive. `CpuOwnership`
alone is not: that a dispatched slot holds its own stack (`StacksAreOwn`) is
kept by `SaveContext` only because `cpu` and `currentPID` agree
(`CurrentHasCpu`), which a kill keeps only because `KILLED` slots are empty,
and an idle switch needs `KernelIsSaved`. `TypeCorrect`, `Ownership`,
`DispatchesReady` and `ConservesWork` follow. There is one lemma per scheduler
function; the proofs about modules that compose the functions cite them.

**Processes** (`ProcessesProofs`). `ProcInv` adds to `SchedInv` the types of
the process table, its agreement with the scheduler's and the family tree. A
kill is sound only together: the tree says whose child the dead process is,
the agreement who of parent and children is alive to be woken or adopted. From
it follow `ProcSound`, `TablesAgree`, `FamilyTree` and the action properties
`DeathWakesParent` and `WaitsToTheEnd`. `EofAfterLastWriter` has a hypothesis
on the constants, `OutputsNest`: only the shell creates processes, or there is
one pipe to write to. Without it the property is false of the code: `kill`
lets the dying parent's output decide, and a child that writes to another pipe
leaves that one without an EOF.

**Semaphores** (`SemaphoresProofs`). `SemInv` puts the table's invariant next
to the scheduler's and says that who is inside `sem_wait` has the semaphore
open; it needs no hypothesis and gives `SemTypeOK` (no permit is taken that is
not there) and `SlotsSound`. `NobodySpins` needs `~Strays`: callers use what
they have opened. `QueueIsTheSleepers` and `NoLostWakeup` need `~Deaths` and
`SpuriousArgs = {}`, that is, nobody dies and only `sem_post` wakes; with
either, the code leaves pids in a queue that no longer sleep there.
Their invariant `QuietInv` counts, for each semaphore, the woken processes on
their way against the permits. `IsCountingSemaphore` is the refinement: every
step of `Semaphores` is, seen through the first slot, a step of
`CountingSemaphore` or a stutter, as long as nobody dies, spurious wake-ups
included.

**Pipes** (`PipesProofs`). `PipeInv`: every open pipe has two semaphores,
distinct from everyone else's, that are open for exactly its users; their
values are the bytes in the pipe and the places left, and the ring of the pipe
holds exactly the bytes between `taken` and `stored`. Opening and closing keep
this only if `sem_get` finds the semaphores a pipe already has, which the code
does not ensure (see the disagreements): `BytesInOrder`, `PipesSound` and
`HoldersKeepPipe` are proved for the behaviours in which every open semaphore
is in `sem_get`'s sight, `[]InSight(kernel)`. `OnePipeIsInSight` discharges
the hypothesis for one pipe (its semaphores are slots 0 and 1 and end
together), so `OnePipeIsSafe` has none. `ProcsAssumption` says that there are
no more processes than a semaphore has room for; `sem_open` then never fails
to join.

**Shell** (`PipesProofs`). Processes die inside a transfer here, and the next
one with the pid inherits what the dead one had open, so the users of a pipe,
the pids its semaphores are open for and the count in it are three different
things. `KInv` relates them: the count is the users and those that were lost;
the semaphores are open for every user, and for nobody else if nobody was
lost; whoever has them open is dead or was started with this pipe, so that
what the dead leave open never lets a process into another's pipe; and the
pipe that the shell holds is in order, lost users or not, because the shell
keeps its semaphores from being closed.
`ShellInv` adds where each process and the shell are (`CallsOK`, `JobInv`).
`JobInv` alone is inductive and gives `PromptIsFree` without a hypothesis: the
pids `interpret` still waits for are those of the foreground that are alive.
`ShellSound` and `PipelineInOrder` have the hypothesis `Roomy`: the two
semaphores of every claimed pipe fit what `sem_open` opens at most
(`MAX_PROCESSES`, 15, in the code), so at most seven pipes at a time. A
`create_pipe` that cannot open its semaphores leaves the slot claimed for nobody, and the
count is then wrong by the code. In the instance that TLC checks `Roomy` holds
in every state. `ShellAssumption` says that pids are numbers and 0 the shell.

**Keyboard** (`KeyboardProofs`). `KeyInv` relates ring, queue and readers:
the unread keys are a subsequence of what each reader has seen typed, and
while anybody sleeps there are no more unread keys than readers on their way.
The last part is a count because one key wakes one reader and a reader may
take several keys. `KeysFindReaders` is about every fresh key, wherever it
lies: `FreshInv` says that those which are still in the ring are among the
unread ones, from `readIndex` up, unless the index was moved back, and the
count then finds them a reader. All of it ends with `wrapped` (the index runs
over the end of the ring), the count with `swallowed`, and with `behind` the
promise about the keys before `readIndex`; the properties say so too.

**Console** (`KeyboardProofs`). `ConsInv` says that, while the scale is
settled, the next character has room, and a cursor that is not in the first
column has room for two (`Settled`): one column less than `CursorOnScreen`
would ask, because a backspace prints a space before it steps back. The proof
of `ConsoleSound` failed at first for that reason: `set_cursor` lets a program
put the cursor closer to the edge, the space then wraps the line, and the second
step back leaves the screen. `unsettled` covers that now (`AtEdge`), and the
programs that TLC runs do it. `LineInv` puts the line into the cells before
the cursor, counted in places of the grid of the scale: a character goes into
the next place, and its glyph covers no other (`GridApart`), a backspace takes
the last, and scrolling moves every place up by one row. The line that is
followed is that of the characters with a glyph (`ShownOf`), which one without
leaves as it is. It needs a
cursor on the grid when the prompt ends, which printing keeps but a program
that leaves the cursor between two columns does not (`Aligned`); so
`LineIsShown` excepts that too. The screen, the scales, the alphabet and the
programs are any (`ConsoleAssumption`: the largest scale fits the screen,
`cursorX` counts further than the width, and the characters without a glyph are
none of those that have one or move the cursor; `ProgramsAssumption`: the
coordinates of a system call are unsigned).

**Free list** (`HeapProofs`). `ListInv`: the free blocks and those handed out
tile the heap byte by byte, and a caller's bytes lie behind the header of the
block that holds them. What is asked of blocks is always asked of the bytes
they cover, so a split, a removal and a merge are each a set of bytes that
moves. `coalesce_free_blocks` is a recursive function over the prefixes of the
list; that it keeps the bytes of the list and its blocks apart
(`Coalescing`) is shown by its least counterexample. The counters wrap, so
that `freeSize` loses a header per free is proved modulo `SIZE_T`.
`ListRefinesHeap` is the refinement: every `malloc` and `free` is a step of
`Heap`. `ListAssumption` asks for a heap of more than two headers, and for
requests whose sum with two headers is a `size_t`.

**Buddy** (`HeapProofs`). `BuddyInv` relates three views of the heap. The
headers (`Tiling`): each block begins at a multiple of its size, and every
byte is in exactly one block. The lists (`Listed`): that of an order holds its
free blocks, each once. The callers (`InStep`): each used block has one, whose
bytes fit, and the counters are what that makes. Alignment is what the rest
hangs on. Two aligned blocks share no byte or one lies in the other
(`Nested`), so what begins where `get_buddy` points is no larger than the
block being freed, and with its size in its header it is the whole buddy; that
it is free puts it in the list that `free` then searches. `Merged`, that no
free block has a free buddy, is part of the invariant because the merge stops
at the first buddy that is not free: the block it stops at must not leave a
pair elsewhere. The counters hold because the bytes of disjoint blocks add up
to the bytes covered (`SumIsBytes`). With the block of the top order there is
no buddy inside the heap, and all ends where `beyond` lets `free` believe that
there is: `Behind`. `BuddyAssumption` asks for a block larger than its header,
a heap that holds one, as many lists as the heap has orders, and requests
whose sum with the header is a `size_t`.

**Philosophers** (`ProgramsProofs`). `TableInv` follows the number of seats
through the commands: neighbours change when a seat comes or goes, so
`NeighboursDoNotEat` needs that only the last seat changes and is empty or
its removal leaves two neighbours of whom one does not eat. `FeastInv` adds
the semaphores. A name is open once and a seat has the semaphore of its name,
so a post meant for a seat never reaches the mutex; the mutex is free, or
exactly one process is where it is held, and one that is left over between
feasts is free; whoever sits may use the mutex and its seat (a failing
`sem_wait` would let it through); and a seat has at most the one permit of a
philosopher that was granted the table and still waits. `PhyloSound` and
`DinersAreGranted` follow. What a philosopher opens when it sits down and what
the end of the feast closes are loops, kept sound by their least
counterexample. The feast needs room in the table, which `PhyloAssumption`
asks for, and stays within `InSight`.

**Game** (`ProgramsProofs`). `GameInv` says that the players are an odd
number of steps apart. They start so because the height of the board is even
(`EliminatorAssumption`; the code's is), and both move in each turn:
`HeadsNeverMeet`, although `did_lose` never compares the heads. `GameSound` is
that no pixel is entered twice.

**Commands** (`ProgramsProofs`). `StreamInv`: what is left to read is the last
part of the input, and as long as the command acted on every end it read
(`~unseen`), it is not past the text and has written or counted what its loop
makes of the characters before. A read adds the next characters
(`LoopGoesOn`), because leaving characters out of two strings and of the two
joined gives the same (`WithoutJoined`); `cat` writes its buffer as a string,
and what is cleared behind the bytes read writes nothing (`BufferIsWritten`).
Keys that are passed over are cut out of the text ahead of what was read
(`CutOut`), so what was written or counted stays right (`PassOverKeeps`).
`CommandsWork` follows for texts of any length. That these loops over strings
compute what they should is an induction; it is made here, as for
`coalesce_free_blocks`, by the least prefix at which it would fail, from a loop
that is a recursive function (`Without`). `StreamAssumption` says that the
letters are not the end mark or NUL, and that `filter` reads no less at once
than `cat`.

**Disk utility** (`ProgramsProofs`). `DiskInv` says of the directory that
nothing but ends lies behind its first end and no name is used twice, so that
`findfile` sees every file; and, unless `create` was misled, that the files
end before the last block, lie apart and hold what was written to them. The
step is `create`: the copy of the directory sorted by `StartingBlockCmp` has
every entry once (`SortedOnce`) and files in the order of their blocks, before
the deleted ones (`SortedInOrder`), so room that begins behind a file and is
large enough is nobody's (`RoomIsFree`). This needs room that does not begin
behind a deleted entry, and a directory whose end was found: what `misled`
records. The unsigned difference that `create` takes for the room does not
wrap then. The first entry that is free is a deleted one or the end, so no
file gets behind the end. `write` leaves other files and the system alone
because no block of a file is the first. The proof does without the bound that
a run stops at when two files share a block. `BmfsAssumption` asks for three
blocks and for block numbers that fit an `unsigned long long`.

Only model-checked:

- liveness (`NoStarvation`, `TransfersGoOn`, `ReaderEnds`), the fairness half
  of `ImplementsCounting`, and everything about `ENABLED`, which the prover
  does not handle;
- what the functions of the libraries compute (`LibrarySound`): inductions over
  data, one for each function, about folds with operators as arguments, of
  which the provers know nothing.

## 6. Not modelled

- The restart after an exception (`exceptions.c:58`): `main` runs again over
  tables that are not cleared and a heap that begins again under the stacks of
  the processes in those tables. What happens next depends on which of their
  bytes are overwritten first.
- Sound and music, pixels of rectangles, constant images and fonts, a
  text-mode console without a caller: output that no property is about.
- The boot loader Pure64, vendored, which runs once.
- The userland tests: clients that say how the kernel is used; their argument
  parsing (`satoi`) is in `Library`.
- Of `phylo` the error paths of `sem_open`, `sem_close` and process creation;
  of `bmfs` listing, reading and the questions to the user; of `eliminator` the
  recursion of `lose` into a new game, which has no bound on its stack.
- Arrays that the code overruns (`waitingToRead`, `waitingProcesses`, the
  shell's 1024-character line): the models stop at the bound.

Each of these that is a hazard is listed in `PROJECT.json`.
