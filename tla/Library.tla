--------------------------------- MODULE Library ---------------------------------
(***************************************************************************)
(* The pure functions of the kernel's and the programs' libraries, of the  *)
(* boot image and of the system call interface, each called once with the  *)
(* arguments of a small set and compared with what it is for.              *)
(*                                                                         *)
(* Numbers are ints of so many bits.  A string is the sequence of its      *)
(* characters without the final NUL.  A digit is its value; MINUS is the   *)
(* sign.                                                                   *)
(***************************************************************************)
EXTENDS Integers, SequencesExt

CONSTANTS
    INT_BITS,       \* the width of an int
    WORD,           \* sizeof(uint32_t), in the cells that memcpy copies
    MEMORY,         \* the cells of a memory
    Lines,          \* command lines
    Strings,        \* sequences of character codes
    Images,         \* lists of files to pack: the kernel first
    NameLengths,    \* lengths of process names
    Formats,        \* names with a number in them: the text, the buffer's room,
                    \* the numbers
    Clock           \* hours, minutes and seconds to show

VARIABLE call       \* the call made, with its arguments

MINUS == -100
NUL == 0

INT_MIN == -(2 ^ (INT_BITS - 1))
Ints == INT_MIN..2 ^ (INT_BITS - 1) - 1

-----------------------------------------------------------------------------
(* itoa and int_to_str, which is the same in the kernel.  The negative of  *)
(* INT_MIN does not exist: what the machine computes for it is INT_MIN     *)
(* itself.  C divides towards zero.                                        *)
Magnitude(n) == IF n < 0 THEN -n ELSE n

Digits(n, base) ==
    LET count == Min({k \in 0..INT_BITS : Magnitude(n) < base ^ k})
        sign  == IF n < 0 THEN -1 ELSE 1
    IN  [i \in 1..count |-> sign * ((Magnitude(n) \div base ^ (i - 1)) % base)]

Negated(n) == IF n = INT_MIN THEN INT_MIN ELSE -n

itoa(n, base) ==
    IF n = 0 THEN <<0>>
    ELSE IF n < 0 /\ base = 10 THEN Reverse(Append(Digits(Negated(n), base), MINUS))
    ELSE Reverse(Digits(n, base))

int_to_str(n, base) == itoa(n, base)

(* satoi, which the tests read their arguments with.                       *)
ValueOf(digits, base) == FoldLeft(LAMBDA v, d : v * base + d, 0, digits)

satoi(str) ==
    LET negative == str # <<>> /\ str[1] = MINUS
        digits == IF negative THEN Tail(str) ELSE str
    IN  IF \E i \in DOMAIN digits : digits[i] \notin 0..9 THEN 0
        ELSE ValueOf(digits, 10) * (IF negative THEN -1 ELSE 1)

(* sprintf: the formats are characters and PERCENT_D.                      *)
PERCENT_D == -200

sprintf(format, number) ==
    FoldLeft(LAMBDA dest, c : dest \o (IF c = PERCENT_D THEN itoa(number, 10) ELSE <<c>>),
             <<>>, format)

(* tokenize: every space ends an argument, and another begins behind it    *)
(* unless the line ends there.                                             *)
Starts(buffer) == {1} \cup {i \in 2..Len(buffer) : buffer[i - 1] = " "}

tokenize(buffer) ==
    LET starts == SetToSortSeq(Starts(buffer), <)
        End(i) == Min({j \in i..Len(buffer) : buffer[j] = " "} \cup {Len(buffer) + 1})
    IN  [a \in 1..Len(starts) |-> SubSeq(buffer, starts[a], End(starts[a]) - 1)]

(* strcmp and strncmp.                                                     *)
CharAt(s, i) == IF i > Len(s) THEN NUL ELSE s[i]

strcmp(s1, s2) ==
    LET i == Min({k \in 1..Len(s1) + 1 : CharAt(s1, k) = NUL \/ s1[k] # CharAt(s2, k)})
    IN  CharAt(s1, i) - CharAt(s2, i)

strncmp(s1, s2, n) ==
    LET differ == {i \in 1..n : i <= Len(s1) /\ i <= Len(s2) /\ s1[i] # s2[i]}
    IN  IF differ = {} THEN 0 ELSE s1[Min(differ)] - s2[Min(differ)]

(* memcpy: upwards, by words when everything is aligned, else by bytes.    *)
Copied(mem, dst, src, n) == [a \in DOMAIN mem |-> IF a \in dst..dst + n - 1
                                                  THEN mem[a - dst + src] ELSE mem[a]]

memcpyMut(mem, dst, src, len) ==
    FoldLeft(LAMBDA m, i : Copied(m, dst + len - i, src + len - i, 1), mem,
             [i \in 1..len |-> i])

memcpy(mem, dst, src, len) ==
    LET unit == IF \A x \in {dst, src, len} : x % WORD = 0 THEN WORD ELSE 1
    IN  FoldLeft(LAMBDA m, i : Copied(m, dst + i, src + i, unit), mem,
                 [i \in 1..len \div unit |-> (i - 1) * unit])

-----------------------------------------------------------------------------
(* The boot image: ModulePacker's buildImage writes the kernel, how many   *)
(* modules follow, and each with its size before it.                       *)
write_file(target, file) == target \o file

write_size(target, file) == Append(target, Len(file))

buildImage(files) ==
    FoldLeft(LAMBDA image, file : write_file(write_size(image, file), file),
             Append(files[1], Len(files) - 1), Tail(files))

(* load_modules, from behind the kernel: what goes to each address.        *)
load_module(loaded, image) ==
    LET size == image[loaded.at]
    IN  [at |-> loaded.at + 1 + size,
         modules |-> Append(loaded.modules, SubSeq(image, loaded.at + 1, loaded.at + size))]

load_modules(image, payload) ==
    FoldLeft(LAMBDA loaded, i : load_module(loaded, image),
             [at |-> payload + 1, modules |-> <<>>],
             [i \in 1..image[payload] |-> i]).modules

-----------------------------------------------------------------------------
LocalHour(hours) ==
    IF hours >= 3 THEN hours - 3
    ELSE CASE hours = 2 -> 23 [] hours = 1 -> 22 [] OTHER -> 21

get_current_time(c) == LocalHour(c[1]) * 10000 + c[2] * 100 + c[3]

(* The digits that the time command fills in from the right.               *)
time(now) == [i \in 1..6 |-> (now \div 10 ^ (6 - i)) % 10]

(* ps: the field widths that it pads to, and a line's lengths.             *)
NO_PARENT == -2

PsWidths == <<8, 15, 11, 13, 15, 11, 10, 11>>

PsLine(pid, name, priority, parent) ==
    LET lengths == <<Len(itoa(pid, 10)), name, 8, Len(itoa(priority, 10)), 1,
                     IF parent = NO_PARENT THEN 1 ELSE Len(itoa(parent, 10)), 6, 6>>
    IN  [f \in DOMAIN PsWidths |-> Max({lengths[f], PsWidths[f]})]

(* How far apart the words of the heading begin.                           *)
PsHeading == <<8, 15, 11, 13, 15, 11, 10, 11>>

(* The registers.  Where every one of them contains its own name, what the *)
(* stack and the two dumps contain: push_state's, from the top, over what  *)
(* the interrupt pushed; the dump that left CTRL takes for the regs        *)
(* command; the dump of an exception, which nothing was pushed before.     *)
InterruptFrame == <<"RIP", "CS", "RFLAGS", "RSP", "SS">>

push_state ==
    <<"RAX", "R15", "R14", "R13", "R12", "R11", "R10", "R9", "R8", "RSI", "RDI", "RBP",
      "RDX", "RCX", "RBX">> \o InterruptFrame

show_registers_dump ==
    <<push_state[15], "RBX", "RCX", "RDX", "RSI", "RDI", "RBP", push_state[19], "R8", "R9",
      "R10", "R11", "R12", "R13", "R14", "R15", push_state[16]>>

registerNames ==
    <<"RAX", "RBX", "RCX", "RDX", "RSI", "RDI", "RBP", "RSP", "R8", "R9", "R10", "R11",
      "R12", "R13", "R14", "R15", "RIP">>

show_registers ==
    <<InterruptFrame[1], "RAX", "RBX", "RCX", "RDX", "RSI", "RDI", "RBP", InterruptFrame[4],
      "R8", "R9", "R10", "R11", "R12", "R13", "R14", "R15", InterruptFrame[3]>>

registerOrder ==
    <<"RIP", "RAX", "RBX", "RCX", "RDX", "RSI", "RDI", "RBP", "RSP", "R8", "R9", "R10",
      "R11", "R12", "R13", "R14", "R15", "RFLAGS">>

(* The lines of each: the name shown and the register it is shown for.     *)
regs == [i \in 1..17 |-> <<registerNames[i], show_registers_dump[i]>>]
exception_dispatcher == [i \in 1..17 |-> <<registerOrder[i], show_registers[i]>>]

(* The system calls: the table of the kernel, from 0, and the numbers that *)
(* the programs' wrappers use.                                             *)
sysCallTable ==
    <<"read", "write", "get_current_time", "elapsed_millis", "get_height_ch",
      "get_width_ch", "clear_line", "clear_screen", "put_pixel", "draw_rect",
      "scale_up", "scale_down", "make_sound", "get_height_pix", "get_width_pix",
      "get_pix", "get_height_chars", "set_cursor_to_line", "get_registers",
      "get_char", "malloc", "free", "create_process", "get_pid", "kill", "block",
      "unblock", "yield", "set_priority", "list_processes_info", "exit_process",
      "wait_for_children", "get_process_info", "is_foreground", "nice", "wait",
      "set_cursor", "sem_open", "sem_close", "sem_post", "sem_wait",
      "get_memory_info", "open_pipe", "close_pipe", "read_from_pipe",
      "write_to_pipe", "get_pipe_info", "wait_for_pid">>

syscall_handler(rax) == sysCallTable[rax + 1]

Wrappers ==
    [read |-> 0, write |-> 1, get_current_time |-> 2, clear_line |-> 6, clear_screen |-> 7,
     draw_rect |-> 9, scale_up |-> 10, scale_down |-> 11, make_sound |-> 12,
     get_height_pix |-> 13, get_width_pix |-> 14, get_pix |-> 15, set_cursor_to_line |-> 17,
     get_registers |-> 18, get_char |-> 19, malloc |-> 20, free |-> 21,
     create_process |-> 22, get_pid |-> 23, kill |-> 24, block |-> 25, unblock |-> 26,
     yield |-> 27, set_priority |-> 28, list_processes_info |-> 29, exit_process |-> 30,
     wait_for_children |-> 31, get_process_info |-> 32, is_foreground |-> 33, nice |-> 34,
     wait |-> 35, set_cursor |-> 36, sem_open |-> 37, sem_close |-> 38, sem_post |-> 39,
     sem_wait |-> 40, get_memory_info |-> 41, open_pipe |-> 42, close_pipe |-> 43,
     read_from_pipe |-> 44, write_to_pipe |-> 45, get_pipe_info |-> 46, wait_for_pid |-> 47]

-----------------------------------------------------------------------------
LibraryInit == call = [fn |-> "none"]

LibraryNext ==
    /\ call.fn = "none"
    /\ \/ \E n \in Ints, b \in {10, 16} : call' = [fn |-> "itoa", n |-> n, base |-> b]
       \/ \E l \in Lines : call' = [fn |-> "tokenize", line |-> l]
       \/ \E s, t \in Strings, n \in 0..3 : call' = [fn |-> "strncmp", s |-> s, t |-> t, n |-> n]
       \/ \E d, s, n \in 0..MEMORY :
            /\ d + n <= MEMORY /\ s + n <= MEMORY
            /\ call' = [fn |-> "memcpy", dst |-> d, src |-> s, len |-> n]
       \/ \E files \in Images : call' = [fn |-> "load_modules", files |-> files]
       \/ \E c \in Clock : call' = [fn |-> "time", clock |-> c]
       \/ \E id \in 0..23, format \in Formats : call' = [fn |-> "sprintf", id |-> id, format |-> format]
       \/ \E pid \in 0..14, name \in NameLengths, priority \in 1..10, parent \in -2..14 :
            call' = [fn |-> "ps", pid |-> pid, name |-> name, priority |-> priority,
                     parent |-> parent]
       \/ \E dump \in {regs, exception_dispatcher} : call' = [fn |-> "regs", dump |-> dump]
       \/ \E w \in DOMAIN Wrappers : call' = [fn |-> "syscall", wrapper |-> w]

LibrarySpec == LibraryInit /\ [][LibraryNext]_call

-----------------------------------------------------------------------------
(* Properties.                                                             *)

(* What itoa writes reads back as the number: every number in base 10 but  *)
(* the smallest int, and the numbers that are not negative in base 16.     *)
NumbersReadBack ==
    call.fn = "itoa" /\ call.n # INT_MIN /\ (call.base = 10 \/ call.n >= 0) =>
        LET str == int_to_str(call.n, call.base)
        IN  IF call.n < 0 THEN str[1] = MINUS /\ ValueOf(Tail(str), call.base) = -call.n
            ELSE str # <<>> /\ ValueOf(str, call.base) = call.n

(* The smallest int is the only argument that a test would not read back   *)
(* as it was written.                                                      *)
ArgumentsReadBack ==
    call.fn = "itoa" /\ call.base = 10 =>
        satoi(itoa(call.n, 10)) = call.n <=> call.n # INT_MIN

(* The names that philosophers, their semaphores and the semaphores of     *)
(* pipes get: they fit what they are written to, with the NUL at their     *)
(* end, and two numbers never give one name.                               *)
NamesFit ==
    call.fn = "sprintf" =>
        LET name == sprintf(call.format.text, call.id)
        IN  call.id \in call.format.ids =>
               /\ Len(name) < call.format.room
               /\ \A id \in call.format.ids \ {call.id} : sprintf(call.format.text, id) # name

(* A line of ps lines up with the heading unless the process's name, which *)
(* may have 20 characters, has more than 15.                               *)
LinesAlign ==
    call.fn = "ps" =>
        PsLine(call.pid, call.name, call.priority, call.parent) = PsHeading <=> call.name <= 15

(* Every register is shown under its own name in both dumps, but regs      *)
(* shows RBX, the register that push_state pushes first, as RAX.           *)
RegistersAreLabelled ==
    call.fn = "regs" =>
        {line \in Range(call.dump) : line[1] # line[2]}
          \subseteq {<<"RAX", "RBX">>}

(* The arguments of a line, with a space between each two, are the line,   *)
(* but for a space at its end: two spaces have an empty argument between   *)
(* them, and no character of the line is in two arguments or in none.      *)
ArgumentsAreTheLine ==
    call.fn = "tokenize" =>
        LET args == tokenize(call.line)
            joined == FoldLeft(LAMBDA acc, a : acc \o <<" ">> \o a, args[1], Tail(args))
        IN  call.line \in {joined, Append(joined, " ")}

(* strcmp tells any two strings apart; strncmp only where both have a      *)
(* character: the start of a string is not told from the string.           *)
StringsCompare ==
    call.fn = "strncmp" =>
        /\ strcmp(call.s, call.t) = 0 <=> call.s = call.t
        /\ strncmp(call.s, call.t, call.n) = 0 <=>
               \/ IsPrefix(SubSeq(call.s, 1, Min({call.n, Len(call.s)})), call.t)
               \/ IsPrefix(SubSeq(call.t, 1, Min({call.n, Len(call.t)})), call.s)

(* memcpy moves what was there before it, words or bytes, also onto cells  *)
(* it reads, as new_line does when it scrolls: if it copies downwards.     *)
CopiesDownwards ==
    call.fn = "memcpy" /\ call.dst <= call.src =>
        LET mem == [a \in 0..MEMORY - 1 |-> a]
        IN  memcpy(mem, call.dst, call.src, call.len)
              = Copied(mem, call.dst, call.src, call.len)

(* What ModulePacker packs behind the kernel is what the kernel loads.     *)
PackedIsLoaded ==
    call.fn = "load_modules" =>
        load_modules(buildImage(call.files), Len(call.files[1]) + 1) = Tail(call.files)

(* The time command shows the clock, three hours back, two digits each.    *)
ClockIsShown ==
    call.fn = "time" =>
        LET h == (call.clock[1] + 21) % 24
            Two(n) == <<n \div 10, n % 10>>
        IN  time(get_current_time(call.clock)) = Two(h) \o Two(call.clock[2]) \o Two(call.clock[3])

(* The number of every wrapper is that of the handler it is named for.     *)
WrappersMatchTable == call.fn = "syscall" => syscall_handler(Wrappers[call.wrapper]) = call.wrapper

(* The libraries do what they are for.                                     *)
LibrarySound ==
    /\ NumbersReadBack /\ ArgumentsReadBack /\ NamesFit /\ LinesAlign
    /\ RegistersAreLabelled /\ ArgumentsAreTheLine /\ StringsCompare /\ CopiesDownwards
    /\ PackedIsLoaded /\ ClockIsShown /\ WrappersMatchTable

=============================================================================
