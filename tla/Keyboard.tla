------------------------------- MODULE Keyboard -------------------------------
(***************************************************************************)
(* The keyboard (Kernel/drivers/keyboardDriver.c) and the part of the read *)
(* and get_char system calls that takes keys from it                       *)
(* (Kernel/syscalls/syscallHandler.c): a ring of characters, the queue of  *)
(* the processes that wait for a key, and ^C.  Both the interrupt handler  *)
(* and a system call run with interrupts masked up to yield.               *)
(*                                                                         *)
(* The driver looks one place before and one place after its buffer; what  *)
(* lies there is whatever the linker put there.                            *)
(***************************************************************************)
EXTENDS Integers, Sequences, FiniteSetsExt

CONSTANTS
    Readers,        \* the processes that call read
    BUFFER_SIZE,    \* characters in the ring
    KeySets,        \* a bound: the keys a user may press and release are one of these
    Sizes,          \* the lengths read is called with
    MAX_HISTORY,    \* a bound: no key is pressed when a history is this long
    MAX_WAITING     \* a bound: no read when the queue is this long

ASSUME KeyboardAssumption == BUFFER_SIZE \in Nat \ {0} /\ Sizes \subseteq 1..BUFFER_SIZE

VARIABLES
    keys,       \* the keys in use
    kb,         \* the driver
    reader,     \* where each process is in read
    typed,      \* history: the characters added while a read was under way
    wrapped,    \* history: the ring has been full
    swallowed,  \* history: a key woke a process that was not reading any more, or that
                \* was killed before it looked
    fresh,      \* history: the places of the keys typed while a process was in read, and
                \* since the last call of read passed over what it found
    behind      \* history: a backspace has moved writeIndex before readIndex since then

keyVars == <<keys, kb, reader, typed, wrapped, swallowed, fresh, behind>>
histories == <<wrapped, swallowed, fresh, behind>>

NUL == "nul"
EOF_CHAR == "eof"

(* The table keyboard, for a few keys of each kind.                        *)
CharOf == [c |-> "c", d |-> "d", one |-> "1", enter |-> "newline", backspace |-> "erase"]
Upper == [c |-> "C", d |-> "D"]
KeyChars == {"c", "d", "C", "D", "1", "newline", "erase", EOF_CHAR, NUL}
PLACES_IN_RING == 0..BUFFER_SIZE - 1

CharIn(k, i) ==
    IF i = -1 THEN k.before ELSE IF i = BUFFER_SIZE THEN k.after ELSE k.buffer[i]

is_key_available(k) == CharIn(k, k.readIndex) # NUL

-----------------------------------------------------------------------------
(* The driver's functions.                                                 *)
clean_buffer(k) ==
    [k EXCEPT !.buffer = [i \in PLACES_IN_RING |-> IF i < k.writeIndex THEN NUL ELSE @[i]],
              !.writeIndex = 0, !.readIndex = 0]

remove_char_from_buffer(k) ==
    IF k.writeIndex <= 1 THEN k
    ELSE [k EXCEPT !.buffer[k.writeIndex - 1] = NUL, !.buffer[k.writeIndex - 2] = NUL,
                   !.writeIndex = @ - 2]

(* Leaving what was typed ahead.                                          *)
clean_readMut(k) == k

clean_read(k) == [k EXCEPT !.readIndex = k.writeIndex]

(* get_buffer: how many characters it takes, which, and what is left.      *)
RingPlace(k, i) == IF i = 0 THEN k.readIndex ELSE (k.readIndex + i) % BUFFER_SIZE

Taken(k, size) ==
    Max({n \in 0..size : \A i \in 0..n - 1 : CharIn(k, RingPlace(k, i)) # NUL})

get_buffer(k, size) == [i \in 1..Taken(k, size) |-> CharIn(k, RingPlace(k, i - 1))]

AfterGet(k, size) ==
    LET n == Taken(k, size)
        places == {RingPlace(k, i) : i \in 0..n - 1}
    IN  [k EXCEPT !.buffer = [i \in PLACES_IN_RING |-> IF i \in places THEN NUL ELSE @[i]],
                  !.after = IF BUFFER_SIZE \in places THEN NUL ELSE @,
                  !.readIndex = IF n = 0 THEN @ ELSE (@ + n) % BUFFER_SIZE]

Store(k, c) ==
    LET place == IF k.writeIndex >= BUFFER_SIZE THEN 0 ELSE k.writeIndex
    IN  [k EXCEPT !.buffer[place] = c, !.writeIndex = place + 1, !.lastIndexFlag = TRUE]

-----------------------------------------------------------------------------
(* read from the keyboard.                                                 *)

Out == [at |-> "out", size |-> 0]

(* One turn of read's loop, with the driver in state k: the characters, or *)
(* a place in the queue.                                                   *)
Turn(k, p, size) ==
    IF is_key_available(k)
    THEN /\ kb' = AfterGet(k, size)
         /\ reader' = [reader EXCEPT ![p] = Out]
         /\ typed' = [typed EXCEPT ![p] = <<>>]
    ELSE /\ kb' = [k EXCEPT !.waitingToRead = Append(@, p)]
         /\ reader' = [reader EXCEPT ![p] = [at |-> "asleep", size |-> size]]
         /\ UNCHANGED typed

SysRead(p, size) ==
    /\ reader[p].at = "out" /\ Len(kb.waitingToRead) < MAX_WAITING
    /\ Turn(clean_read(kb), p, size)
    /\ fresh' = {} /\ behind' = FALSE
    /\ UNCHANGED <<wrapped, swallowed>>

(* Blocking again without a place in the queue.                            *)
ResumeReadMut(p) ==
    /\ reader[p].at = "ready"
    /\ reader' = [reader EXCEPT ![p].at = IF is_key_available(kb) THEN "out" ELSE "asleep"]
    /\ UNCHANGED <<kb, typed, histories>>

ResumeRead(p) ==
    /\ reader[p].at = "ready"
    /\ Turn(kb, p, reader[p].size)
    /\ UNCHANGED histories

(* get_last_char, which programs poll.                                     *)
SysGetChar ==
    /\ kb.lastIndexFlag
    /\ kb' = [kb EXCEPT !.lastIndexFlag = FALSE]
    /\ UNCHANGED <<reader, typed, histories>>

(* The processes dead leave the read they are in, but not the queue.       *)
Leave(dead) ==
    /\ reader' = [p \in Readers |-> IF p \in dead THEN Out ELSE reader[p]]
    /\ typed' = [p \in Readers |-> IF p \in dead THEN <<>> ELSE typed[p]]

(* A process that is in read is killed by a call of another's: the ring    *)
(* stays as it is.                                                         *)
KillReader(p) ==
    /\ reader[p].at # "out"
    /\ Leave({p})
    /\ swallowed' = (swallowed \/ reader[p].at = "ready")
    /\ UNCHANGED <<kb, wrapped, fresh, behind>>

-----------------------------------------------------------------------------
(* keyboard_handler.                                                       *)
Wakes(p) == [reader EXCEPT ![p].at = IF @ = "asleep" THEN "ready" ELSE @]

(* Waking nobody for a key that is not the first unread one.               *)
AddMut(k, c) ==
    /\ kb' = Store(k, c)
    /\ reader' = IF is_key_available(k) \/ k.waitingToRead = <<>> THEN reader
                 ELSE Wakes(Head(k.waitingToRead))
    /\ fresh' = IF \E p \in Readers : reader[p].at # "out"
                THEN fresh \cup {kb'.writeIndex - 1} ELSE fresh \ {kb'.writeIndex - 1}
    /\ UNCHANGED <<typed, wrapped, swallowed>>

(* add_to_buffer(c) with remove_from_blocking_queue.                       *)
Add(k, c) ==
    LET queue == k.waitingToRead
        stored == Store(k, c)
    IN  /\ kb' = IF queue = <<>> THEN stored ELSE [stored EXCEPT !.waitingToRead = Tail(@)]
        /\ reader' = IF queue = <<>> THEN reader ELSE Wakes(Head(queue))
        /\ swallowed' = (swallowed \/ (queue # <<>> /\ reader[Head(queue)].at # "asleep"))
        /\ typed' = [p \in Readers |-> IF reader[p].at = "out" THEN typed[p] ELSE Append(typed[p], c)]
        /\ wrapped' = (wrapped \/ stored.writeIndex = BUFFER_SIZE)
        /\ fresh' = IF \E p \in Readers : reader[p].at # "out"
                    THEN fresh \cup {stored.writeIndex - 1} ELSE fresh \ {stored.writeIndex - 1}

Sets(k) == kb' = k /\ UNCHANGED <<reader, typed, wrapped, swallowed, fresh>>

(* A read that was passed over leaves an enter or a backspace behind it.   *)
Cleaned ==
    LET one == IF CharIn(kb, kb.readIndex - 1) = "newline" THEN clean_buffer(kb) ELSE kb
    IN  IF CharIn(one, one.readIndex - 1) = "erase" THEN remove_char_from_buffer(one) ELSE one

CharTyped(k, key) ==
    IF key \in DOMAIN Upper /\ k.capsLockFlag # k.shiftFlag THEN Upper[key] ELSE CharOf[key]

(* ^C kills a foreground process and its children, or yields when there is *)
(* none.                                                                   *)
Killed(k, dead) ==
    /\ kb' = clean_buffer(k)
    /\ Leave(dead)
    /\ UNCHANGED <<wrapped, swallowed, fresh>>

(* The branches of the handler, with the driver in state k.                *)
Modifier(k, key) ==
    \/ key = "ctrl"     /\ Sets([k EXCEPT !.ctrlFlag = TRUE])
    \/ key = "ctrl_up"  /\ Sets([k EXCEPT !.ctrlFlag = FALSE])
    \/ key = "capslock" /\ Sets([k EXCEPT !.capsLockFlag = ~@])
    \/ key = "shift"    /\ Sets([k EXCEPT !.shiftFlag = TRUE])
    \/ key = "shift_up" /\ Sets([k EXCEPT !.shiftFlag = FALSE])

CtrlC(k, key) ==
    key = "c" /\ k.ctrlFlag /\ \E dead \in SUBSET Readers : Killed(k, dead)

CtrlD(k, key) == key = "d" /\ k.ctrlFlag /\ Add(k, EOF_CHAR)

Character(k, key) ==
    /\ key \in DOMAIN CharOf
    /\ ~(k.ctrlFlag /\ key \in {"c", "d"})
    /\ Add(k, CharTyped(k, key))

KeyPress(key) ==
    /\ \A p \in Readers : Len(typed[p]) < MAX_HISTORY
    /\ \/ Modifier(Cleaned, key)
       \/ CtrlC(Cleaned, key)
       \/ CtrlD(Cleaned, key)
       \/ Character(Cleaned, key)
    /\ behind' = (behind \/ Cleaned.writeIndex < Cleaned.readIndex)

KeyInit ==
    /\ keys \in KeySets
    /\ \E before \in {NUL, "newline"}, after \in {NUL, "1"} :
          kb = [ buffer |-> [i \in PLACES_IN_RING |-> NUL], before |-> before, after |-> after,
                 writeIndex |-> 0, readIndex |-> 0, lastIndexFlag |-> FALSE, ctrlFlag |-> FALSE,
                 shiftFlag |-> FALSE, capsLockFlag |-> FALSE, waitingToRead |-> <<>> ]
    /\ reader = [p \in Readers |-> Out]
    /\ typed = [p \in Readers |-> <<>>]
    /\ wrapped = FALSE
    /\ swallowed = FALSE
    /\ fresh = {}
    /\ behind = FALSE

KeyNext ==
    /\ \/ \E key \in keys : KeyPress(key)
       \/ SysGetChar
       \/ \E p \in Readers :
             \/ \E n \in Sizes : SysRead(p, n)
             \/ ResumeRead(p)
             \/ KillReader(p)
    /\ UNCHANGED keys

KeySpec == KeyInit /\ [][KeyNext]_keyVars

-----------------------------------------------------------------------------
(* Properties.                                                             *)

KeyTypeOK ==
    /\ kb.buffer \in [PLACES_IN_RING -> KeyChars] /\ {kb.before, kb.after} \subseteq KeyChars
    /\ kb.writeIndex \in 0..BUFFER_SIZE /\ kb.readIndex \in 0..BUFFER_SIZE
    /\ {kb.lastIndexFlag, kb.ctrlFlag, kb.shiftFlag, kb.capsLockFlag} \subseteq BOOLEAN
    /\ \A i \in DOMAIN kb.waitingToRead : kb.waitingToRead[i] \in Readers
    /\ \A p \in Readers : reader[p].at \in {"out", "asleep", "ready"}

(* A read gives characters that were typed while it waited, in their order *)
(* and none twice, whatever was typed before it or taken by other readers: *)
(* as long as the ring has not been filled, after which characters that    *)
(* clean_read passed over turn up again.                                   *)
IsSubsequence(s, t) ==
    \E places \in [DOMAIN s -> DOMAIN t] :
        /\ \A i, j \in DOMAIN s : i < j => places[i] < places[j]
        /\ \A i \in DOMAIN s : s[i] = t[places[i]]

ReadsAreFresh ==
    ~wrapped =>
        /\ ~is_key_available(clean_read(kb))
        /\ \A p \in Readers : reader[p].at = "ready" =>
              IsSubsequence(get_buffer(kb, reader[p].size), typed[p])

(* While processes sleep for a key and none is awake to take one, no key   *)
(* typed for them lies in the ring, wherever in it: unless a process that  *)
(* was killed took the wake-up with it, the ring has been filled, or a     *)
(* backspace that nobody read has made the handler store the key before    *)
(* the place where the next read looks.  A key is typed for those who are  *)
(* reading then, until the next call of read passes over it.               *)
KeysWakeReaders ==
    (/\ ~swallowed /\ ~wrapped
     /\ \E p \in Readers : reader[p].at = "asleep"
     /\ \A p \in Readers : reader[p].at # "ready")
    => \A i \in fresh : kb.buffer[i] # NUL => behind /\ i < kb.readIndex

(* Every process that sleeps for a key is in the queue that keys are       *)
(* handed out to, also when it blocks again after a wake-up in vain or     *)
(* after another reader of its place was killed.                           *)
SleepersQueue ==
    \A p \in Readers : reader[p].at = "asleep" =>
        \E i \in DOMAIN kb.waitingToRead : kb.waitingToRead[i] = p

KeyboardSound == KeyTypeOK /\ SleepersQueue

=============================================================================
