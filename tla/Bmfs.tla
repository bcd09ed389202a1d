---------------------------------- MODULE Bmfs ----------------------------------
(***************************************************************************)
(* The BMFS utility (Bootloader/BMFS/bmfs.c), which makes and edits the    *)
(* disk image the kernel is booted from: a directory of files, each in a   *)
(* run of blocks reserved for it.  Every action is one run of the program, *)
(* which reads the directory, edits it and writes it back.                 *)
(*                                                                         *)
(* A block holds a part of a file, "system" (boot loader and kernel) or    *)
(* nothing of interest.  The system fits the first block.                  *)
(***************************************************************************)
EXTENDS Integers, SequencesExt

CONSTANTS
    ENTRIES,    \* the entries of the directory
    BLOCKS,     \* the blocks of the disk
    ULL,        \* the values of an unsigned long long
    FileNames

ASSUME BmfsAssumption ==
    ENTRIES \in Nat \ {0} /\ BLOCKS \in Nat \ {0, 1, 2} /\ ULL \in Nat /\ ULL > 2 * BLOCKS

VARIABLES
    tagged,     \* the disk carries the BMFS tag
    Directory,
    blocks,     \* what each block of the disk holds
    misled      \* history: create looked for room behind a deleted entry, or in a
                \* directory whose end it had not found

bmfsVars == <<tagged, Directory, blocks, misled>>

Slots == 0..ENTRIES - 1

END == [mark |-> "end", name |-> "", start |-> 0, reserved |-> 0, size |-> 0]

Used(d, i) == d[i].mark = "used"
Deleted(d, i) == d[i].mark = "deleted"

Ends(d) == {i \in Slots : d[i].mark = "end"}

(* findfile reads the directory up to its end.                             *)
Listed(d) == {i \in Slots : Used(d, i) /\ \A j \in Ends(d) : i < j}

Found(d, name) == {i \in Listed(d) : d[i].name = name}

-----------------------------------------------------------------------------
(* create.  The end of a directory that is full is not found.              *)
num_used_entries(d) == IF Ends(d) = {} THEN 0 ELSE Min(Ends(d))

(* Leaving the entry that marks the end.                                   *)
FreeEntriesMut(d) == {i \in Slots : Deleted(d, i)} \cup {i \in Ends(d) : i - 1 \in Ends(d)}

FreeEntries(d) == {i \in Slots : Deleted(d, i) \/ i \in Ends(d)}

(* The copy of the directory that is sorted by StartingBlockCmp: deleted   *)
(* entries come last, in whatever order qsort leaves them.                 *)
Before(d, i, j) == Used(d, i) /\ (Deleted(d, j) \/ d[i].start <= d[j].start)

Sorted(d) ==
    LET used == 0..num_used_entries(d) - 1
    IN  {s \in SetToSeqs(used) : \A k \in 1..Len(s) - 1 :
            Before(d, s[k], s[k + 1]) \/ (Deleted(d, s[k]) /\ Deleted(d, s[k + 1]))}

(* Where the room before each entry, and before the last block, ends; and  *)
(* where the room behind each entry begins.                                *)
RoomEnd(d, s, k) ==
    IF k > Len(s) \/ Deleted(d, s[k]) THEN BLOCKS - 1 ELSE d[s[k]].start

RoomStart(d, s, k) == IF k = 1 THEN 1 ELSE d[s[k - 1]].start + d[s[k - 1]].reserved

Rooms(d, s, requested) ==
    {k \in 1..Len(s) + 1 : (RoomEnd(d, s, k) - RoomStart(d, s, k)) % ULL >= requested}

Create(name, requested) ==
    /\ tagged /\ Found(Directory, name) = {} /\ FreeEntries(Directory) # {}
    /\ \E s \in Sorted(Directory) :
        /\ Rooms(Directory, s, requested) # {}
        /\ LET k == Min(Rooms(Directory, s, requested))
               file == [mark |-> "used", name |-> name, reserved |-> requested, size |-> 0,
                        start |-> RoomStart(Directory, s, k)]
           IN  /\ Directory' = [Directory EXCEPT ![Min(FreeEntries(Directory))] = file]
               /\ misled' = (misled \/ Ends(Directory) = {}
                                    \/ (k > 1 /\ Deleted(Directory, s[k - 1])))
    /\ UNCHANGED <<tagged, blocks>>

HasRoom(i, size) == size <= Directory[i].reserved

Write(name, size) ==
    /\ tagged
    /\ \E i \in Found(Directory, name) :
        /\ HasRoom(i, size)
        /\ blocks' = [b \in DOMAIN blocks |->
               IF b \in Directory[i].start..Directory[i].start + size - 1
               THEN <<name, b - Directory[i].start>> ELSE blocks[b]]
        /\ Directory' = [Directory EXCEPT ![i].size = size]
    /\ UNCHANGED <<tagged, misled>>

(* delete marks the entry, whose other fields stay.                        *)
Delete(name) ==
    /\ tagged
    /\ \E i \in Found(Directory, name) :
        Directory' = [Directory EXCEPT ![i].mark = "deleted", ![i].name = ""]
    /\ UNCHANGED <<tagged, blocks, misled>>

Format ==
    /\ tagged' = TRUE
    /\ Directory' = [i \in Slots |-> END]
    /\ misled' = FALSE
    /\ UNCHANGED blocks

(* initialize: a disk of zeros, formatted, with the system on it.          *)
Initialize ==
    /\ tagged' = TRUE
    /\ Directory' = [i \in Slots |-> END]
    /\ blocks' = [b \in DOMAIN blocks |-> IF b = 0 THEN <<"system", 0>> ELSE <<>>]
    /\ misled' = FALSE

BmfsInit ==
    /\ tagged = FALSE
    /\ Directory = [i \in Slots |-> END]
    /\ blocks = [b \in 0..BLOCKS - 1 |-> <<>>]
    /\ misled = FALSE

(* Two files share a block.  A bound: what becomes of a disk after that is *)
(* left.                                                                   *)
Overlap(i, j) ==
    /\ Directory[i].start < Directory[j].start + Directory[j].reserved
    /\ Directory[j].start < Directory[i].start + Directory[i].reserved

FilesApart ==
    \A i, j \in Listed(Directory) : i # j => ~Overlap(i, j)

BmfsNext ==
    \/ Format \/ Initialize
    \/ /\ FilesApart
       /\ \E name \in FileNames :
            \/ \E n \in 1..BLOCKS : Create(name, n) \/ Write(name, n)
            \/ Delete(name)

BmfsSpec == BmfsInit /\ [][BmfsNext]_bmfsVars

-----------------------------------------------------------------------------
(* Properties.                                                             *)

BmfsTypeOK ==
    /\ \A i \in Slots : /\ Directory[i].mark \in {"used", "deleted", "end"}
                        /\ Directory[i].size <= Directory[i].reserved
                        /\ Directory[i].reserved \in 0..BLOCKS
    /\ DOMAIN blocks = 0..BLOCKS - 1

(* Every file of the directory is found, and only once: no entry is in use *)
(* behind the end, however entries are deleted and used again.             *)
EveryFileIsFound ==
    /\ \A i \in Slots : Used(Directory, i) => Found(Directory, Directory[i].name) = {i}
    /\ \A i \in Ends(Directory) : \A j \in i..ENTRIES - 1 : j \in Ends(Directory)

(* What is written to a file stays in it while others are created, written *)
(* and deleted, and the system stays in its block; unless create was       *)
(* misled by a deleted entry or by a full directory.                       *)
ContentsKept ==
    ~misled =>
        /\ FilesApart
        /\ \A i \in Listed(Directory) : \A k \in 0..Directory[i].size - 1 :
              blocks[Directory[i].start + k] = <<Directory[i].name, k>>
        /\ blocks[0] \in {<<>>, <<"system", 0>>}

(* The disk stays sound: BmfsTypeOK, and what the directory says is there. *)
DiskSound == BmfsTypeOK /\ EveryFileIsFound /\ ContentsKept

=============================================================================
