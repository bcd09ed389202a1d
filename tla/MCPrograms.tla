------------------------------- MODULE MCPrograms -------------------------------
(***************************************************************************)
(* Programs that share no state with each other, one of which each         *)
(* behaviour is about; the others stay as they begin.                      *)
(***************************************************************************)
EXTENDS Phylo, Eliminator, Streams, Bmfs, Library

VARIABLE program

programVars == <<program, phyloVars, gameVars, streamVars, bmfsVars, call>>

ProgramsInit ==
    /\ program \in {"phylo", "eliminator", "streams", "bmfs", "library"}
    /\ PhyloInit /\ GameInit /\ StreamInit /\ BmfsInit /\ LibraryInit
    /\ program # "streams" => command = "cat" /\ source = "pipe" /\ text = <<>>

ProgramsNext ==
    /\ UNCHANGED program
    /\ \/ program = "phylo" /\ PhyloNext /\ UNCHANGED <<gameVars, streamVars, bmfsVars, call>>
       \/ program = "eliminator" /\ GameNext /\ UNCHANGED <<phyloVars, streamVars, bmfsVars, call>>
       \/ program = "streams" /\ StreamNext /\ UNCHANGED <<phyloVars, gameVars, bmfsVars, call>>
       \/ program = "bmfs" /\ BmfsNext /\ UNCHANGED <<phyloVars, gameVars, streamVars, call>>
       \/ program = "library" /\ LibraryNext /\ UNCHANGED <<phyloVars, gameVars, streamVars, bmfsVars>>

ProgramsSpec == ProgramsInit /\ [][ProgramsNext]_programVars

(***************************************************************************)
(* The constants.                                                          *)
(***************************************************************************)
MCArguments == {3, 4}
MCTurns == <<0, 3, 3, 2>>

MCVowels == {"a"}
MCOthers == {"b"}

MCFileNames == {"f", "g"}

MCLines == UNION {[1..n -> {"a", "b", " "}] : n \in 0..5}
MCStrings == UNION {[1..n -> 1..2] : n \in 0..3}
MCImages == {<<<<7, 7>>>> \o m : m \in UNION {[1..n -> {<<>>, <<1>>, <<2, 3>>}] : n \in 0..2}}
MCNameLengths == {0, 4, 15, 16, 20}
(* "phylo_%d", "phy_%d" and "semwrite%d", whose letters count by number.   *)
Word(n) == Append([i \in 1..n |-> 10 + i], PERCENT_D)
MCFormats == {[text |-> Word(6), room |-> 8, ids |-> 0..9],
              [text |-> Word(4), room |-> 8, ids |-> 0..9],
              [text |-> Word(8), room |-> 17, ids |-> 4..23]}
MCClock == (0..23) \X {0, 9, 59} \X {0, 30}
=============================================================================
