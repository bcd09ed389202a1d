------------------------------- MODULE MCPipes -------------------------------
(* Instances of the pipes for TLC.                                         *)
EXTENDS Pipes

MCProcs  == 1..3
MCReads  == {1, 3}
MCThree  == {3}

=============================================================================
