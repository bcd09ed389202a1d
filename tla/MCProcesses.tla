----------------------------- MODULE MCProcesses -----------------------------
(* Instances of the process table for TLC.                                 *)
EXTENDS Processes

Info(fg, output) == [fg |-> fg, priority |-> 0, input |-> 0, output |-> output]

(* Priority 0 is below the boost, the shell's own priority above it.       *)
MCPriorities == {0}

(* Foreground and background commands on the console.                      *)
MCInfos == {Info(TRUE, 1), Info(FALSE, 1)}

(* The same, and a foreground command that writes to pipe 3.               *)
MCPipeInfos == {Info(TRUE, 1), Info(TRUE, 3), Info(FALSE, 1)}

MCAllPids == 0..MAX_PROCESSES - 1
MCShell   == {0}
MCNone    == {}
MCPause   == {1, MAX_PROCESSES}

=============================================================================
