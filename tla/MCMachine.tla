------------------------------- MODULE MCMachine -------------------------------
(***************************************************************************)
(* Parts of the machine that share no state with each other, one of which  *)
(* each behaviour is about: the keyboard, the console, and the two memory  *)
(* managers, of which the build chooses one (MM in Kernel/Makefile).  The  *)
(* others stay as they begin.                                              *)
(***************************************************************************)
EXTENDS Keyboard, Console, Managers

VARIABLE part

machineVars == <<part, keyVars, consoleVars, listVars, buddyVars>>

MachineInit ==
    /\ part \in {"keyboard", "console", "list", "buddy"}
    /\ KeyInit /\ ConsoleInit /\ ListInit /\ BuddyInit
    /\ part # "keyboard" =>
          kb.before = NUL /\ kb.after = NUL /\ keys = CHOOSE set \in KeySets : TRUE
    /\ part # "buddy" => beyond

MachineNext ==
    /\ UNCHANGED part
    /\ \/ part = "keyboard" /\ KeyNext /\ UNCHANGED <<consoleVars, listVars, buddyVars>>
       \/ part = "console" /\ ConsoleNext /\ UNCHANGED <<keyVars, listVars, buddyVars>>
       \/ part = "list" /\ ListNext /\ UNCHANGED <<keyVars, consoleVars, buddyVars>>
       \/ part = "buddy" /\ BuddyNext /\ UNCHANGED <<keyVars, consoleVars, listVars>>

MachineSpec == MachineInit /\ [][MachineNext]_machineVars

(***************************************************************************)
(* The constants.                                                          *)
(***************************************************************************)
MCReaders == {1, 2}
MCSizes == {2}
MCKeySets ==
    {{"c", "enter", "ctrl", "ctrl_up"}, {"c", "enter", "backspace"},
     {"d", "ctrl", "ctrl_up"}, {"d", "shift", "shift_up", "capslock"}}

Writes(fd, text) == [op |-> "write", fd |-> fd, out |-> text]
Does(op) == [op |-> op, out |-> <<>>]
DoesAt(op, x, y) == [op |-> op, x |-> x, y |-> y, out |-> <<>>]

MCChars == {"a", "b"}
MCUndrawn == {"tab"}
MCPrompt == <<">">>
MCPrograms ==
    <<<<Writes("STDOUT", <<"o", "\n">>), Writes("STDERR", <<"e", "\n">>)>>,
      <<Does("scale_up"), Does("clear")>>,
      <<Does("scale_down"), Does("clear")>>,
      <<Does("scale_up"), Does("clear"), DoesAt("cursor_line", 0, 1), DoesAt("set_cursor", 1, 0)>>,
      <<DoesAt("set_cursor", 9, 0), Does("clear")>>>>

MCListRequests == {1, 2, 4}
MCBuddyRequests == {0, 11, 20}
=============================================================================
