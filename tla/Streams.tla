--------------------------------- MODULE Streams ---------------------------------
(***************************************************************************)
(* The commands that read their standard input to its end: cat, wc and     *)
(* filter (lib/commands.c).  The end is a character typed at the keyboard, *)
(* or what read returns when a pipe is empty and its writer is gone.       *)
(*                                                                         *)
(* From the keyboard a read returns the keys there are, at least one, of   *)
(* those typed since it was called: it begins by passing over what is      *)
(* there.  From a pipe it waits for as many bytes as were asked for, or    *)
(* the end.                                                                *)
(***************************************************************************)
EXTENDS Integers, SequencesExt

CONSTANTS
    CAT_BYTES,          \* what cat asks for in one read
    STREAM_BUFFER,      \* what filter asks for: its buffer's size
    Vowels, Others,     \* the letters
    MAX_INPUT           \* a bound: the characters of an input

EOF == "EOF"
NOTHING == ""       \* the NUL that ends a string

ASSUME StreamAssumption ==
    /\ CAT_BYTES \in Nat \ {0} /\ STREAM_BUFFER \in Nat /\ STREAM_BUFFER >= CAT_BYTES
    /\ EOF \notin Vowels \cup Others /\ NOTHING \notin Vowels \cup Others

Letters == Vowels \cup Others \cup {"\n"}

VARIABLES
    command,    \* "cat", "wc" or "filter"
    source,     \* "keyboard" or "pipe"
    text,       \* all of the input, without its end and without the keys passed over
    unread,     \* what is left of it; at the keyboard the end is a character of it
    buffer,     \* cat's buffer
    output,     \* what filter and cat have written
    lineCount, lastWasNewline,
    ended,      \* the command has returned
    unseen      \* history: an end was passed over, or was read and the command did not
                \* act on it, or acted on it at the cost of what it had read with it

streamVars ==
    <<command, source, text, unread, buffer, output, lineCount, lastWasNewline, ended, unseen>>

-----------------------------------------------------------------------------
ReadResults(bytes) ==
    IF source = "pipe" THEN {IF unread = <<>> THEN -1 ELSE Min({bytes, Len(unread)})}
    ELSE 1..Min({bytes, Len(unread)})

Got(res) == SubSeq(unread, 1, res)

Consumes(res) == unread' = SubSeq(unread, res + 1, Len(unread))

Returns == ended' = TRUE

(* What a loop over s writes that leaves out some characters.              *)
Without(s, dropped) ==
    LET kept[n \in 0..Len(s)] == IF n = 0 THEN <<>>
                                 ELSE IF s[n] \in dropped THEN kept[n - 1]
                                 ELSE Append(kept[n - 1], s[n])
    IN  kept[Len(s)]

(* cat, which looks for the end in the first byte only, and writes its     *)
(* buffer as a string, cleared behind what was read.                       *)
FilledMut(res) == [i \in 1..CAT_BYTES |-> IF i <= res THEN unread[i] ELSE buffer[i]]

Filled(res) == [i \in 1..CAT_BYTES |-> IF i <= res THEN unread[i] ELSE NOTHING]

Written(buf) == Without(buf, {NOTHING, EOF})

Cat ==
    /\ command = "cat"
    /\ \E res \in ReadResults(CAT_BYTES) :
        IF res < 0 THEN Returns /\ UNCHANGED <<unread, buffer, output, unseen>>
        ELSE /\ Consumes(res)
             /\ buffer' = Filled(res)
             /\ IF buffer'[1] = EOF THEN Returns /\ UNCHANGED <<output, unseen>>
                ELSE /\ output' = output \o Written(buffer')
                     /\ unseen' = (unseen \/ Contains(Got(res), EOF))
                     /\ UNCHANGED ended
    /\ UNCHANGED <<lineCount, lastWasNewline>>

EndsLine(c) == c = "\n" \/ (c = EOF /\ ~lastWasNewline)

Wc ==
    /\ command = "wc"
    /\ \E res \in ReadResults(1) :
        IF res <= 0 THEN Returns /\ UNCHANGED <<unread, lineCount, lastWasNewline>>
        ELSE /\ Consumes(res)
             /\ LET c == unread[1]
                IN  /\ lineCount' = lineCount + (IF EndsLine(c) THEN 1 ELSE 0)
                    /\ lastWasNewline' = IF c = EOF THEN lastWasNewline ELSE c = "\n"
                    /\ IF c = EOF THEN Returns ELSE UNCHANGED ended
    /\ UNCHANGED <<buffer, output, unseen>>

(* filter, which returns at an end without writing what came with it.      *)
is_vowel(c) == c \in Vowels

Filter ==
    /\ command = "filter"
    /\ \E res \in ReadResults(STREAM_BUFFER) :
        IF res <= 0 THEN Returns /\ UNCHANGED <<unread, output, unseen>>
        ELSE /\ Consumes(res)
             /\ IF Contains(Got(res), EOF)
                THEN Returns /\ unseen' = (unread[1] # EOF) /\ UNCHANGED output
                ELSE /\ output' = output \o Without(Got(res), {c \in Letters : is_vowel(c)})
                     /\ UNCHANGED <<ended, unseen>>
    /\ UNCHANGED <<buffer, lineCount, lastWasNewline>>

(* A read of the keyboard begins, and the keys typed since the one before  *)
(* returned are lost, the end too when it is among them; or the driver     *)
(* stores keys where no read looks.                                        *)
PassOver ==
    /\ source = "keyboard"
    /\ \E n \in 1..Len(unread) :
          LET done == Len(text) + 1 - Len(unread)
          IN  /\ Consumes(n)
              /\ text' = SubSeq(text, 1, done) \o SubSeq(text, done + n + 1, Len(text))
              /\ unseen' = (unseen \/ n = Len(unread))
    /\ UNCHANGED <<buffer, output, lineCount, lastWasNewline, ended>>

StreamInit ==
    /\ command \in {"cat", "wc", "filter"} /\ source \in {"keyboard", "pipe"}
    /\ text \in UNION {[1..n -> Letters] : n \in 0..MAX_INPUT}
    /\ unread = IF source = "pipe" THEN text ELSE Append(text, EOF)
    /\ buffer = [i \in 1..CAT_BYTES |-> NOTHING]
    /\ output = <<>> /\ lineCount = 0 /\ lastWasNewline = TRUE
    /\ ended = FALSE /\ unseen = FALSE

StreamNext ==
    /\ ~ended
    /\ \/ (Cat \/ Wc \/ Filter) /\ UNCHANGED text
       \/ PassOver
    /\ UNCHANGED <<command, source>>

StreamSpec == StreamInit /\ [][StreamNext]_streamVars

-----------------------------------------------------------------------------
(* Properties.                                                             *)

(* However its input is cut into reads, and whatever keys are lost between *)
(* two reads, cat writes all it was given and filter that without its      *)
(* vowels; unless an end was lost or came with other characters in one     *)
(* read.                                                                   *)
OutputIsInput ==
    ended /\ ~unseen =>
        CASE command = "cat"    -> output = text
          [] command = "filter" -> output = Without(text, Vowels)
          [] command = "wc"     -> output = <<>>

(* wc counts the newlines it was given, and a line that the end of a pipe  *)
(* cuts off is not counted, although one that the keyboard's end cuts off  *)
(* is.                                                                     *)
LinesAreCounted ==
    ended /\ command = "wc" =>
        lineCount = Cardinality({i \in DOMAIN text : text[i] = "\n"})
                    + (IF source = "keyboard" /\ text # <<>> /\ text[Len(text)] # "\n"
                       THEN 1 ELSE 0)

(* No command waits for more keys once the last of its input has been      *)
(* read, unless it missed the end, or the end was passed over between two  *)
(* reads.                                                                  *)
NobodyWaitsForMore ==
    source = "keyboard" /\ unread = <<>> /\ ~unseen => ended

(* The commands do with the input that their reads give them what they are *)
(* for, up to its end.                                                     *)
CommandsWork == OutputIsInput /\ LinesAreCounted /\ NobodyWaitsForMore

=============================================================================
