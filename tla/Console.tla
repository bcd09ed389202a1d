-------------------------------- MODULE Console --------------------------------
(***************************************************************************)
(* The text console (Kernel/drivers/videoDriver.c) and what is done with   *)
(* it: the line the shell reads (insert_command, shell.c), the command it  *)
(* then runs in the foreground, and another in the background, each of     *)
(* whose system calls is one step.                                         *)
(*                                                                         *)
(* Lengths are counted in characters of scale 1: CHAR_WIDTH pixels across, *)
(* CHAR_HEIGHT down.  A cell of the screen shows the character whose glyph *)
(* covers it.                                                              *)
(***************************************************************************)
EXTENDS Integers, SequencesExt

CONSTANTS
    WIDTH, HEIGHT,      \* of the screen
    MAX_SCALE,          \* the largest scale set_scale accepts
    CURSOR,             \* the values of cursorX: those of a uint16_t
    LINE_SIZE,          \* the longest line insert_command reads: shell.c's BUFFER_SIZE
    Chars,              \* characters with a glyph that can be typed
    Undrawn,            \* those without one: the tab, escape, the arrows, the end of file
    PROMPT,             \* what the shell prints before it reads a line
    Programs,           \* the system calls each program makes, in order
    MAX_LINES           \* a bound: lines read, background programs run, and ^C and ^D

IsText(s) == s \in Seq(Range(s))

ASSUME ConsoleAssumption ==
    /\ WIDTH \in Nat /\ HEIGHT \in Nat /\ CURSOR \in Nat
    /\ MAX_SCALE \in 1..WIDTH /\ MAX_SCALE <= HEIGHT /\ CURSOR > WIDTH
    /\ LINE_SIZE \in Nat \ {0}
    /\ "\n" \notin Chars /\ "" \notin Chars
    /\ Undrawn \cap ({"\n", "", " ", "<-", "^", "C", "D"} \cup Chars) = {}

SYSTEM_CALLS ==
    {"write", "scale_up", "scale_down", "clear", "set_cursor", "cursor_line"}

(* Coordinates are unsigned in the system calls.                           *)
ASSUME ProgramsAssumption ==
    /\ IsText(PROMPT)
    /\ \A program \in DOMAIN Programs :
          /\ IsText(Programs[program])
          /\ \A call \in Range(Programs[program]) :
                /\ call.op \in SYSTEM_CALLS /\ IsText(call.out)
                /\ call.op = "set_cursor" => call.x \in Nat
                /\ call.op \in {"set_cursor", "cursor_line"} => call.y \in Nat

VARIABLES
    con,        \* cursorX, cursorY, scale, and the cells of the screen
    line,       \* the buffer of insert_command
    running,    \* the calls the foreground and the background program have left
    reading,    \* insert_command is reading
    lines,      \* lines read, background programs started, and ^C and ^D so far
    disturbed,  \* history: since the prompt, a backspace in the first column or over a
                \* character without a glyph, or a call of another program or a ^C or ^D
                \* that changed the screen or the scale
    unsettled   \* history: the scale has changed, or the cursor was put at the edge, and
                \* the screen was not cleared since

consoleVars == <<con, line, running, reading, lines, disturbed, unsettled>>

BLANK == " "
BACKSPACE == "<-"

-----------------------------------------------------------------------------
(* The driver.                                                             *)

set_scale(c, s) == IF s \in 1..MAX_SCALE THEN [c EXCEPT !.scale = s] ELSE c

clear_screen(c) ==
    [c EXCEPT !.x = 0, !.y = 0, !.cells = [p \in DOMAIN c.cells |-> BLANK]]

AtMost(a, b) == IF a < b THEN a ELSE b

set_cursor(c, x, y) ==
    [c EXCEPT !.x = AtMost(x, WIDTH - c.scale), !.y = AtMost(y, HEIGHT - c.scale)]

set_cursor_line(c, n) ==
    IF n >= HEIGHT \div c.scale THEN c ELSE set_cursor(c, c.x, n * c.scale)

(* The font has glyphs from FIRST_CHAR to LAST_CHAR only.                  *)
HasGlyph(ch) == ch \notin Undrawn

(* The pixels of a glyph that are off the screen are not drawn.            *)
put_char(c, ch) ==
    IF ~HasGlyph(ch) THEN c
    ELSE [c EXCEPT !.cells = [p \in DOMAIN c.cells |->
            IF p[1] \in c.x..c.x + c.scale - 1 /\ p[2] \in c.y..c.y + c.scale - 1
            THEN ch ELSE c.cells[p]]]

(* Scrolling without blanking what comes up.                               *)
new_lineMut(c) ==
    IF c.y + 2 * c.scale <= HEIGHT
    THEN [c EXCEPT !.x = 0, !.y = c.y + c.scale]
    ELSE [c EXCEPT !.x = 0]

new_line(c) ==
    IF c.y + 2 * c.scale <= HEIGHT
    THEN [c EXCEPT !.x = 0, !.y = c.y + c.scale]
    ELSE [c EXCEPT !.x = 0, !.cells = [p \in DOMAIN c.cells |->
            IF p[2] < HEIGHT - c.scale THEN c.cells[<<p[1], p[2] + c.scale>>] ELSE BLANK]]

(* A line wraps before its last column.                                    *)
AdvanceMut(c) ==
    LET moved == [c EXCEPT !.x = (c.x + c.scale) % CURSOR]
    IN  IF moved.x > WIDTH THEN new_line(moved) ELSE moved

Advance(c) ==
    LET moved == [c EXCEPT !.x = (c.x + c.scale) % CURSOR]
    IN  IF moved.x >= WIDTH - c.scale THEN new_line(moved) ELSE moved

StepBack(c) == [c EXCEPT !.x = (c.x - c.scale) % CURSOR]

put_char_cursor(c, ch) ==
    CASE ch = "\n"      -> new_line(c)
      [] ch = BACKSPACE -> IF c.x < c.scale THEN c
                           ELSE StepBack(Advance(put_char(StepBack(c), BLANK)))
      [] OTHER          -> IF HasGlyph(ch) THEN Advance(put_char(c, ch)) ELSE put_char(c, ch)

print(c, text) ==
    LET shown[n \in 0..Len(text)] ==
            IF n = 0 THEN c ELSE put_char_cursor(shown[n - 1], text[n])
    IN  shown[Len(text)]

(* A cursor put at the right edge: the space that a backspace prints wraps *)
(* the line, and the second step back is off the screen.                   *)
AtEdge(c) == c.x > 0 /\ c.x >= WIDTH - c.scale

(* Where a line that begins in the first column puts its characters.       *)
Aligned(c) == c.x % c.scale = 0 /\ c.y % c.scale = 0

-----------------------------------------------------------------------------
(* insert_command.                                                         *)
Echo(ch) == con' = put_char_cursor(con, ch)

Type(ch) ==
    /\ reading /\ Len(line) < LINE_SIZE
    /\ IF ch = BACKSPACE THEN line # <<>> /\ line' = Front(line) ELSE line' = Append(line, ch)
    /\ Echo(ch)
    /\ disturbed' = (\/ disturbed
                     \/ ch = BACKSPACE /\ (con.x < con.scale \/ ~HasGlyph(Last(line))))
    /\ UNCHANGED <<running, reading, lines, unsettled>>

(* The line ends with a newline, or when the buffer is full, and is run.   *)
EndLine(program) ==
    /\ reading
    /\ Echo("\n")
    /\ reading' = FALSE
    /\ line' = <<>>
    /\ running' = [running EXCEPT !.fg = Programs[program]]
    /\ UNCHANGED <<lines, disturbed, unsettled>>

Prompt ==
    /\ ~reading /\ running.fg = <<>>
    /\ lines < MAX_LINES /\ lines' = lines + 1
    /\ con' = print(con, PROMPT)
    /\ reading' = TRUE
    /\ disturbed' = (unsettled \/ ~Aligned(con))
    /\ UNCHANGED <<line, running, unsettled>>

-----------------------------------------------------------------------------
(* The system calls of a program.  What a background program writes is     *)
(* shown only when it is an error (print, STDERR).                         *)
Shown(who, call) == call.out # <<>> /\ (who = "fg" \/ call.fd = "STDERR")

Called(who, call) ==
    CASE call.op = "write"       -> IF Shown(who, call) THEN print(con, call.out) ELSE con
      [] call.op = "scale_up"    -> set_scale(con, con.scale + 1)
      [] call.op = "scale_down"  -> set_scale(con, con.scale - 1)
      [] call.op = "clear"       -> clear_screen(con)
      [] call.op = "set_cursor"  -> set_cursor(con, call.x, call.y)
      [] call.op = "cursor_line" -> set_cursor_line(con, call.y)

Call(who) ==
    /\ running[who] # <<>>
    /\ LET call == Head(running[who])
       IN  /\ con' = Called(who, call)
           /\ disturbed' = (disturbed \/ (reading /\ con' # con))
           /\ unsettled' = IF call.op = "clear" THEN FALSE
                           ELSE \/ unsettled \/ con'.scale # con.scale
                                \/ call.op = "set_cursor" /\ AtEdge(con')
    /\ running' = [running EXCEPT ![who] = Tail(@)]
    /\ UNCHANGED <<line, reading, lines>>

Background(program) ==
    /\ running.bg = <<>>
    /\ lines < MAX_LINES /\ lines' = lines + 1
    /\ running' = [running EXCEPT !.bg = Programs[program]]
    /\ UNCHANGED <<con, line, reading, disturbed, unsettled>>

(* The handler of the keyboard shows ^C and ^D at the cursor when the      *)
(* process it interrupts is in the foreground; ^C kills the command.       *)
ShowsKey(c) ==
    /\ lines < MAX_LINES /\ lines' = lines + 1
    /\ \E shown \in BOOLEAN : con' = IF shown THEN print(con, <<"^", c, "\n">>) ELSE con
    /\ disturbed' = (disturbed \/ (reading /\ con' # con))
    /\ UNCHANGED <<line, reading, unsettled>>

PressCtrlC == ShowsKey("C") /\ running' = [running EXCEPT !.fg = <<>>]
PressCtrlD == ShowsKey("D") /\ UNCHANGED running

ConsoleInit ==
    /\ con = [x |-> 0, y |-> 0, scale |-> 1,
              cells |-> [p \in (0..WIDTH - 1) \X (0..HEIGHT - 1) |-> BLANK]]
    /\ line = <<>>
    /\ running = [fg |-> <<>>, bg |-> <<>>]
    /\ reading = FALSE
    /\ lines = 0
    /\ disturbed = FALSE /\ unsettled = FALSE

ConsoleNext ==
    \/ Prompt
    \/ \E ch \in Chars \cup Undrawn \cup {BACKSPACE} : Type(ch)
    \/ \E program \in DOMAIN Programs : EndLine(program) \/ Background(program)
    \/ \E who \in {"fg", "bg"} : Call(who)
    \/ PressCtrlC
    \/ PressCtrlD

ConsoleSpec == ConsoleInit /\ [][ConsoleNext]_consoleVars

-----------------------------------------------------------------------------
(* Properties.                                                             *)

ConsTypeOK ==
    /\ con.x \in 0..CURSOR - 1 /\ con.y \in 0..HEIGHT - 1 /\ con.scale \in 1..MAX_SCALE
    /\ Len(line) <= LINE_SIZE
    /\ ~reading => line = <<>>

(* The line the shell will run is the line on the screen, but for its      *)
(* characters that have no glyph, over wrapped lines, scrolling and        *)
(* backspaces at every scale; unless a backspace took a character from the *)
(* buffer only, or one without a glyph, which erases another's, something  *)
(* else was drawn on the screen, or a program before left the cursor       *)
(* between two columns.                                                    *)
Columns == Min({n \in 1..WIDTH : n * con.scale >= WIDTH - con.scale})
Place(k) ==
    LET n == (con.y \div con.scale) * Columns + con.x \div con.scale - k
    IN  <<(n % Columns) * con.scale, (n \div Columns) * con.scale>>

DrawnFrom(i) == {j \in i..Len(line) : HasGlyph(line[j])}

LineIsShown ==
    reading /\ ~disturbed =>
        \A i \in DrawnFrom(1) :
            LET p == Place(Cardinality(DrawnFrom(i)))
            IN  p[2] >= 0 => con.cells[p] = line[i]

(* The next character has room on the screen, unless the scale has changed *)
(* or a program put the cursor at the edge, and the screen has not been    *)
(* cleared yet.                                                            *)
CursorOnScreen ==
    ~unsettled => con.x + con.scale <= WIDTH /\ con.y + con.scale <= HEIGHT

ConsoleSound == ConsTypeOK /\ CursorOnScreen

=============================================================================
