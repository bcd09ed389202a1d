------------------------------- MODULE Eliminator -------------------------------
(***************************************************************************)
(* The game of programs/eliminator.c: one or two players who draw a line   *)
(* on the board and lose when they leave it or run into a line.            *)
(*                                                                         *)
(* y is counted from the pixel row below the score, where the border is    *)
(* drawn.  Keys come whenever they come between two moves; the SPEED turns *)
(* of the loop that only poll the keyboard are not counted.  In a game for *)
(* one, nothing looks at the second player's coordinates.                  *)
(***************************************************************************)
EXTENDS Integers, FiniteSets

CONSTANTS
    BOARD_WIDTH, BOARD_HEIGHT,
    MAX_POINTS,
    MAX_GAMES       \* a bound: games played in one run of the program

ASSUME EliminatorAssumption ==
    /\ BOARD_WIDTH \in Nat \ {0} /\ MAX_POINTS \in Nat
    /\ BOARD_HEIGHT \in Nat \ {0} /\ BOARD_HEIGHT % 2 = 0    \* 768 - 16 rows

VARIABLES
    phase,      \* "menu", "play", "lost" or "left"
    currentDecision,
    players,
    coord,      \* p1Coord, p2Coord
    dir,        \* p1Dir, p2Dir
    painted,    \* the pixels that are not black
    lost,       \* who lost, as did_lose says it
    pts,
    calls,      \* calls of eliminator that have not returned: lose calls it again
    moves       \* history: moves of this game, up to more than it has pixels

gameVars == <<phase, currentDecision, players, coord, dir, painted, lost, pts, calls, moves>>

Playing == 1..players

Border == {<<x, 0>> : x \in 0..BOARD_WIDTH - 1}

(* change_dir: the keys of both players.                                   *)
p1Keys == [w |-> "UP", a |-> "LEFT", s |-> "DOWN", d |-> "RIGHT"]
p2Keys == [i |-> "UP", j |-> "LEFT", k |-> "DOWN", l |-> "RIGHT"]

ChangeDir(c) ==
    dir' = <<IF c \in DOMAIN p1Keys THEN p1Keys[c] ELSE dir[1],
             IF c \in DOMAIN p2Keys THEN p2Keys[c] ELSE dir[2]>>

Toward(p, d) ==
    CASE d = "UP"   -> <<p[1], p[2] - 1>> [] d = "LEFT"  -> <<p[1] - 1, p[2]>>
      [] d = "DOWN" -> <<p[1], p[2] + 1>> [] d = "RIGHT" -> <<p[1] + 1, p[2]>>

(* move.                                                                   *)
Moved == [q \in Playing |-> Toward(coord[q], dir[q])]

InBoard(p) == p[1] \in 0..BOARD_WIDTH - 1 /\ p[2] \in 0..BOARD_HEIGHT - 1

(* did_lose looks at the pixels before either player has drawn.            *)
HitMut(p) == ~InBoard(p)

Hit(p) == ~InBoard(p) \/ p \in painted

did_lose(at) ==
    CASE \A q \in Playing : ~Hit(at[q])         -> 0
      [] players = 2 /\ Hit(at[1]) /\ Hit(at[2]) -> 3
      [] Hit(at[1])                              -> 1
      [] OTHER                                   -> 2

-----------------------------------------------------------------------------
(* The two menus: how many players, and whether to play again.             *)
Choose(c) ==
    /\ phase \in {"menu", "lost"} /\ c \in {"a", "d"}
    /\ currentDecision' = IF c = "a" THEN 1 ELSE 2
    /\ UNCHANGED <<phase, players, coord, dir, painted, lost, pts, calls, moves>>

(* play1 and play2 up to their loop.                                       *)
PlacesMut == <<<<BOARD_WIDTH \div 2, 0>>, <<BOARD_WIDTH \div 2, BOARD_HEIGHT>>>>

Places == <<<<BOARD_WIDTH \div 2, 0>>, <<BOARD_WIDTH \div 2, BOARD_HEIGHT - 1>>>>

Start ==
    /\ phase = "menu"
    /\ phase' = "play"
    /\ players' = currentDecision
    /\ coord' = Places
    /\ dir' = <<"DOWN", "UP">>
    /\ painted' = Border
    /\ lost' = 0 /\ pts' = 0
    /\ moves' = 0
    /\ UNCHANGED <<currentDecision, calls>>

Steer(c) ==
    /\ phase = "play" /\ lost = 0
    /\ ChangeDir(c)
    /\ UNCHANGED <<phase, currentDecision, players, coord, painted, lost, pts, calls, moves>>

Scored == IF pts < MAX_POINTS THEN pts + 1 ELSE pts

(* One move and the turns of the loop up to the next, which score it.      *)
Move ==
    /\ phase = "play"
    /\ lost' = did_lose(Moved)
    /\ coord' = [q \in 1..2 |-> IF q \in Playing THEN Moved[q] ELSE coord[q]]
    /\ painted' = painted \cup {p \in {Moved[q] : q \in Playing} : InBoard(p)}
    /\ IF lost' = 0 THEN pts' = Scored /\ UNCHANGED phase ELSE phase' = "lost" /\ UNCHANGED pts
    /\ moves' = IF moves <= BOARD_WIDTH * BOARD_HEIGHT THEN moves + 1 ELSE moves
    /\ currentDecision' = IF lost' = 0 THEN currentDecision ELSE 1
    /\ UNCHANGED <<players, dir, calls>>

(* lose: its menu calls eliminator again, or the program returns.          *)
PlayAgain ==
    /\ phase = "lost" /\ currentDecision = 1
    /\ calls < MAX_GAMES /\ calls' = calls + 1
    /\ phase' = "menu"
    /\ painted' = {}
    /\ UNCHANGED <<currentDecision, players, coord, dir, lost, pts, moves>>

Leave ==
    /\ phase = "lost" /\ currentDecision = 2
    /\ phase' = "left" /\ calls' = 0
    /\ painted' = {}
    /\ UNCHANGED <<currentDecision, players, coord, dir, lost, pts, moves>>

GameInit ==
    /\ phase = "menu" /\ currentDecision = 1 /\ players = 1
    /\ coord = <<<<0, 0>>, <<0, 0>>>> /\ dir = <<"DOWN", "UP">>
    /\ painted = {} /\ lost = 0 /\ pts = 0 /\ calls = 1
    /\ moves = 0

GameNext ==
    \/ \E c \in {"a", "d"} : Choose(c)
    \/ \E c \in DOMAIN p1Keys \cup DOMAIN p2Keys : Steer(c)
    \/ Start \/ Move \/ PlayAgain \/ Leave

GameSpec == GameInit /\ [][GameNext]_gameVars

-----------------------------------------------------------------------------
(* Properties.                                                             *)

GameTypeOK ==
    /\ phase \in {"menu", "play", "lost", "left"}
    /\ players \in 1..2 /\ currentDecision \in 1..2
    /\ lost \in {0, 1} \cup (IF players = 2 THEN {2, 3} ELSE {})
    /\ pts \in 0..MAX_POINTS
    /\ (phase \in {"lost", "left"}) => lost # 0

(* While a game goes on no pixel has been entered twice, neither by one    *)
(* player nor by both, although did_lose looks at the pixels before the    *)
(* players have drawn and would let two of them into the same one: so a    *)
(* game is over after as many moves as the board has pixels to enter.      *)
LinesDoNotCross ==
    phase = "play" => Cardinality(painted \ Border) = players * moves

(* The two players of a game never stand on the same pixel: they start an  *)
(* odd number of steps apart and take their steps together.                *)
HeadsNeverMeet == phase = "play" /\ players = 2 => coord[1] # coord[2]

(* The types, and the lines.                                               *)
GameSound == GameTypeOK /\ LinesDoNotCross

=============================================================================
