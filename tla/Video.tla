------------------------------- MODULE Video --------------------------------
(***************************************************************************)
(* Kernel/video.c and Kernel/mouse.c as operators on two records:          *)
(*   s, the screen:  the cursor (i, j), the corner of the area of the      *)
(*      module that writes (iStart, jStart) and the text of the cells;     *)
(*   m, the mouse:   the pointer (x, y), the two ends of the selection,    *)
(*      the buttons remembered from the last packet, the copied text and   *)
(*      the cells whose attribute is that of the mouse.                    *)
(* A cell is its index f * WIDTH + c, as in selection() and copyMouse().   *)
(* The rows above TOP hold the title and the clock and are never written   *)
(* by a program.                                                           *)
(***************************************************************************)
EXTENDS Integers, Sequences

CONSTANTS
    WIDTH,
    HEIGHT,
    TOP      \* the first row a module may write: 3

ASSUME VideoAssumption ==
    WIDTH \in Nat \ {0} /\ HEIGHT \in Nat /\ TOP \in 1 .. HEIGHT - 2

Cells == 0 .. WIDTH * HEIGHT - 1
Cell(f, c) == f * WIDTH + c
validPosition(f, c) == f \in 0 .. HEIGHT - 1 /\ c \in 0 .. WIDTH - 1

\* The screen main() leaves to the first process.
initialScreen ==
    [i |-> 0, j |-> TOP, iStart |-> 0, jStart |-> TOP, video |-> [k \in Cells |-> " "]]

changeStartModule(s, f, c) ==
    IF f \in 0 .. WIDTH /\ c \in TOP .. HEIGHT
    THEN [s EXCEPT !.jStart = c, !.iStart = f, !.i = f]
    ELSE s

setCursor(s, f, c) == IF validPosition(f, c) THEN [s EXCEPT !.i = c, !.j = f] ELSE s

\* The rows of the module move up by one; the cursor goes to the start of the last row.
scroll(s) ==
    [s EXCEPT !.j = HEIGHT - 1, !.i = s.iStart,
              !.video = [k \in Cells |-> IF k \div WIDTH = HEIGHT - 1 THEN " "
                                         ELSE IF k \div WIDTH >= s.jStart THEN s.video[k + WIDTH]
                                         ELSE s.video[k]]]

forwardCursor(s) ==
    CASE s.i # WIDTH - 1 -> [s EXCEPT !.i = s.i + 1]
      [] s.i = WIDTH - 1 /\ s.j # HEIGHT - 1 -> [s EXCEPT !.j = s.j + 1, !.i = s.iStart]
      [] s.i = WIDTH - 1 /\ s.j = HEIGHT - 1 -> scroll(s)

\* The loop of lineJump calls forwardCursor until it changes the row.
lineJump(s) ==
    IF s.j = HEIGHT - 1 THEN scroll(s) ELSE [s EXCEPT !.j = s.j + 1, !.i = s.iStart]

\* Mutant of backInLine: it goes back into the prompt.
backInLineAlways(s) == [s EXCEPT !.i = s.i - 1]

backInLine(s) == IF s.i = s.iStart THEN s ELSE [s EXCEPT !.i = s.i - 1]

printChar(s, f, c, a) ==
    IF validPosition(f, c) THEN [s EXCEPT !.video[Cell(f, c)] = a] ELSE s

putChar(s, a) == forwardCursor(printChar(s, s.j, s.i, a))

\* sys_call_clearC: every row of a module, whichever is writing, and the cursor.
clearRows(s) ==
    setCursor([s EXCEPT !.video = [k \in Cells |-> IF k \div WIDTH >= TOP THEN " " ELSE s.video[k]]],
              TOP, 0)

-----------------------------------------------------------------------------
(* The mouse.  A packet is [left, right, dx, dy], dx and dy in cells.      *)

\* The pointer starts at (10, 10); in a smaller screen, in the middle.
initialMouse ==
    [x |-> WIDTH \div 2, y |-> HEIGHT \div 2, init |-> 0, fin |-> 0, selecting |-> FALSE, flag |-> FALSE,
     copied |-> <<>>, lit |-> {}]

Pointer(m) == Cell(m.y, m.x)

\* The cells between the ends, in whichever order they are.
Selected(m) == {k \in Cells : \/ m.init <= k /\ k <= m.fin
                              \/ m.fin <= k /\ k <= m.init}

\* Mutant of undoSelection: it stops before the last cell.
undoSelectionShort(m) == [m EXCEPT !.lit = m.lit \ (Selected(m) \ {IF m.init < m.fin THEN m.fin ELSE m.init})]

undoSelection(m) == [m EXCEPT !.lit = m.lit \ Selected(m)]

copyMouse(m, video) ==
    LET first == IF m.init < m.fin THEN m.init ELSE m.fin
        last == IF m.init < m.fin THEN m.fin ELSE m.init
    IN SubSeq([h \in 1 .. last - first + 1 |-> video[first + h - 1]], 1, last - first + 1)

selection(m, video) ==
    [m EXCEPT !.lit = m.lit \cup Selected(m), !.copied = copyMouse(m, video)]

\* The part of the handler before paste().
buttons(m, video, packet) ==
    LET undone == IF m.selecting THEN undoSelection(m) ELSE m
    IN IF packet.left
       THEN selection([undone EXCEPT !.selecting = TRUE, !.fin = Pointer(m),
                                     !.init = IF m.selecting THEN m.init ELSE Pointer(m)], video)
       ELSE [undone EXCEPT !.selecting = FALSE]

\* The part after it: a step that would leave the screen is not taken.
move(m, packet) ==
    LET x == IF m.x + packet.dx \in 0 .. WIDTH - 1 THEN m.x + packet.dx ELSE m.x
        y == IF m.y - packet.dy \in 0 .. HEIGHT - 1 THEN m.y - packet.dy ELSE m.y
    IN [m EXCEPT !.x = x, !.y = y, !.flag = packet.right,
                 !.lit = (m.lit \ {Pointer(m)}) \cup {Cell(y, x)}]
=============================================================================
