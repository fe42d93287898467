---------------------------- MODULE ShellProofs -----------------------------
(***************************************************************************)
(* The console for a screen and a ring of any size, any keys and any mouse *)
(* packets: what is typed reaches the readers in order, the row shows the  *)
(* line the shell will have, the cursor stays in its area and the mouse    *)
(* leaves no trail.                                                        *)
(***************************************************************************)
EXTENDS Shell, SequenceTheorems, FiniteSetTheorems, WellFoundedInduction, TLAPS

-----------------------------------------------------------------------------
(* Cells.                                                                  *)

\* A valid position is a cell of the screen.
LEMMA CellInside ==
    ASSUME NEW f \in 0 .. HEIGHT - 1, NEW c \in 0 .. WIDTH - 1
    PROVE  Cell(f, c) \in Cells
  <1>1. WIDTH \in Nat \ {0} /\ HEIGHT \in Nat
    BY VideoAssumption
  <1>2. f * WIDTH \in Nat /\ WIDTH * HEIGHT \in Nat
    BY <1>1
  <1>3. (HEIGHT - 1 - f) * WIDTH \in Nat
    BY <1>1
  <1>4. (HEIGHT - 1 - f) * WIDTH = WIDTH * HEIGHT - WIDTH - f * WIDTH
    BY <1>1
  <1> QED BY <1>1, <1>2, <1>3, <1>4 DEF Cell, Cells

\* The cell below one that is not in the last row.
LEMMA CellBelow ==
    ASSUME NEW k \in Cells, k \div WIDTH # HEIGHT - 1
    PROVE  k + WIDTH \in Cells
  <1>1. WIDTH \in Nat \ {0} /\ HEIGHT \in Nat \ {0}
    BY VideoAssumption
  <1>2. k \in Nat /\ k < WIDTH * HEIGHT
    BY <1>1 DEF Cells
  <1> DEFINE f == k \div WIDTH
             c == k % WIDTH
  <1>3. f \in Nat /\ c \in 0 .. WIDTH - 1 /\ k = WIDTH * f + c
    BY <1>1, <1>2
  <1> HIDE DEF f, c
  <1>4. f < HEIGHT
    <2> SUFFICES ASSUME f >= HEIGHT PROVE FALSE
      BY <1>1, <1>3
    <2>1. (f - HEIGHT) * WIDTH \in Nat
      BY <1>1, <1>3
    <2>2. (f - HEIGHT) * WIDTH = WIDTH * f - WIDTH * HEIGHT
      BY <1>1, <1>3
    <2> QED BY <1>1, <1>2, <1>3, <2>1, <2>2
  <1>5. f + 1 \in 0 .. HEIGHT - 1
    BY <1>1, <1>3, <1>4 DEF f
  <1>6. Cell(f + 1, c) \in Cells
    BY <1>3, <1>5, CellInside
  <1>7. Cell(f + 1, c) = k + WIDTH
    <2>1. (f + 1) * WIDTH = WIDTH * f + WIDTH
      BY <1>1, <1>3
    <2> QED BY <1>1, <1>3, <2>1 DEF Cell
  <1> QED BY <1>6, <1>7

-----------------------------------------------------------------------------
(* The screen.                                                             *)

\* The constants of the screen as numbers.
LEMMA ScreenSize ==
    /\ WIDTH \in Nat \ {0} /\ HEIGHT \in Nat /\ TOP \in Nat \ {0} /\ TOP + 2 =< HEIGHT
    /\ PromptLength \in 0 .. WIDTH - 1
  BY VideoAssumption, ShellAssumption

\* The fields of a screen, and the other way round.
LEMMA ScreenFields ==
    ASSUME NEW s \in Screens
    PROVE  /\ s.i \in Int /\ s.i < WIDTH /\ s.j \in TOP .. HEIGHT - 1
           /\ s.iStart \in 0 .. WIDTH - 1 /\ s.jStart \in TOP .. HEIGHT
           /\ s.video \in [Cells -> Characters]
  BY DEF Screens

\* printChar, in the area of the cursor or not.
LEMMA PrintChar ==
    ASSUME NEW s \in Screens, NEW f \in Int, NEW c \in Int, NEW a \in Characters
    PROVE  /\ printChar(s, f, c, a) \in Screens
           /\ printChar(s, f, c, a).i = s.i /\ printChar(s, f, c, a).j = s.j
           /\ printChar(s, f, c, a).iStart = s.iStart
           /\ validPosition(f, c) =>
                \A k \in Cells : printChar(s, f, c, a).video[k] =
                                    IF k = Cell(f, c) THEN a ELSE s.video[k]
  <1>1. CASE validPosition(f, c)
    <2>1. Cell(f, c) \in Cells
      BY <1>1, CellInside DEF validPosition
    <2>2. [s.video EXCEPT ![Cell(f, c)] = a] \in [Cells -> Characters]
      BY <2>1, ScreenFields
    <2>3. printChar(s, f, c, a) = [s EXCEPT !.video = [s.video EXCEPT ![Cell(f, c)] = a]]
      BY <1>1 DEF printChar, Screens
    <2> QED BY <2>2, <2>3 DEF Screens
  <1>2. CASE ~validPosition(f, c)
    BY <1>2 DEF printChar
  <1> QED BY <1>1, <1>2

\* scroll puts the cursor at the start of the last row.
LEMMA ScrollFacts ==
    ASSUME NEW s \in Screens
    PROVE  /\ scroll(s) \in Screens
           /\ scroll(s).i = s.iStart /\ scroll(s).iStart = s.iStart
  <1> DEFINE v == [k \in Cells |-> IF k \div WIDTH = HEIGHT - 1 THEN " "
                                   ELSE IF k \div WIDTH >= s.jStart THEN s.video[k + WIDTH]
                                   ELSE s.video[k]]
  <1>1. v \in [Cells -> Characters]
    <2>1. ASSUME NEW k \in Cells PROVE v[k] \in Characters
      <3>1. " " \in Characters
        BY DEF Characters
      <3>2. k \div WIDTH # HEIGHT - 1 => k + WIDTH \in Cells
        BY CellBelow
      <3> QED BY <3>1, <3>2, ScreenFields
    <2> QED BY <2>1
  <1>2. scroll(s) = [s EXCEPT !.j = HEIGHT - 1, !.i = s.iStart, !.video = v]
    BY DEF scroll
  <1> HIDE DEF v
  <1>3. HEIGHT - 1 \in TOP .. HEIGHT - 1 /\ s.iStart \in Int /\ s.iStart < WIDTH
    BY ScreenSize, ScreenFields
  <1> QED BY <1>1, <1>2, <1>3 DEF Screens

\* forwardCursor goes one column on, or to the start of a row.
LEMMA ForwardFacts ==
    ASSUME NEW s \in Screens
    PROVE  /\ forwardCursor(s) \in Screens /\ forwardCursor(s).iStart = s.iStart
           /\ s.i # WIDTH - 1 => forwardCursor(s) = [s EXCEPT !.i = s.i + 1]
           /\ s.i = WIDTH - 1 => forwardCursor(s).i = s.iStart
  <1>1. CASE s.i # WIDTH - 1
    <2>1. forwardCursor(s) = [s EXCEPT !.i = s.i + 1]
      BY <1>1 DEF forwardCursor
    <2>2. s.i + 1 \in Int /\ s.i + 1 < WIDTH
      BY <1>1, ScreenSize, ScreenFields
    <2> QED BY <1>1, <2>1, <2>2 DEF Screens
  <1>2. CASE s.i = WIDTH - 1 /\ s.j # HEIGHT - 1
    <2>1. forwardCursor(s) = [s EXCEPT !.j = s.j + 1, !.i = s.iStart]
      BY <1>2 DEF forwardCursor
    <2>2. s.j + 1 \in TOP .. HEIGHT - 1 /\ s.iStart \in Int /\ s.iStart < WIDTH
      BY <1>2, ScreenSize, ScreenFields
    <2> QED BY <1>2, <2>1, <2>2 DEF Screens
  <1>3. CASE s.i = WIDTH - 1 /\ s.j = HEIGHT - 1
    BY <1>3, ScrollFacts DEF forwardCursor
  <1> QED BY <1>1, <1>2, <1>3

\* A character that is not a line feed, and the cursor after it.
LEMMA PutCharFacts ==
    ASSUME NEW s \in Screens, NEW a \in Characters
    PROVE  /\ putChar(s, a) \in Screens /\ putChar(s, a).iStart = s.iStart
           /\ s.i # WIDTH - 1 => putChar(s, a).i = s.i + 1 /\ putChar(s, a).j = s.j
           /\ s.i = WIDTH - 1 => putChar(s, a).i = s.iStart
           /\ s.i \in 0 .. WIDTH - 2 =>
                \A k \in Cells : putChar(s, a).video[k] =
                                    IF k = Cell(s.j, s.i) THEN a ELSE s.video[k]
  <1> DEFINE t == printChar(s, s.j, s.i, a)
  <1>1. s.i \in Int /\ s.j \in Int /\ s.j \in 0 .. HEIGHT - 1
    BY ScreenFields, ScreenSize
  <1>2. /\ t \in Screens /\ t.i = s.i /\ t.j = s.j /\ t.iStart = s.iStart
        /\ validPosition(s.j, s.i) =>
             \A k \in Cells : t.video[k] = IF k = Cell(s.j, s.i) THEN a ELSE s.video[k]
    <2>1. \A f, c \in Int :
            /\ printChar(s, f, c, a) \in Screens
            /\ printChar(s, f, c, a).i = s.i /\ printChar(s, f, c, a).j = s.j
            /\ printChar(s, f, c, a).iStart = s.iStart
            /\ validPosition(f, c) =>
                 \A k \in Cells : printChar(s, f, c, a).video[k] =
                                    IF k = Cell(f, c) THEN a ELSE s.video[k]
      BY PrintChar
    <2> QED BY <1>1, <2>1
  <1>3. s.i \in 0 .. WIDTH - 2 => validPosition(s.j, s.i)
    BY <1>1, ScreenSize DEF validPosition
  <1>4. putChar(s, a) = forwardCursor(t)
    BY DEF putChar
  <1> HIDE DEF t
  <1>5. /\ forwardCursor(t) \in Screens /\ forwardCursor(t).iStart = t.iStart
        /\ t.i # WIDTH - 1 => forwardCursor(t) = [t EXCEPT !.i = t.i + 1]
        /\ t.i = WIDTH - 1 => forwardCursor(t).i = t.iStart
    BY <1>2, ForwardFacts
  <1>6. ASSUME s.i # WIDTH - 1
        PROVE  putChar(s, a).i = s.i + 1 /\ putChar(s, a).j = s.j /\ putChar(s, a).video = t.video
    BY <1>2, <1>4, <1>5, <1>6 DEF Screens
  <1>7. s.i \in 0 .. WIDTH - 2 => s.i # WIDTH - 1
    BY ScreenSize
  <1> QED BY <1>2, <1>3, <1>4, <1>5, <1>6, <1>7

\* A line feed.
LEMMA LineJumpFacts ==
    ASSUME NEW s \in Screens
    PROVE  /\ lineJump(s) \in Screens
           /\ lineJump(s).i = s.iStart /\ lineJump(s).iStart = s.iStart
  <1>1. CASE s.j = HEIGHT - 1
    BY <1>1, ScrollFacts DEF lineJump
  <1>2. CASE s.j # HEIGHT - 1
    <2>1. lineJump(s) = [s EXCEPT !.j = s.j + 1, !.i = s.iStart]
      BY <1>2 DEF lineJump
    <2>2. s.j + 1 \in TOP .. HEIGHT - 1 /\ s.iStart \in Int /\ s.iStart < WIDTH
      BY <1>2, ScreenSize, ScreenFields
    <2> QED BY <2>1, <2>2 DEF Screens
  <1> QED BY <1>1, <1>2

\* backInLine stops at the end of the prompt.
LEMMA BackFacts ==
    ASSUME NEW s \in Screens
    PROVE  /\ backInLine(s) \in Screens
           /\ backInLine(s).iStart = s.iStart /\ backInLine(s).j = s.j
           /\ backInLine(s).video = s.video
           /\ backInLine(s).i = IF s.i = s.iStart THEN s.i ELSE s.i - 1
  <1>1. CASE s.i = s.iStart
    BY <1>1 DEF backInLine
  <1>2. CASE s.i # s.iStart
    <2>1. backInLine(s) = [s EXCEPT !.i = s.i - 1]
      BY <1>2 DEF backInLine
    <2>2. s.i - 1 \in Int /\ s.i - 1 < WIDTH
      BY ScreenFields, ScreenSize
    <2> QED BY <1>2, <2>1, <2>2 DEF Screens
  <1> QED BY <1>1, <1>2

\* changeStartModule as the shell calls it: the cursor is at the end of the prompt.
LEMMA StartFacts ==
    ASSUME NEW s \in Screens, NEW f \in 0 .. WIDTH - 1
    PROVE  /\ changeStartModule(s, f, TOP + 1) \in Screens
           /\ changeStartModule(s, f, TOP + 1).i = f
           /\ changeStartModule(s, f, TOP + 1).iStart = f
  <1>1. changeStartModule(s, f, TOP + 1) = [s EXCEPT !.jStart = TOP + 1, !.iStart = f, !.i = f]
    BY ScreenSize DEF changeStartModule
  <1>2. TOP + 1 \in TOP .. HEIGHT /\ f \in Int /\ f < WIDTH
    BY ScreenSize
  <1> QED BY <1>1, <1>2 DEF Screens

\* clear leaves the corner of the area where it is and puts the cursor at column 0.
LEMMA ClearFacts ==
    ASSUME NEW s \in Screens
    PROVE  /\ clearRows(s) \in Screens
           /\ clearRows(s).i = 0 /\ clearRows(s).iStart = s.iStart
  <1> DEFINE v == [k \in Cells |-> IF k \div WIDTH >= TOP THEN " " ELSE s.video[k]]
             t == [s EXCEPT !.video = v]
  <1>1. v \in [Cells -> Characters]
    BY ScreenFields DEF Characters
  <1>2. clearRows(s) = setCursor(t, TOP, 0)
    BY DEF clearRows
  <1>3. validPosition(TOP, 0)
    BY ScreenSize DEF validPosition
  <1>4. clearRows(s) = [t EXCEPT !.i = 0, !.j = TOP]
    BY <1>2, <1>3 DEF setCursor
  <1> HIDE DEF v
  <1>5. 0 \in Int /\ 0 < WIDTH /\ TOP \in TOP .. HEIGHT - 1
    BY ScreenSize
  <1> QED BY <1>1, <1>4, <1>5 DEF Screens

\* What the keyboard does to the screen leaves the cursor in its area.
LEMMA EchoedFacts ==
    ASSUME screen \in Screens, NEW c \in Characters
    PROVE  /\ Echoed(c) \in Screens /\ Echoed(c).iStart = screen.iStart
           /\ screen.i >= screen.iStart => Echoed(c).i >= Echoed(c).iStart
  <1>1. " " \in Characters
    BY DEF Characters
  <1>2. screen.i \in Int /\ screen.iStart \in Int /\ screen.i < WIDTH /\ WIDTH \in Nat
    BY ScreenFields, ScreenSize
  <1>3. CASE c = Backspace
    <2> DEFINE t == backInLine(screen)
               u == putChar(t, " ")
    <2>1. t \in Screens /\ t.iStart = screen.iStart /\ t.i = IF screen.i = screen.iStart THEN screen.i ELSE screen.i - 1
      BY BackFacts
    <2>2. /\ u \in Screens /\ u.iStart = t.iStart
          /\ t.i # WIDTH - 1 => u.i = t.i + 1
          /\ t.i = WIDTH - 1 => u.i = t.iStart
      <3> HIDE DEF t
      <3> QED BY <1>1, <2>1, PutCharFacts
    <2>3. /\ backInLine(u) \in Screens /\ backInLine(u).iStart = u.iStart
          /\ backInLine(u).i = IF u.i = u.iStart THEN u.i ELSE u.i - 1
      <3> HIDE DEF u
      <3> QED BY <2>2, BackFacts
    <2>4. Echoed(c) = backInLine(u)
      BY <1>3 DEF Echoed, Backspace
    <2> HIDE DEF t, u
    <2>5. t.i \in Int /\ u.i \in Int /\ u.iStart \in Int
      BY <2>1, <2>2, ScreenFields
    <2> QED BY <1>2, <2>1, <2>2, <2>3, <2>4, <2>5
  <1>4. CASE c = "\n"
    <2>1. Echoed(c) = lineJump(screen)
      BY <1>4 DEF Echoed, Backspace
    <2> QED BY <1>2, <2>1, LineJumpFacts
  <1>5. CASE c \notin {Backspace, "\n"}
    <2>1. Echoed(c) = IF ring.isEcho THEN putChar(screen, c) ELSE screen
      BY <1>5 DEF Echoed
    <2> DEFINE t == putChar(screen, c)
    <2>2. /\ t \in Screens /\ t.iStart = screen.iStart
          /\ screen.i # WIDTH - 1 => t.i = screen.i + 1
          /\ screen.i = WIDTH - 1 => t.i = screen.iStart
      BY PutCharFacts
    <2> HIDE DEF t
    <2>3. screen.i >= screen.iStart => t.i >= screen.iStart
      BY <1>2, <2>2
    <2>4. Echoed(c) \in {t, screen}
      BY <2>1 DEF t
    <2> QED BY <2>2, <2>3, <2>4
  <1> QED BY <1>3, <1>4, <1>5

-----------------------------------------------------------------------------
(* The ring.                                                               *)

Slots == 0 .. BUFFERSIZE - 1

\* An index that has passed the end of the ring once.
Turn(x) == x % BUFFERSIZE

\* The % BUFFERSIZE of Following wraps such an index into the ring.
LEMMA Wrap ==
    ASSUME NEW x \in Nat, x < 2 * BUFFERSIZE
    PROVE  Turn(x) = (IF x < BUFFERSIZE THEN x ELSE x - BUFFERSIZE) /\ Turn(x) \in Slots
  <1>1. BUFFERSIZE \in Nat \ {0}
    BY ConsoleAssumption
  <1>2. CASE x < BUFFERSIZE
    <2>1. x % BUFFERSIZE = x
      BY <1>1, <1>2
    <2> QED BY <1>1, <1>2, <2>1 DEF Slots, Turn
  <1>3. CASE x >= BUFFERSIZE
    <2>1. x % BUFFERSIZE = x - BUFFERSIZE
      BY <1>1, <1>3
    <2> QED BY <1>1, <1>3, <2>1 DEF Slots, Turn
  <1> QED BY <1>1, <1>2, <1>3

\* The characters c lie in the buffer b from index x on, and end before index y.
RingAt(x, y, b, c) ==
    y = (x + Len(c)) % BUFFERSIZE /\ \A k \in 1 .. Len(c) : b[(x + k - 1) % BUFFERSIZE] = c[k]

\* RingAt with its indices written that way.
LEMMA RingTurns ==
    ASSUME NEW x, NEW y, NEW b, NEW c
    PROVE  RingAt(x, y, b, c) <=> /\ y = Turn(x + Len(c))
                                  /\ \A k \in 1 .. Len(c) : b[Turn(x + k - 1)] = c[k]
  BY DEF RingAt, Turn

\* putTerminalBuffer: the character goes behind the last one, and overwrites none
\* that was not read.
LEMMA RingInserts ==
    ASSUME NEW x \in Slots, NEW y \in Slots, NEW b \in [Slots -> Characters], NEW c \in Seq(Characters),
           RingAt(x, y, b, c), Len(c) < BUFFERSIZE, NEW d \in Characters
    PROVE  RingAt(x, Turn(y + 1), [b EXCEPT ![y] = d], Append(c, d))
  <1>1. BUFFERSIZE \in Nat \ {0} /\ x \in Nat /\ x < BUFFERSIZE /\ y \in Nat /\ y < BUFFERSIZE
    BY ConsoleAssumption DEF Slots
  <1>2. /\ Len(c) \in Nat /\ Len(Append(c, d)) = Len(c) + 1
        /\ \A k \in 1 .. Len(c) : Append(c, d)[k] = c[k]
        /\ Append(c, d)[Len(c) + 1] = d
    OBVIOUS
  <1>3. /\ y = Turn(x + Len(c))
        /\ \A k \in 1 .. Len(c) : b[Turn(x + k - 1)] = c[k]
    BY RingTurns
  <1>4. y = IF x + Len(c) < BUFFERSIZE THEN x + Len(c) ELSE x + Len(c) - BUFFERSIZE
    <2>1. x + Len(c) \in Nat /\ x + Len(c) < 2 * BUFFERSIZE
      BY <1>1, <1>2
    <2>2. Turn(x + Len(c)) =
             IF x + Len(c) < BUFFERSIZE THEN x + Len(c) ELSE x + Len(c) - BUFFERSIZE
      BY <1>1, <2>1, Wrap
    <2> QED BY <1>3, <2>2
  <1>5. Turn(y + 1) = Turn(x + (Len(c) + 1))
    <2>1. /\ y + 1 \in Nat /\ y + 1 < 2 * BUFFERSIZE
          /\ x + (Len(c) + 1) \in Nat /\ x + (Len(c) + 1) < 2 * BUFFERSIZE
      BY <1>1, <1>2
    <2>2. Turn(y + 1) = IF y + 1 < BUFFERSIZE THEN y + 1 ELSE y + 1 - BUFFERSIZE
      BY <1>1, <2>1, Wrap
    <2>3. Turn(x + (Len(c) + 1)) =
             IF x + (Len(c) + 1) < BUFFERSIZE THEN x + (Len(c) + 1)
             ELSE x + (Len(c) + 1) - BUFFERSIZE
      BY <1>1, <2>1, Wrap
    <2> QED BY <1>1, <1>2, <1>4, <2>2, <2>3
  <1>6. ASSUME NEW k \in 1 .. Len(c) + 1
        PROVE  [b EXCEPT ![y] = d][Turn(x + k - 1)] = Append(c, d)[k]
    <2>1. /\ Turn(x + k - 1) =
             IF x + k - 1 < BUFFERSIZE THEN x + k - 1 ELSE x + k - 1 - BUFFERSIZE
          /\ Turn(x + k - 1) \in Slots
      <3>1. x + k - 1 \in Nat /\ x + k - 1 < 2 * BUFFERSIZE
        BY <1>1, <1>2
      <3> QED BY <1>1, <3>1, Wrap
    <2>2. CASE k = Len(c) + 1
      <3>1. Turn(x + k - 1) = y
        BY <1>1, <1>2, <1>4, <2>1, <2>2
      <3> QED BY <1>2, <2>2, <3>1
    <2>3. CASE k # Len(c) + 1
      <3>1. k \in 1 .. Len(c)
        BY <1>2, <2>3
      <3>2. Turn(x + k - 1) # y
        BY <1>1, <1>2, <1>4, <2>1, <3>1
      <3> QED BY <1>2, <1>3, <2>1, <3>1, <3>2
    <2> QED BY <2>2, <2>3
  <1> QED BY <1>2, <1>5, <1>6, RingTurns

\* getTerminalBuffer: the character at bufferConsume is the oldest one.
LEMMA RingRemoves ==
    ASSUME NEW x \in Slots, NEW y \in Slots, NEW b \in [Slots -> Characters], NEW c \in Seq(Characters),
           RingAt(x, y, b, c), Len(c) =< BUFFERSIZE, c # <<>>
    PROVE  /\ b[x] = Head(c) /\ Tail(c) \in Seq(Characters) /\ Len(Tail(c)) = Len(c) - 1
           /\ RingAt(Turn(x + 1), y, b, Tail(c))
  <1>1. BUFFERSIZE \in Nat \ {0} /\ x \in Nat /\ x < BUFFERSIZE
    BY ConsoleAssumption DEF Slots
  <1>2. /\ Len(c) \in Nat \ {0} /\ Len(Tail(c)) = Len(c) - 1 /\ Tail(c) \in Seq(Characters)
        /\ \A k \in 1 .. Len(c) - 1 : Tail(c)[k] = c[k + 1]
        /\ Head(c) = c[1]
    OBVIOUS
  <1>3. /\ y = Turn(x + Len(c))
        /\ \A k \in 1 .. Len(c) : b[Turn(x + k - 1)] = c[k]
    BY RingTurns
  <1>4. b[x] = Head(c)
    <2>1. Turn(x + 1 - 1) = x /\ 1 \in 1 .. Len(c)
      BY <1>1, <1>2, Wrap
    <2> QED BY <1>2, <1>3, <2>1
  <1>5. /\ Turn(x + 1) = IF x + 1 < BUFFERSIZE THEN x + 1 ELSE x + 1 - BUFFERSIZE
        /\ Turn(x + 1) \in Nat /\ Turn(x + 1) < BUFFERSIZE
    <2>1. x + 1 \in Nat /\ x + 1 < 2 * BUFFERSIZE
      BY <1>1
    <2>2. Turn(x + 1) = IF x + 1 < BUFFERSIZE THEN x + 1 ELSE x + 1 - BUFFERSIZE
      BY <1>1, <2>1, Wrap
    <2> QED BY <1>1, <2>2
  <1> DEFINE z == Turn(x + 1)
  <1>6. z \in Nat /\ z < BUFFERSIZE /\ z = IF x + 1 < BUFFERSIZE THEN x + 1 ELSE x + 1 - BUFFERSIZE
    BY <1>5
  <1> HIDE DEF z
  <1>7. ASSUME NEW k \in 1 .. Len(c) PROVE Turn(z + k - 1) = Turn(x + k)
    <2>1. /\ z + k - 1 \in Nat /\ z + k - 1 < 2 * BUFFERSIZE
          /\ x + k \in Nat /\ x + k < 2 * BUFFERSIZE
      BY <1>1, <1>2, <1>6
    <2>2. Turn(z + k - 1) =
            IF z + k - 1 < BUFFERSIZE THEN z + k - 1 ELSE z + k - 1 - BUFFERSIZE
      BY <1>1, <1>6, <2>1, Wrap
    <2>3. Turn(x + k) = IF x + k < BUFFERSIZE THEN x + k ELSE x + k - BUFFERSIZE
      BY <1>1, <2>1, Wrap
    <2> QED BY <1>1, <1>2, <1>6, <2>2, <2>3
  <1>8. y = Turn(z + Len(Tail(c)))
    <2>1. Len(c) \in 1 .. Len(c) /\ z + Len(c) - 1 = z + Len(Tail(c))
      BY <1>2, <1>6
    <2> QED BY <1>3, <1>7, <2>1
  <1>9. ASSUME NEW k \in 1 .. Len(Tail(c)) PROVE b[Turn(z + k - 1)] = Tail(c)[k]
    <2>1. k \in 1 .. Len(c) /\ k + 1 \in 1 .. Len(c) /\ x + (k + 1) - 1 = x + k
      BY <1>1, <1>2
    <2>2. Turn(z + k - 1) = Turn(x + k)
      BY <1>7, <2>1
    <2>3. b[Turn(x + (k + 1) - 1)] = c[k + 1]
      BY <1>3, <2>1
    <2> QED BY <1>2, <2>1, <2>2, <2>3
  <1> QED BY <1>2, <1>4, <1>8, <1>9, RingTurns DEF z

\* How much there is to read, from the indices (terminal.c:89-108).
LEMMA RingLength ==
    ASSUME NEW x \in Slots, NEW y \in Slots, NEW b, NEW c \in Seq(Characters),
           RingAt(x, y, b, c), Len(c) < BUFFERSIZE
    PROVE  /\ (y - x) % BUFFERSIZE = Len(c)
           /\ y = x <=> c = <<>>
           /\ Turn(y + 1) # x => Len(c) + 1 < BUFFERSIZE
  <1>1. BUFFERSIZE \in Nat \ {0, 1} /\ x \in Nat /\ x < BUFFERSIZE /\ y \in Nat /\ y < BUFFERSIZE
    BY ConsoleAssumption DEF Slots
  <1>2. Len(c) \in Nat /\ (c = <<>> <=> Len(c) = 0)
    OBVIOUS
  <1>3. y = IF x + Len(c) < BUFFERSIZE THEN x + Len(c) ELSE x + Len(c) - BUFFERSIZE
    <2>1. x + Len(c) \in Nat /\ x + Len(c) < 2 * BUFFERSIZE
      BY <1>1, <1>2
    <2>2. Turn(x + Len(c)) = IF x + Len(c) < BUFFERSIZE THEN x + Len(c) ELSE x + Len(c) - BUFFERSIZE
      BY <1>1, <2>1, Wrap
    <2>3. y = Turn(x + Len(c))
      BY RingTurns
    <2> QED BY <2>2, <2>3
  <1>4. (y - x) % BUFFERSIZE = Len(c)
    <2>1. CASE x + Len(c) < BUFFERSIZE
      <3>1. y - x = Len(c)
        BY <1>1, <1>2, <1>3, <2>1
      <3>2. Len(c) % BUFFERSIZE = Len(c)
        BY <1>1, <1>2
      <3> QED BY <3>1, <3>2
    <2>2. CASE x + Len(c) >= BUFFERSIZE
      <3>1. y - x = Len(c) - BUFFERSIZE
        BY <1>1, <1>2, <1>3, <2>2
      <3>2. (Len(c) - BUFFERSIZE) % BUFFERSIZE = Len(c)
        BY <1>1, <1>2
      <3> QED BY <3>1, <3>2
    <2> QED BY <1>1, <1>2, <2>1, <2>2
  <1>5. Turn(y + 1) = IF y + 1 < BUFFERSIZE THEN y + 1 ELSE y + 1 - BUFFERSIZE
    <2>1. y + 1 \in Nat /\ y + 1 < 2 * BUFFERSIZE
      BY <1>1
    <2> QED BY <1>1, <2>1, Wrap
  <1>6. y = x <=> c = <<>>
    BY <1>1, <1>2, <1>3
  <1>7. ASSUME Turn(y + 1) # x PROVE Len(c) + 1 < BUFFERSIZE
    BY <1>1, <1>2, <1>3, <1>5, <1>7
  <1> QED BY <1>4, <1>6, <1>7

-----------------------------------------------------------------------------
(* The mouse.                                                              *)

\* Cells that are numbers, and the pointer's is one of them.
LEMMA PointerInside ==
    ASSUME NEW m \in Mice
    PROVE  Pointer(m) \in Cells /\ Selected(m) \subseteq Cells
  <1>1. m.x \in 0 .. WIDTH - 1 /\ m.y \in 0 .. HEIGHT - 1
    BY DEF Mice
  <1> QED BY <1>1, CellInside DEF Pointer, Selected

\* What is copied is text of the screen.
LEMMA CopyFacts ==
    ASSUME NEW m \in Mice, NEW v \in [Cells -> Characters]
    PROVE  copyMouse(m, v) \in Seq(Characters)
  <1> DEFINE first == IF m.init < m.fin THEN m.init ELSE m.fin
             last == IF m.init < m.fin THEN m.fin ELSE m.init
             text == [h \in 1 .. last - first + 1 |-> v[first + h - 1]]
  <1>1. m.init \in Cells /\ m.fin \in Cells
    BY DEF Mice
  <1> DEFINE N == WIDTH * HEIGHT
  <1>2. Cells = 0 .. N - 1 /\ N \in Nat
    BY ScreenSize DEF Cells
  <1> HIDE DEF N
  <1>3. /\ first \in Cells /\ last \in Cells /\ first \in Nat /\ last \in Nat
        /\ first =< last /\ last < N
    BY <1>2, <1>1
  <1>4. copyMouse(m, v) = SubSeq(text, 1, last - first + 1)
    BY DEF copyMouse
  <1> HIDE DEF first, last
  <1>5. last - first + 1 \in Nat
    BY <1>3
  <1>6. ASSUME NEW h \in 1 .. last - first + 1 PROVE v[first + h - 1] \in Characters
    <2>1. first + h - 1 \in Cells
      BY <1>2, <1>3, <1>6
    <2> QED BY <2>1
  <1>7. text \in Seq(Characters) /\ Len(text) = last - first + 1
    BY <1>5, <1>6
  <1> HIDE DEF text
  <1> QED BY <1>4, <1>5, <1>7

\* NoTrail of a mouse.
Tidy(m) == m.lit \subseteq {Pointer(m)} \cup IF m.selecting THEN Selected(m) ELSE {}

\* A packet before paste(): the old selection goes, the new one is shown and copied.
LEMMA ButtonsFacts ==
    ASSUME NEW m \in Mice, NEW v \in [Cells -> Characters], NEW p \in Packets, Tidy(m)
    PROVE  buttons(m, v, p) \in Mice /\ Tidy(buttons(m, v, p))
  <1> DEFINE u == IF m.selecting THEN undoSelection(m) ELSE m
             t == [u EXCEPT !.selecting = TRUE, !.fin = Pointer(m),
                            !.init = IF m.selecting THEN m.init ELSE Pointer(m)]
  <1>1. Pointer(m) \in Cells /\ Selected(m) \subseteq Cells /\ m.init \in Cells
    BY PointerInside DEF Mice
  <1>2. u \in Mice /\ u.x = m.x /\ u.y = m.y /\ u.lit \subseteq {Pointer(m)}
    <2>1. CASE m.selecting
      <3>1. u = [m EXCEPT !.lit = m.lit \ Selected(m)]
        BY <2>1 DEF undoSelection
      <3>2. m.lit \ Selected(m) \subseteq Cells
        BY DEF Mice
      <3>3. u \in Mice /\ u.x = m.x /\ u.y = m.y /\ u.lit = m.lit \ Selected(m)
        BY <3>1, <3>2 DEF Mice
      <3> QED BY <2>1, <3>3 DEF Tidy
    <2>2. CASE ~m.selecting
      BY <2>2 DEF Tidy
    <2> QED BY <2>1, <2>2
  <1>3. p.left \in BOOLEAN
    BY ConsoleAssumption
  <1>4. buttons(m, v, p) = IF p.left THEN selection(t, v) ELSE [u EXCEPT !.selecting = FALSE]
    BY DEF buttons
  <1> HIDE DEF u
  <1>5. CASE ~p.left
    <2>1. buttons(m, v, p) = [u EXCEPT !.selecting = FALSE]
      BY <1>4, <1>5
    <2>2. /\ buttons(m, v, p) \in Mice /\ buttons(m, v, p).x = m.x /\ buttons(m, v, p).y = m.y
          /\ buttons(m, v, p).lit = u.lit
      BY <1>2, <2>1 DEF Mice
    <2> QED BY <1>2, <2>2 DEF Tidy, Pointer
  <1>6. CASE p.left
    <2>1. /\ t \in Mice /\ t.x = m.x /\ t.y = m.y /\ t.lit = u.lit /\ t.selecting
      BY <1>1, <1>2 DEF Mice
    <2>2. copyMouse(t, v) \in Seq(Characters) /\ t.lit \cup Selected(t) \subseteq Cells
      <3> HIDE DEF t
      <3>1. t.lit \subseteq Cells
        BY <2>1 DEF Mice
      <3> QED BY <2>1, <3>1, CopyFacts, PointerInside
    <2>3. selection(t, v) = [t EXCEPT !.lit = t.lit \cup Selected(t), !.copied = copyMouse(t, v)]
      BY DEF selection
    <2> HIDE DEF t
    <2>4. /\ selection(t, v) \in Mice
          /\ selection(t, v).x = t.x /\ selection(t, v).y = t.y
          /\ selection(t, v).init = t.init /\ selection(t, v).fin = t.fin
          /\ selection(t, v).selecting = t.selecting
          /\ selection(t, v).lit = t.lit \cup Selected(t)
      BY <2>1, <2>2, <2>3 DEF Mice
    <2>5. Pointer(selection(t, v)) = Pointer(m) /\ Selected(selection(t, v)) = Selected(t)
      BY <2>1, <2>4 DEF Pointer, Selected
    <2>6. Tidy(selection(t, v))
      BY <1>2, <2>1, <2>4, <2>5 DEF Tidy
    <2> QED BY <1>4, <1>6, <2>4, <2>6
  <1> QED BY <1>3, <1>5, <1>6

\* The rest of the handler: the pointer moves and takes its highlight along.
LEMMA MoveFacts ==
    ASSUME NEW m \in Mice, NEW p \in Packets, Tidy(m)
    PROVE  move(m, p) \in Mice /\ Tidy(move(m, p))
  <1> DEFINE x == IF m.x + p.dx \in 0 .. WIDTH - 1 THEN m.x + p.dx ELSE m.x
             y == IF m.y - p.dy \in 0 .. HEIGHT - 1 THEN m.y - p.dy ELSE m.y
             lit == (m.lit \ {Pointer(m)}) \cup {Cell(y, x)}
  <1>1. x \in 0 .. WIDTH - 1 /\ y \in 0 .. HEIGHT - 1 /\ p.right \in BOOLEAN
    BY ConsoleAssumption DEF Mice
  <1>2. move(m, p) = [m EXCEPT !.x = x, !.y = y, !.flag = p.right, !.lit = lit]
    BY DEF move
  <1> HIDE DEF x, y
  <1>3. lit \subseteq Cells
    BY <1>1, CellInside DEF Mice
  <1>4. lit \subseteq {Cell(y, x)} \cup IF m.selecting THEN Selected(m) ELSE {}
    BY DEF Tidy
  <1> HIDE DEF lit
  <1>5. /\ move(m, p) \in Mice /\ move(m, p).x = x /\ move(m, p).y = y
        /\ move(m, p).init = m.init /\ move(m, p).fin = m.fin
        /\ move(m, p).selecting = m.selecting /\ move(m, p).lit = lit
    BY <1>1, <1>2, <1>3 DEF Mice
  <1>6. Pointer(move(m, p)) = Cell(y, x) /\ Selected(move(m, p)) = Selected(m)
    BY <1>5 DEF Pointer, Selected
  <1> QED BY <1>4, <1>5, <1>6 DEF Tidy

-----------------------------------------------------------------------------
(* A line and its backspaces.                                              *)

\* Every non-empty set of numbers has a least element.  (The segments 1 .. n are
\* well-founded under inclusion.)
LEMMA LeastExists ==
    ASSUME NEW T \in SUBSET Nat, T # {}
    PROVE  \E x \in T : \A y \in T : x =< y
  <1> DEFINE segments == {1 .. n : n \in T}
  <1>1. segments \subseteq FiniteSubsetsOf(Nat) /\ segments # {}
    <2>1. ASSUME NEW n \in T PROVE 1 .. n \in FiniteSubsetsOf(Nat)
      BY FS_Interval DEF FiniteSubsetsOf
    <2>2. PICK n \in T : TRUE
      OBVIOUS
    <2>3. 1 .. n \in segments
      OBVIOUS
    <2> QED BY <2>1, <2>3
  <1>2. IsWellFoundedOn(StrictSubsetOrdering(Nat), FiniteSubsetsOf(Nat))
    BY FS_StrictSubsetOrderingWellFounded
  <1>3. PICK s \in segments : \A r \in segments : <<r, s>> \notin StrictSubsetOrdering(Nat)
    <2> HIDE DEF segments
    <2> QED BY <1>1, <1>2, WFMin
  <1>4. PICK x \in T : s = 1 .. x
    BY <1>3
  <1>5. ASSUME NEW y \in T, y < x PROVE FALSE
    <2>1. x \in s /\ x \notin 1 .. y
      BY <1>4, <1>5
    <2>2. <<1 .. y, s>> \in StrictSubsetOrdering(Nat)
      BY <1>4, <1>5, <2>1 DEF StrictSubsetOrdering
    <2> QED BY <1>3, <2>2
  <1> QED BY <1>5

\* f[n] is the line after the first n characters of s.
IsEditing(f, s) == f = [n \in 0 .. Len(s) |-> IF n = 0 THEN <<>> ELSE Edit(f[n - 1], s[n])]

\* There is such an f.
LEMMA EditingExists ==
    ASSUME NEW s \in Seq(Characters)
    PROVE  \E f : IsEditing(f, s)
  <1> DEFINE upTo(g, n) == /\ DOMAIN g = 0 .. n
                           /\ g = [m \in 0 .. n |-> IF m = 0 THEN <<>> ELSE Edit(g[m - 1], s[m])]
             Bad == {n \in 0 .. Len(s) : \A g : ~upTo(g, n)}
  <1>1. Len(s) \in Nat
    OBVIOUS
  <1>2. SUFFICES ASSUME Bad # {} PROVE FALSE
    <2>1. Len(s) \notin Bad => \E g : upTo(g, Len(s))
      BY <1>1
    <2> QED BY <1>2, <2>1 DEF IsEditing
  <1>3. PICK n \in Bad : \A y \in Bad : n =< y
    <2>1. Bad \in SUBSET Nat
      OBVIOUS
    <2> HIDE DEF Bad
    <2> QED BY <1>2, <2>1, LeastExists
  <1>4. CASE n = 0
    <2> DEFINE g == [m \in 0 .. 0 |-> <<>>]
    <2>1. upTo(g, 0)
      OBVIOUS
    <2> QED BY <1>3, <1>4, <2>1
  <1>5. CASE n # 0
    <2>1. n - 1 \in 0 .. Len(s) /\ n \in Nat \ {0}
      BY <1>1, <1>3, <1>5
    <2>2. n - 1 \notin Bad
      <3> HIDE DEF Bad
      <3> QED BY <1>3, <2>1
    <2>3. PICK g : upTo(g, n - 1)
      BY <2>1, <2>2
    <2> DEFINE h == [m \in 0 .. n |-> IF m = n THEN Edit(g[n - 1], s[n]) ELSE g[m]]
    <2>4. ASSUME NEW m \in 0 .. n
          PROVE  h[m] = IF m = 0 THEN <<>> ELSE Edit(h[m - 1], s[m])
      <3>1. CASE m = n
        <4>1. h[m] = Edit(g[n - 1], s[n]) /\ h[n - 1] = g[n - 1]
          BY <2>1, <3>1
        <4> QED BY <2>1, <3>1, <4>1
      <3>2. CASE m = 0
        <4>1. h[m] = g[m] /\ m \in 0 .. n - 1
          BY <2>1, <3>2
        <4> QED BY <2>3, <3>2, <4>1
      <3>3. CASE m # n /\ m # 0
        <4>1. h[m] = g[m] /\ h[m - 1] = g[m - 1] /\ m \in 0 .. n - 1
          BY <2>1, <3>3
        <4>2. g[m] = Edit(g[m - 1], s[m])
          BY <2>3, <3>3, <4>1
        <4> QED BY <3>3, <4>1, <4>2
      <3> QED BY <3>1, <3>2, <3>3
    <2>5. DOMAIN h = 0 .. n
      OBVIOUS
    <2>6. h = [m \in 0 .. n |-> h[m]]
      OBVIOUS
    <2> HIDE DEF h
    <2>7. h = [m \in 0 .. n |-> IF m = 0 THEN <<>> ELSE Edit(h[m - 1], s[m])]
      BY <2>4, <2>6
    <2>8. upTo(h, n)
      BY <2>5, <2>7
    <2> QED BY <1>3, <2>8
  <1> QED BY <1>4, <1>5

\* Edited(s) is the last value of one.
LEMMA EditedIs ==
    ASSUME NEW s \in Seq(Characters)
    PROVE  \E f : IsEditing(f, s) /\ Edited(s) = f[Len(s)]
  <1> DEFINE e == CHOOSE f : IsEditing(f, s)
  <1>1. IsEditing(e, s)
    BY EditingExists
  <1>2. Edited(s) = e[Len(s)]
    BY DEF Edited, IsEditing
  <1> HIDE DEF e
  <1> QED BY <1>1, <1>2

\* Two of them agree as far as the lines do.
LEMMA EditingAgrees ==
    ASSUME NEW s \in Seq(Characters), NEW t \in Seq(Characters), NEW f, NEW g,
           IsEditing(f, s), IsEditing(g, t), Len(s) =< Len(t),
           \A k \in 1 .. Len(s) : s[k] = t[k]
    PROVE  \A n \in 0 .. Len(s) : f[n] = g[n]
  <1> DEFINE Bad == {n \in 0 .. Len(s) : f[n] # g[n]}
  <1>1. SUFFICES ASSUME Bad # {} PROVE FALSE
    OBVIOUS
  <1>2. Len(s) \in Nat /\ Len(t) \in Nat
    OBVIOUS
  <1>3. PICK n \in Bad : \A y \in Bad : n =< y
    <2>1. Bad \in SUBSET Nat
      OBVIOUS
    <2> HIDE DEF Bad
    <2> QED BY <1>1, <2>1, LeastExists
  <1>4. /\ n \in 0 .. Len(s) /\ n \in 0 .. Len(t)
        /\ f[n] = IF n = 0 THEN <<>> ELSE Edit(f[n - 1], s[n])
        /\ g[n] = IF n = 0 THEN <<>> ELSE Edit(g[n - 1], t[n])
    <2>1. n \in 0 .. Len(s) /\ n \in 0 .. Len(t)
      BY <1>2, <1>3
    <2>2. f[n] = IF n = 0 THEN <<>> ELSE Edit(f[n - 1], s[n])
      BY <2>1 DEF IsEditing
    <2>3. g[n] = IF n = 0 THEN <<>> ELSE Edit(g[n - 1], t[n])
      BY <2>1 DEF IsEditing
    <2> QED BY <2>1, <2>2, <2>3
  <1>5. n # 0
    BY <1>3, <1>4
  <1>6. n - 1 \in 0 .. Len(s) /\ n \in 1 .. Len(s)
    BY <1>2, <1>4, <1>5
  <1>7. f[n - 1] = g[n - 1]
    BY <1>2, <1>3, <1>6
  <1> QED BY <1>3, <1>4, <1>5, <1>6, <1>7

\* One more character.
LEMMA EditedAppend ==
    ASSUME NEW s \in Seq(Characters), NEW c \in Characters
    PROVE  Edited(Append(s, c)) = Edit(Edited(s), c)
  <1> DEFINE t == Append(s, c)
  <1>1. /\ t \in Seq(Characters) /\ Len(t) = Len(s) + 1 /\ Len(s) \in Nat /\ t[Len(t)] = c
        /\ \A k \in 1 .. Len(s) : s[k] = t[k]
    OBVIOUS
  <1> HIDE DEF t
  <1>2. PICK f : IsEditing(f, s) /\ Edited(s) = f[Len(s)]
    BY EditedIs
  <1>3. PICK g : IsEditing(g, t) /\ Edited(t) = g[Len(t)]
    BY <1>1, EditedIs
  <1>4. \A n \in 0 .. Len(s) : f[n] = g[n]
    <2>1. Len(s) =< Len(t)
      BY <1>1
    <2> QED BY <1>1, <1>2, <1>3, <2>1, EditingAgrees
  <1>5. g[Len(t)] = Edit(g[Len(t) - 1], t[Len(t)])
    <2>1. Len(t) \in 0 .. Len(t) /\ Len(t) # 0
      BY <1>1
    <2> QED BY <1>3, <2>1 DEF IsEditing
  <1>6. Len(t) - 1 = Len(s) /\ Len(s) \in 0 .. Len(s)
    BY <1>1
  <1> QED BY <1>1, <1>2, <1>3, <1>4, <1>5, <1>6 DEF t

\* The empty line.
LEMMA EditedEmpty == Edited(<<>>) = <<>>
  <1>1. <<>> \in Seq(Characters) /\ Len(<<>>) = 0
    OBVIOUS
  <1>2. PICK f : IsEditing(f, <<>>) /\ Edited(<<>>) = f[Len(<<>>)]
    BY <1>1, EditedIs
  <1>3. 0 \in 0 .. Len(<<>>)
    BY <1>1
  <1> QED BY <1>1, <1>2, <1>3 DEF IsEditing

\* A sequence that is not empty is a shorter one and a last character.
LEMMA LastOf ==
    ASSUME NEW S, NEW t \in Seq(S), t # <<>>
    PROVE  \E u \in Seq(S), c \in S : t = Append(u, c) /\ Len(t) = Len(u) + 1
  <1> DEFINE u == [k \in 1 .. Len(t) - 1 |-> t[k]]
             c == t[Len(t)]
  <1>1. Len(t) \in Nat \ {0} /\ \A k \in 1 .. Len(t) : t[k] \in S
    OBVIOUS
  <1>2. u \in Seq(S) /\ Len(u) = Len(t) - 1 /\ \A k \in 1 .. Len(t) - 1 : u[k] = t[k]
    BY <1>1
  <1>3. c \in S
    BY <1>1
  <1> HIDE DEF u, c
  <1>4. /\ Append(u, c) \in Seq(S) /\ Len(Append(u, c)) = Len(u) + 1
        /\ \A k \in 1 .. Len(u) : Append(u, c)[k] = u[k]
        /\ Append(u, c)[Len(u) + 1] = c
    BY <1>2, <1>3
  <1>5. ASSUME NEW k \in 1 .. Len(t) PROVE Append(u, c)[k] = t[k]
    <2>1. CASE k = Len(t)
      BY <1>1, <1>2, <1>4, <2>1 DEF c
    <2>2. CASE k # Len(t)
      BY <1>1, <1>2, <1>4, <2>2
    <2> QED BY <2>1, <2>2
  <1>6. t = Append(u, c)
    BY <1>1, <1>2, <1>4, <1>5
  <1> QED BY <1>2, <1>3, <1>4, <1>6

\* Lines that are edited to the same line still are when the same is typed after them.
LEMMA EditedSame ==
    ASSUME NEW a \in Seq(Characters), NEW b \in Seq(Characters), Edited(a) = Edited(b),
           NEW t \in Seq(Characters)
    PROVE  Edited(a \o t) = Edited(b \o t)
  <1> DEFINE Bad == {x \in Seq(Characters) : Edited(a \o x) # Edited(b \o x)}
             T == {Len(x) : x \in Bad}
  <1>1. SUFFICES ASSUME Bad # {} PROVE FALSE
    OBVIOUS
  <1>2. PICK n \in T : \A y \in T : n =< y
    <2>1. T \in SUBSET Nat
      OBVIOUS
    <2>2. T # {}
      <3>1. PICK x \in Bad : TRUE
        BY <1>1
      <3>2. Len(x) \in T
        BY <3>1
      <3> QED BY <3>2
    <2> HIDE DEF T
    <2> QED BY <2>1, <2>2, LeastExists
  <1>3. PICK x \in Bad : n = Len(x)
    BY <1>2
  <1>4. x # <<>>
    <2>1. a \o <<>> = a /\ b \o <<>> = b
      OBVIOUS
    <2> QED BY <1>3, <2>1
  <1>5. PICK u \in Seq(Characters), c \in Characters : x = Append(u, c) /\ Len(x) = Len(u) + 1
    BY <1>3, <1>4, LastOf
  <1>6. u \notin Bad
    <2>1. Len(u) \in Nat /\ Len(u) < n
      BY <1>3, <1>5
    <2>2. Len(u) \notin T
      <3> HIDE DEF T
      <3> QED BY <1>2, <1>3, <2>1
    <2> QED BY <2>2
  <1>7. Edited(a \o u) = Edited(b \o u)
    BY <1>5, <1>6
  <1>8. a \o x = Append(a \o u, c) /\ b \o x = Append(b \o u, c)
    BY <1>5, SMTT(30)
  <1>9. a \o u \in Seq(Characters) /\ b \o u \in Seq(Characters)
    BY <1>5
  <1>10. Edited(a \o x) = Edited(b \o x)
    BY <1>5, <1>7, <1>8, <1>9, EditedAppend, ZenonT(30)
  <1> QED BY <1>3, <1>10

\* A line without backspaces stays as it is.
LEMMA EditedPlain ==
    ASSUME NEW s \in Seq(Characters), \A k \in 1 .. Len(s) : s[k] # Backspace
    PROVE  Edited(s) = s
  <1> DEFINE plain(x) == \A k \in 1 .. Len(x) : x[k] # Backspace
             Bad == {x \in Seq(Characters) : plain(x) /\ Edited(x) # x}
             T == {Len(x) : x \in Bad}
  <1>1. SUFFICES ASSUME Bad # {} PROVE FALSE
    OBVIOUS
  <1>2. PICK n \in T : \A y \in T : n =< y
    <2>1. T \in SUBSET Nat
      OBVIOUS
    <2>2. T # {}
      <3>1. PICK x \in Bad : TRUE
        BY <1>1
      <3>2. Len(x) \in T
        BY <3>1
      <3> QED BY <3>2
    <2> HIDE DEF T
    <2> QED BY <2>1, <2>2, LeastExists
  <1>3. PICK x \in Bad : n = Len(x)
    BY <1>2
  <1>4. x # <<>>
    BY <1>3, EditedEmpty
  <1>5. PICK u \in Seq(Characters), c \in Characters : x = Append(u, c) /\ Len(x) = Len(u) + 1
    BY <1>3, <1>4, LastOf
  <1>6. /\ Len(u) \in Nat /\ x[Len(x)] = c /\ Len(x) \in 1 .. Len(x)
        /\ \A k \in 1 .. Len(u) : u[k] = x[k] /\ k \in 1 .. Len(x)
    BY <1>5
  <1>7. plain(u) /\ c # Backspace
    BY <1>3, <1>6
  <1>8. u \notin Bad
    <2>1. Len(u) < n
      BY <1>3, <1>5, <1>6
    <2>2. Len(u) \notin T
      <3> HIDE DEF T
      <3> QED BY <1>2, <1>3, <1>6, <2>1
    <2> QED BY <2>2
  <1>9. Edited(x) = x
    BY <1>5, <1>7, <1>8, EditedAppend DEF Edit
  <1> QED BY <1>3, <1>9

\* Backspace takes the last character away, if there is one.
LEMMA CutFacts ==
    ASSUME NEW t \in Seq(Characters)
    PROVE  /\ SubSeq(t, 1, Len(t) - 1) \in Seq(Characters)
           /\ Len(SubSeq(t, 1, Len(t) - 1)) = IF t = <<>> THEN 0 ELSE Len(t) - 1
           /\ \A k \in 1 .. Len(t) - 1 : SubSeq(t, 1, Len(t) - 1)[k] = t[k]
  <1>1. Len(t) \in Nat /\ (t = <<>> <=> Len(t) = 0)
    OBVIOUS
  <1>2. \A k \in 1 .. Len(t) - 1 : t[k] \in Characters
    BY <1>1
  <1> DEFINE n == Len(t) - 1
  <1>3. n \in Int /\ 1 \in Int /\ \A k \in 1 .. n : t[k] \in Characters
    BY <1>1, <1>2
  <1> HIDE DEF n
  <1>4. /\ SubSeq(t, 1, n) \in Seq(Characters)
        /\ Len(SubSeq(t, 1, n)) = IF 1 =< n THEN n - 1 + 1 ELSE 0
        /\ \A k \in 1 .. n - 1 + 1 : SubSeq(t, 1, n)[k] = t[1 + k - 1]
    BY <1>3, SubSeqProperties
  <1>5. n - 1 + 1 = n /\ \A k \in 1 .. n : 1 + k - 1 = k
    BY <1>3
  <1>6. (IF 1 =< n THEN n - 1 + 1 ELSE 0) = IF t = <<>> THEN 0 ELSE Len(t) - 1
    BY <1>1 DEF n
  <1> QED BY <1>4, <1>5, <1>6 DEF n

-----------------------------------------------------------------------------
(* The row of the line.                                                    *)

\* The cells of a row are different ones.
LEMMA RowCells ==
    ASSUME NEW s \in Screens, s.i >= s.iStart, NEW k \in 1 .. s.i - s.iStart
    PROVE  /\ Cell(s.j, s.iStart + k - 1) \in Cells
           /\ Cell(s.j, s.iStart + k - 1) # Cell(s.j, s.i)
           /\ s.video[Cell(s.j, s.iStart + k - 1)] \in Characters
  <1>1. /\ s.i \in Int /\ s.i < WIDTH /\ s.iStart \in 0 .. WIDTH - 1
        /\ s.j \in 0 .. HEIGHT - 1 /\ s.video \in [Cells -> Characters] /\ WIDTH \in Nat
    BY ScreenFields, ScreenSize
  <1>2. s.iStart + k - 1 \in 0 .. WIDTH - 1 /\ s.iStart + k - 1 < s.i
    BY <1>1
  <1>3. Cell(s.j, s.iStart + k - 1) \in Cells
    BY <1>1, <1>2, CellInside
  <1>4. s.j * WIDTH \in Int
    BY <1>1
  <1>5. Cell(s.j, s.iStart + k - 1) # Cell(s.j, s.i)
    BY <1>1, <1>2, <1>4 DEF Cell
  <1> QED BY <1>1, <1>3, <1>5

\* A row is a line.
LEMMA RowIsLine ==
    ASSUME NEW s \in Screens, s.i >= s.iStart
    PROVE  /\ Row(s) \in Seq(Characters) /\ Len(Row(s)) = s.i - s.iStart
           /\ s.i - s.iStart \in Nat
           /\ \A k \in 1 .. s.i - s.iStart : Row(s)[k] = s.video[Cell(s.j, s.iStart + k - 1)]
  <1>1. s.i - s.iStart \in Nat
    BY ScreenFields, ScreenSize
  <1>2. \A k \in 1 .. s.i - s.iStart : s.video[Cell(s.j, s.iStart + k - 1)] \in Characters
    BY RowCells
  <1> QED BY <1>1, <1>2 DEF Row

\* The keyboard puts a character behind the row.
LEMMA RowAppends ==
    ASSUME NEW s \in Screens, s.i >= s.iStart, s.i < WIDTH - 1, NEW c \in Characters
    PROVE  Row(putChar(s, c)) = Append(Row(s), c)
  <1> DEFINE t == putChar(s, c)
             n == s.i - s.iStart
  <1>1. s.i \in 0 .. WIDTH - 2 /\ s.iStart \in 0 .. WIDTH - 1 /\ s.j \in 0 .. HEIGHT - 1
        /\ WIDTH \in Nat
    BY ScreenFields, ScreenSize
  <1>2. /\ t \in Screens /\ t.iStart = s.iStart /\ t.i = s.i + 1 /\ t.j = s.j
        /\ \A k \in Cells : t.video[k] = IF k = Cell(s.j, s.i) THEN c ELSE s.video[k]
    BY <1>1, PutCharFacts
  <1> HIDE DEF t
  <1>3. n = s.i - s.iStart /\ n \in Nat
    BY <1>1
  <1>4. /\ Row(s) \in Seq(Characters) /\ Len(Row(s)) = n /\ n \in Nat
        /\ \A k \in 1 .. n : Row(s)[k] = s.video[Cell(s.j, s.iStart + k - 1)]
    BY RowIsLine
  <1> HIDE DEF n
  <1>5. t.i - t.iStart = n + 1 /\ t.i >= t.iStart
    BY <1>3, <1>1, <1>2
  <1>6. /\ Row(t) \in Seq(Characters) /\ Len(Row(t)) = n + 1
        /\ \A k \in 1 .. n + 1 : Row(t)[k] = t.video[Cell(t.j, t.iStart + k - 1)]
    BY <1>2, <1>5, RowIsLine
  <1>7. ASSUME NEW k \in 1 .. n PROVE Row(t)[k] = Row(s)[k]
    <2>1. Cell(s.j, s.iStart + k - 1) \in Cells /\ Cell(s.j, s.iStart + k - 1) # Cell(s.j, s.i)
      BY <1>3, RowCells
    <2>2. k \in 1 .. n + 1
      BY <1>4
    <2> QED BY <1>2, <1>4, <1>6, <2>1, <2>2
  <1>8. Row(t)[n + 1] = c
    <2>1. n + 1 \in 1 .. n + 1 /\ s.iStart + (n + 1) - 1 = s.i
      BY <1>3, <1>1
    <2>2. Cell(s.j, s.i) \in Cells
      BY <1>1, CellInside
    <2>3. Row(t)[n + 1] = t.video[Cell(t.j, t.iStart + (n + 1) - 1)]
      BY <1>6, <2>1
    <2> QED BY <1>2, <2>1, <2>2, <2>3
  <1> DEFINE u == Append(Row(s), c)
  <1>9. u \in Seq(Characters) /\ Len(u) = n + 1 /\ u[n + 1] = c /\ \A k \in 1 .. n : u[k] = Row(s)[k]
    BY <1>4
  <1> HIDE DEF u
  <1>10. ASSUME NEW k \in 1 .. n + 1 PROVE Row(t)[k] = u[k]
    <2>1. k \in 1 .. n \/ k = n + 1
      BY <1>4
    <2> QED BY <1>7, <1>8, <1>9, <2>1
  <1>11. Row(t) = u
    BY <1>6, <1>9, <1>10
  <1> QED BY <1>11 DEF t, u

\* A backspace takes the last character of the row away, and nothing of the prompt.
LEMMA RowErases ==
    ASSUME NEW s \in Screens, s.i >= s.iStart
    PROVE  Row(backInLine(putChar(backInLine(s), " "))) = SubSeq(Row(s), 1, Len(Row(s)) - 1)
  <1> DEFINE t == backInLine(s)
             u == putChar(t, " ")
             v == backInLine(u)
             n == s.i - s.iStart
             cut == SubSeq(Row(s), 1, Len(Row(s)) - 1)
  <1>1. /\ s.i \in Int /\ s.i < WIDTH /\ s.iStart \in 0 .. WIDTH - 1 /\ s.j \in 0 .. HEIGHT - 1
        /\ WIDTH \in Nat
    BY ScreenFields, ScreenSize
  <1>2. n = s.i - s.iStart /\ n \in Nat
    BY <1>1
  <1>3. /\ Row(s) \in Seq(Characters) /\ Len(Row(s)) = n /\ n \in Nat
        /\ \A k \in 1 .. n : Row(s)[k] = s.video[Cell(s.j, s.iStart + k - 1)]
    BY RowIsLine
  <1> HIDE DEF n
  <1>4. /\ cut \in Seq(Characters)
        /\ Len(cut) = IF n = 0 THEN 0 ELSE n - 1
        /\ \A k \in 1 .. n - 1 : cut[k] = Row(s)[k]
    <2>1. Row(s) = <<>> <=> n = 0
      BY <1>3
    <2> QED BY <1>3, <2>1, CutFacts
  <1>5. /\ t \in Screens /\ t.iStart = s.iStart /\ t.j = s.j /\ t.video = s.video
        /\ t.i = IF s.i = s.iStart THEN s.i ELSE s.i - 1
    BY BackFacts
  <1> HIDE DEF t, cut
  <1>6. /\ u \in Screens /\ u.iStart = t.iStart
        /\ t.i # WIDTH - 1 => u.i = t.i + 1 /\ u.j = t.j
        /\ t.i = WIDTH - 1 => u.i = t.iStart
        /\ t.i \in 0 .. WIDTH - 2 =>
             \A k \in Cells : u.video[k] = IF k = Cell(t.j, t.i) THEN " " ELSE t.video[k]
    <2>1. " " \in Characters
      BY DEF Characters
    <2> QED BY <1>5, <2>1, PutCharFacts
  <1> HIDE DEF u
  <1>7. /\ v \in Screens /\ v.iStart = u.iStart /\ v.j = u.j /\ v.video = u.video
        /\ v.i = IF u.i = u.iStart THEN u.i ELSE u.i - 1
    BY <1>6, BackFacts
  <1> HIDE DEF v
  <1>8. /\ t.i = IF s.i = s.iStart THEN s.i ELSE s.i - 1
        /\ u.iStart = s.iStart /\ v.iStart = s.iStart
        /\ t.i # WIDTH - 1 => u.i = t.i + 1
        /\ t.i = WIDTH - 1 => u.i = s.iStart
        /\ v.i = IF u.i = s.iStart THEN u.i ELSE u.i - 1
    BY <1>5, <1>6, <1>7
  <1>9. s.i \in Int /\ s.i < WIDTH /\ s.iStart \in Nat /\ WIDTH \in Nat /\ n = s.i - s.iStart
    BY <1>2, <1>1
  <1>10. CASE n = 0
    <2>1. v.i - v.iStart = 0 /\ v.i >= v.iStart
      BY <1>10, <1>8, <1>9
    <2>2. Row(v) \in Seq(Characters) /\ Len(Row(v)) = 0
      BY <1>7, <2>1, RowIsLine
    <2>3. Row(v) = <<>> /\ cut = <<>>
      BY <1>4, <1>10, <2>2
    <2> QED BY <2>3 DEF v, u, t, cut
  <1>11. CASE n # 0
    <2>1. /\ t.i = s.i - 1 /\ t.i \in 0 .. WIDTH - 2 /\ t.i # WIDTH - 1
          /\ u.i = s.i /\ u.j = s.j /\ u.iStart = s.iStart
      <3>1. t.i = s.i - 1 /\ t.i \in 0 .. WIDTH - 2 /\ t.i # WIDTH - 1 /\ u.i = s.i
        BY <1>2, <1>11, <1>8, <1>9
      <3>2. u.j = s.j
        BY <1>5, <1>6, <3>1
      <3> QED BY <1>8, <3>1, <3>2
    <2>2. v.i = s.i - 1 /\ v.j = s.j /\ v.iStart = s.iStart
      BY <1>2, <1>7, <1>11, <1>8, <1>9, <2>1
    <2>3. v.i - v.iStart = n - 1 /\ v.i >= v.iStart
      BY <1>2, <1>11, <1>9, <2>2
    <2>4. /\ Row(v) \in Seq(Characters) /\ Len(Row(v)) = n - 1
          /\ \A k \in 1 .. n - 1 : Row(v)[k] = v.video[Cell(v.j, v.iStart + k - 1)]
      BY <1>7, <2>3, RowIsLine
    <2>5. ASSUME NEW k \in 1 .. n - 1 PROVE Row(v)[k] = cut[k]
      <3>1. k \in 1 .. v.i - v.iStart /\ k \in 1 .. n
        BY <1>3, <2>3
      <3>2. Cell(v.j, v.iStart + k - 1) \in Cells /\ Cell(v.j, v.iStart + k - 1) # Cell(v.j, v.i)
        BY <1>7, <2>3, <3>1, RowCells
      <3>3. Cell(t.j, t.i) = Cell(v.j, v.i)
        BY <1>5, <2>1, <2>2
      <3>4. u.video[Cell(v.j, v.iStart + k - 1)] = s.video[Cell(v.j, v.iStart + k - 1)]
        BY <1>5, <1>6, <2>1, <3>2, <3>3
      <3>5. Row(v)[k] = s.video[Cell(s.j, s.iStart + k - 1)]
        BY <1>7, <2>2, <2>4, <3>4
      <3> QED BY <1>3, <1>4, <3>1, <3>5
    <2>6. Len(cut) = n - 1
      BY <1>4, <1>11
    <2>7. Row(v) = cut
      BY <1>3, <1>4, <2>4, <2>5, <2>6
    <2> QED BY <2>7 DEF v, u, t, cut
  <1> QED BY <1>10, <1>11

-----------------------------------------------------------------------------
(* The programs.                                                           *)

\* What the calls of a program are, by their name.
LEMMA CallKinds ==
    ASSUME NEW p \in {"shell", "editor", "fortune"}, NEW call \in MainCalls(p)
    PROVE  /\ call[1] = "write" => call[2] \in Characters
           /\ call[1] = "echo" => call[2] \in BOOLEAN
           /\ call[1] = "environment" => p = "shell" /\ call[2] \in {0, PromptLength}
           /\ call[1] = "getchar" => p = "editor"
           /\ call[1] = "thread" => call[2] \in Commands
           /\ call[1] = "run" => call[2] \in {"shell", "editor", "fortune"}
           /\ call = scanFF <=> call[1] = "scanFF"
  <1>1. {"m", "\n", ">"} \subseteq Characters
    BY DEF Characters
  <1>2. CASE call \in ThreadCalls
    BY <1>1, <1>2 DEF ThreadCalls, write, while1, scanFF
  <1>3. CASE call \in {<<"run", q>> : q \in {"shell", "editor", "fortune"}} \cup {scanFF}
    BY <1>3 DEF scanFF
  <1>4. CASE p = "shell" /\ call \in {environment(f) : f \in {0, PromptLength}}
                                        \cup {<<"thread", c>> : c \in Commands}
    BY <1>4 DEF environment, scanFF
  <1>5. CASE p = "editor" /\ call = getchar
    BY <1>5 DEF getchar, scanFF
  <1> QED BY <1>2, <1>3, <1>4, <1>5 DEF MainCalls

\* What a thread calls, the program may call; a thread never starts a line.
LEMMA ThreadKinds ==
    ASSUME NEW p \in {"shell", "editor", "fortune"}
    PROVE  /\ ThreadCalls \subseteq MainCalls(p) /\ Seq(ThreadCalls) \subseteq Seq(MainCalls(p))
           /\ \A call \in ThreadCalls : call[1] # "environment"
  <1>1. ThreadCalls \subseteq MainCalls(p)
    BY DEF MainCalls
  <1>2. \A call \in ThreadCalls : call[1] # "environment"
    BY DEF ThreadCalls, write, while1
  <1>3. Seq(ThreadCalls) \subseteq Seq(MainCalls(p))
    <2> SUFFICES ASSUME NEW t \in Seq(ThreadCalls) PROVE t \in Seq(MainCalls(p))
      OBVIOUS
    <2>1. \A k \in 1 .. Len(t) : t[k] \in MainCalls(p)
      BY <1>1
    <2> QED BY <2>1
  <1> QED BY <1>1, <1>2, <1>3

\* The commands of a thread and the messages.
LEMMA CommandsTyped == Commands \subseteq Seq(ThreadCalls) /\ Message \in Seq(ThreadCalls)
  <1>1. /\ write("m") \in ThreadCalls /\ write("\n") \in ThreadCalls /\ while1 \in ThreadCalls
        /\ <<"clear">> \in ThreadCalls /\ <<"kill">> \in ThreadCalls
        /\ <<"echo", TRUE>> \in ThreadCalls /\ <<"echo", FALSE>> \in ThreadCalls
    BY DEF ThreadCalls
  <1>2. \A a, b \in ThreadCalls : <<>> \in Seq(ThreadCalls) /\ <<a>> \in Seq(ThreadCalls)
                                    /\ <<a, b>> \in Seq(ThreadCalls)
    <2> HIDE DEF ThreadCalls
    <2> QED OBVIOUS
  <1>3. Message \in Seq(ThreadCalls)
    BY <1>1, <1>2 DEF Message
  <1> QED BY <1>1, <1>2, <1>3 DEF Commands

\* The prompt begins with a line feed.
LEMMA PromptTyped ==
    Prompt \in Seq(MainCalls("shell")) /\ Prompt # <<>> /\ Prompt[1] = write("\n")
  <1> DEFINE S == MainCalls("shell")
             head == <<write("\n"), environment(0)>>
             middle == [k \in 1 .. PromptLength |-> write(">")]
             last == <<environment(PromptLength), scanFF>>
  <1>1. /\ write("\n") \in S /\ write(">") \in S /\ environment(0) \in S
        /\ environment(PromptLength) \in S /\ scanFF \in S
    BY DEF MainCalls, ThreadCalls
  <1> HIDE DEF S
  <1>2. PromptLength \in Nat
    BY ScreenSize
  <1>3. middle \in Seq(S)
    BY <1>1, <1>2
  <1>4. Prompt = head \o middle \o last
    BY DEF Prompt
  <1> HIDE DEF middle
  <1>5. \A a, b, c, d \in S : \A y \in Seq(S) :
           /\ <<a, b>> \o y \o <<c, d>> \in Seq(S)
           /\ <<a, b>> \o y \o <<c, d>> # <<>>
           /\ (<<a, b>> \o y \o <<c, d>>)[1] = a
    OBVIOUS
  <1>6. Prompt \in Seq(S) /\ Prompt # <<>> /\ Prompt[1] = write("\n")
    BY <1>1, <1>3, <1>4, <1>5
  <1> QED BY <1>6 DEF S

\* A program starts with calls of its own.
LEMMA MainTyped ==
    ASSUME NEW p \in {"shell", "editor", "fortune"}
    PROVE  main(p) \in Seq(MainCalls(p))
  <1>1. CASE p = "shell"
    BY <1>1, PromptTyped DEF main
  <1>2. CASE p = "editor"
    <2>1. Message \in Seq(MainCalls(p))
      BY ThreadKinds, CommandsTyped
    <2>2. <<"clear">> \in MainCalls(p) /\ getchar \in MainCalls(p)
      BY <1>2 DEF MainCalls, ThreadCalls
    <2>3. \A S : \A a, b \in S : \A x \in Seq(S) : <<a>> \o x \o <<b>> \in Seq(S)
      OBVIOUS
    <2>4. main(p) = <<<<"clear">>>> \o Message \o <<getchar>>
      BY <1>2 DEF main
    <2> QED BY <2>1, <2>2, <2>3, <2>4
  <1>3. CASE p = "fortune"
    <2>1. write("m") \in MainCalls(p) /\ scanFF \in MainCalls(p)
      BY DEF MainCalls, ThreadCalls
    <2>2. main(p) = <<write("m"), scanFF>>
      BY <1>3 DEF main
    <2> QED BY <2>1, <2>2
  <1> QED BY <1>1, <1>2, <1>3

\* What the shell does with a line.
LEMMA ParserTyped ==
    ASSUME NEW line
    PROVE  parser(line) \subseteq Seq(MainCalls("shell"))
  <1> DEFINE S == MainCalls("shell")
  <1>1. Message \in Seq(S) /\ Commands \subseteq Seq(S)
    BY ThreadKinds, CommandsTyped
  <1>2. run \subseteq Seq(S)
    <2>1. (\A p \in {"editor", "fortune"} : <<"run", p>> \in S) /\ <<"echo", TRUE>> \in S
      BY DEF MainCalls, ThreadCalls
    <2> HIDE DEF S
    <2>2. Message \o <<<<"echo", TRUE>>>> \in Seq(S)
      <3>1. \A T : \A a \in T : \A x \in Seq(T) : x \o <<a>> \in Seq(T)
        OBVIOUS
      <3> QED BY <1>1, <2>1, <3>1
    <2>3. {<<<<"run", p>>>> : p \in {"editor", "fortune"}} \subseteq Seq(S)
      BY <2>1
    <2> QED BY <2>2, <2>3 DEF run
  <1>3. {<<<<"thread", c>>>> : c \in Commands} \subseteq Seq(S)
    <2>1. \A c \in Commands : <<"thread", c>> \in S
      BY DEF MainCalls
    <2> HIDE DEF S
    <2>2. ASSUME NEW c \in Commands PROVE <<<<"thread", c>>>> \in Seq(S)
      BY <2>1
    <2> QED BY <2>2
  <1> HIDE DEF S
  <1>4. parser(line) \subseteq {Message} \cup Commands \cup run \cup {<<<<"thread", c>>>> : c \in Commands}
    BY DEF parser
  <1>5. parser(line) \subseteq Seq(S)
    BY <1>1, <1>2, <1>3, <1>4
  <1> QED BY <1>5 DEF S

\* After a line a program has calls of its own, and does not read the next line at once.
LEMMA AfterTyped ==
    ASSUME program \in {"shell", "editor", "fortune"}, NEW line, NEW overflow \in BOOLEAN,
           NEW x \in After(line, overflow)
    PROVE  /\ x \in Seq(MainCalls(program))
           /\ x # <<>> => Head(x)[1] \notin {"scanFF", "thread"} /\ Head(x) # scanFF
  <1>1. /\ write("\n") \in MainCalls(program) /\ write("m") \in MainCalls(program)
        /\ <<"clear">> \in MainCalls(program) /\ <<"run", "shell">> \in MainCalls(program)
    BY DEF MainCalls, ThreadCalls
  <1>2. CASE program = "shell" /\ overflow
    <2>1. x = <<write("\n"), write("m")>> \o Prompt
      BY <1>2 DEF After
    <2>2. \A S : \A a, b \in S : \A y \in Seq(S) :
             /\ <<a, b>> \o y \in Seq(S) /\ <<a, b>> \o y # <<>> /\ Head(<<a, b>> \o y) = a
      OBVIOUS
    <2>3. x \in Seq(MainCalls(program)) /\ Head(x) = write("\n")
      BY <1>1, <1>2, <2>1, <2>2, PromptTyped
    <2> QED BY <2>3 DEF write, scanFF
  <1>3. CASE program = "shell" /\ ~overflow
    <2>1. PICK c \in parser(line) : x = <<environment(0)>> \o c \o Prompt
      BY <1>3 DEF After
    <2>2. \A S : \A a \in S : \A y, z \in Seq(S) :
             /\ <<a>> \o y \o z \in Seq(S) /\ <<a>> \o y \o z # <<>> /\ Head(<<a>> \o y \o z) = a
      OBVIOUS
    <2>3. environment(0) \in MainCalls("shell")
      BY DEF MainCalls
    <2>4. x \in Seq(MainCalls(program)) /\ Head(x) = environment(0)
      BY <1>3, <2>1, <2>2, <2>3, PromptTyped, ParserTyped
    <2> QED BY <2>4 DEF environment, scanFF
  <1>4. CASE program = "editor"
    <2>1. x = <<getchar>> \/ x = <<<<"clear">>, <<"run", "shell">>>>
      BY <1>4 DEF After
    <2>2. getchar \in MainCalls(program)
      BY <1>4 DEF MainCalls
    <2>3. x \in Seq(MainCalls(program))
      <3>1. \A S : \A a, b \in S : <<a>> \in Seq(S) /\ <<a, b>> \in Seq(S)
        OBVIOUS
      <3> QED BY <1>1, <2>1, <2>2, <3>1
    <2>4. Head(x) \in {getchar, <<"clear">>}
      BY <2>1
    <2> QED BY <2>3, <2>4 DEF getchar, scanFF
  <1>5. CASE program = "fortune"
    <2>1. x = <<write("\n"), write("m")>> \/ x = <<write("m")>>
      BY <1>5 DEF After
    <2>2. x \in Seq(MainCalls(program))
      <3>1. \A S : \A a, b \in S : <<a>> \in Seq(S) /\ <<a, b>> \in Seq(S)
        OBVIOUS
      <3> QED BY <1>1, <2>1, <3>1
    <2>3. Head(x) \in {write("\n"), write("m")}
      BY <2>1
    <2> QED BY <2>2, <2>3 DEF write, scanFF
  <1> QED BY <1>2, <1>3, <1>4, <1>5

-----------------------------------------------------------------------------
(* The steps of the terminal.                                              *)

\* A character goes into the ring and to the screen, or is dropped.
LEMMA PutFacts ==
    ASSUME TerminalInv, NEW c \in Characters, putTerminalBuffer(c)
    PROVE  /\ TerminalInv'
           /\ screen.i >= screen.iStart => screen'.i >= screen'.iStart
           /\ clean' => clean /\ (lost' => lost) /\ ring'.isEcho = ring.isEcho
  <1>1. CASE isBufferFull
    <2>1. UNCHANGED terminalVars
      BY <1>1 DEF putTerminalBuffer
    <2> QED BY <2>1 DEF terminalVars, TerminalInv, RingHolds
  <1>2. CASE ~isBufferFull
    <2> DEFINE x == ring.consume
               y == ring.position
    <2>1. /\ screen' = Echoed(c)
          /\ ring' = [ring EXCEPT !.buffer[ring.position] = c, !.position = Following(ring.position)]
          /\ unread' = Append(unread, c)
          /\ lost' = (lost \/ Following(ring.position) = ring.consume)
          /\ clean' = (/\ clean /\ ~(Following(ring.position) = ring.consume) /\ c # "\n"
                       /\ c = Backspace \/ screen.i < WIDTH - 1)
      BY <1>2 DEF putTerminalBuffer
    <2>2. /\ screen \in Screens /\ unread \in Seq(Characters)
          /\ lost \in BOOLEAN /\ clean \in BOOLEAN
          /\ ring.buffer \in [Slots -> Characters] /\ ring.consume \in Slots
          /\ ring.position \in Slots /\ ring.isEcho \in BOOLEAN /\ ring \in Rings
      BY DEF TerminalInv, Rings, Slots
    <2>3. Following(ring.position) = Turn(ring.position + 1) /\ Turn(ring.position + 1) \in Slots
      <3>1. ring.position + 1 \in Nat /\ ring.position + 1 < 2 * BUFFERSIZE
        BY <2>2, ConsoleAssumption DEF Slots
      <3>2. Turn(ring.position + 1) \in Slots
        BY <3>1, Wrap
      <3> QED BY <3>2 DEF Following, Turn
    <2> DEFINE b == [ring.buffer EXCEPT ![ring.position] = c]
    <2>4. b \in [Slots -> Characters]
      BY <2>2
    <2>5. /\ ring' \in Rings /\ ring'.buffer = b /\ ring'.consume = x
          /\ ring'.position = Turn(y + 1) /\ ring'.isEcho = ring.isEcho
      <3>1. ring' = [ring EXCEPT !.buffer = b, !.position = Turn(y + 1)]
        BY <2>1, <2>3
      <3> HIDE DEF b
      <3> QED BY <2>2, <2>3, <2>4, <3>1 DEF Rings, Slots
    <2>6. screen' \in Screens /\ (screen.i >= screen.iStart => screen'.i >= screen'.iStart)
      BY <2>1, <2>2, EchoedFacts
    <2>7. unread' \in Seq(Characters) /\ lost' \in BOOLEAN /\ clean' \in BOOLEAN
      BY <2>1, <2>2
    <2>8. RingHolds'
      <3>1. SUFFICES ASSUME ~lost' PROVE RingHolds'
        BY DEF RingHolds
      <3>2. ~lost /\ Turn(y + 1) # x
        BY <2>1, <2>3, <3>1
      <3>3. Len(unread) < BUFFERSIZE /\ RingAt(x, y, ring.buffer, unread)
        BY <3>2 DEF TerminalInv, RingHolds, RingAt
      <3>4. RingAt(x, Turn(y + 1), b, Append(unread, c))
        BY <2>2, <3>3, RingInserts
      <3>5. Len(unread) + 1 < BUFFERSIZE
        BY <2>2, <3>2, <3>3, RingLength
      <3>6. Len(unread') = Len(unread) + 1
        BY <2>1, <2>2
      <3> HIDE DEF b
      <3>7. RingAt(ring'.consume, ring'.position, ring'.buffer, unread')
        BY <2>1, <2>5, <3>4
      <3> QED BY <3>5, <3>6, <3>7 DEF RingHolds, RingAt
    <2>9. clean' => clean /\ (lost' => lost)
      BY <2>1
    <2> QED BY <2>5, <2>6, <2>7, <2>8, <2>9 DEF TerminalInv
  <1> QED BY <1>1, <1>2

\* A reader takes a character: the oldest one, unless some were lost.
LEMMA GetFacts ==
    ASSUME TerminalInv, NEW c, c = ring.buffer[ring.consume], getTerminalBuffer(c)
    PROVE  /\ TerminalInv' /\ c \in Characters
           /\ UNCHANGED <<screen, lost, clean>> /\ ring'.isEcho = ring.isEcho
           /\ ~lost => unread # <<>> /\ c = Head(unread) /\ unread' = Tail(unread)
  <1> DEFINE x == ring.consume
             y == ring.position
  <1>1. /\ ring' = [ring EXCEPT !.consume = Following(ring.consume)]
        /\ unread' = IF unread = <<>> THEN <<>> ELSE Tail(unread)
        /\ UNCHANGED <<screen, lost, clean>> /\ x # y
    BY DEF getTerminalBuffer, isBufferEmpty
  <1>2. /\ screen \in Screens /\ unread \in Seq(Characters)
        /\ lost \in BOOLEAN /\ clean \in BOOLEAN
        /\ ring.buffer \in [Slots -> Characters] /\ ring.consume \in Slots
        /\ ring.position \in Slots /\ ring.isEcho \in BOOLEAN /\ ring \in Rings
    BY DEF TerminalInv, Rings, Slots
  <1>3. Following(ring.consume) = Turn(ring.consume + 1) /\ Turn(ring.consume + 1) \in Slots
    <2>1. ring.consume + 1 \in Nat /\ ring.consume + 1 < 2 * BUFFERSIZE
      BY <1>2, ConsoleAssumption DEF Slots
    <2>2. Turn(ring.consume + 1) \in Slots
      BY <2>1, Wrap
    <2> QED BY <2>2 DEF Following, Turn
  <1>4. /\ ring' \in Rings /\ ring'.buffer = ring.buffer /\ ring'.consume = Turn(x + 1)
        /\ ring'.position = y /\ ring'.isEcho = ring.isEcho
    BY <1>1, <1>2, <1>3 DEF Rings, Slots
  <1>5. c \in Characters
    BY <1>2
  <1>6. unread' \in Seq(Characters)
    BY <1>1, <1>2
  <1>7. ASSUME ~lost
        PROVE  /\ unread # <<>> /\ c = Head(unread) /\ unread' = Tail(unread)
               /\ RingHolds'
    <2>1. Len(unread) < BUFFERSIZE /\ RingAt(x, y, ring.buffer, unread)
      BY <1>7 DEF TerminalInv, RingHolds, RingAt
    <2>2. unread # <<>>
      BY <1>1, <1>2, <2>1, RingLength
    <2>3. /\ ring.buffer[x] = Head(unread) /\ Len(Tail(unread)) = Len(unread) - 1
          /\ RingAt(Turn(x + 1), y, ring.buffer, Tail(unread))
      <3>1. Len(unread) =< BUFFERSIZE
        BY <1>2, <2>1, ConsoleAssumption
      <3> QED BY <1>2, <2>1, <2>2, <3>1, RingRemoves
    <2>4. unread' = Tail(unread)
      BY <1>1, <2>2
    <2>5. Len(unread') < BUFFERSIZE
      <3>1. Len(unread) \in Nat /\ BUFFERSIZE \in Nat
        BY <1>2, ConsoleAssumption
      <3> QED BY <2>1, <2>3, <2>4, <3>1
    <2>6. RingAt(ring'.consume, ring'.position, ring'.buffer, unread')
      BY <1>4, <2>3, <2>4
    <2>7. RingHolds'
      BY <2>5, <2>6 DEF RingHolds, RingAt
    <2> QED BY <2>2, <2>3, <2>4, <2>7
  <1>8. RingHolds'
    <2>1. CASE lost
      BY <1>1, <2>1 DEF RingHolds
    <2> QED BY <1>7, <2>1
  <1> QED BY <1>1, <1>2, <1>4, <1>5, <1>6, <1>7, <1>8 DEF TerminalInv

\* A new program starts with an empty ring.
LEMMA ResetFacts ==
    ASSUME TerminalInv, resetBuffer
    PROVE  TerminalInv' /\ screen' = screen /\ ~clean'
  <1>1. /\ ring' = [ring EXCEPT !.position = 0, !.consume = 0]
        /\ unread' = <<>> /\ lost' = FALSE /\ clean' = FALSE /\ screen' = screen
    BY DEF resetBuffer
  <1>2. 0 \in 0 .. BUFFERSIZE - 1 /\ BUFFERSIZE \in Nat \ {0}
    BY ConsoleAssumption
  <1>3. ring' \in Rings /\ ring'.position = 0 /\ ring'.consume = 0
    BY <1>1, <1>2 DEF TerminalInv, Rings
  <1>4. <<>> \in Seq(Characters) /\ Len(<<>>) = 0
    OBVIOUS
  <1>5. (0 + 0) % BUFFERSIZE = 0
    BY <1>2
  <1>6. RingHolds'
    BY <1>1, <1>2, <1>3, <1>4, <1>5 DEF RingHolds
  <1> QED BY <1>1, <1>3, <1>4, <1>6 DEF TerminalInv

\* A system call on the screen.
LEMMA CallFacts ==
    ASSUME TerminalInv, CursorInv, program \in {"shell", "editor", "fortune"},
           UNCHANGED program, NEW call \in MainCalls(program), screenCall(call)
    PROVE  /\ TerminalInv' /\ CursorInv' /\ UNCHANGED inputVars
           /\ call # scanFF
           /\ clean' => /\ call[1] = "environment" /\ unread' = <<>>
                        /\ screen'.i = screen'.iStart
  <1>1. UNCHANGED inputVars
    BY DEF screenCall
  <1>2. /\ screen \in Screens /\ ring \in Rings /\ unread \in Seq(Characters) /\ lost \in BOOLEAN
        /\ cleared \in BOOLEAN
    BY DEF TerminalInv, CursorInv
  <1>3. CASE call[1] = "write" /\ sys_call_write(call[2]) /\ UNCHANGED cleared
    <2>1. /\ screen' = IF call[2] = "\n" THEN lineJump(screen) ELSE putChar(screen, call[2])
          /\ clean' = FALSE /\ UNCHANGED <<ring, unread, lost>>
      BY <1>3 DEF sys_call_write
    <2>2. call[2] \in Characters
      BY <1>3, CallKinds
    <2>3. screen' \in Screens /\ (screen.i >= screen.iStart => screen'.i >= screen'.iStart)
      <3>1. screen.i \in Int /\ screen.iStart \in Int
        BY <1>2, ScreenFields
      <3>2. CASE call[2] = "\n"
        BY <1>2, <2>1, <3>1, <3>2, LineJumpFacts
      <3>3. CASE call[2] # "\n"
        <4>1. screen' = putChar(screen, call[2])
          BY <2>1, <3>3
        <4>2. /\ screen' \in Screens /\ screen'.iStart = screen.iStart
              /\ screen.i # WIDTH - 1 => screen'.i = screen.i + 1
              /\ screen.i = WIDTH - 1 => screen'.i = screen.iStart
          BY <1>2, <2>2, <4>1, PutCharFacts
        <4> QED BY <3>1, <4>2
      <3> QED BY <3>2, <3>3
    <2>4. call # scanFF
      BY <1>3 DEF scanFF
    <2>5. TerminalInv'
      BY <1>2, <2>1, <2>3 DEF TerminalInv, RingHolds
    <2>6. CursorInv'
      BY <1>2, <1>3, <2>1, <2>3 DEF CursorInv
    <2> QED BY <1>1, <2>1, <2>4, <2>5, <2>6
  <1>4. CASE call[1] = "echo" /\ sys_call_echo(call[2]) /\ UNCHANGED cleared
    <2>1. /\ ring' = [ring EXCEPT !.isEcho = call[2]] /\ clean' = FALSE
          /\ UNCHANGED <<screen, unread, lost>>
      BY <1>4 DEF sys_call_echo
    <2>2. call[2] \in BOOLEAN
      BY <1>4, CallKinds
    <2>3. /\ ring' \in Rings /\ ring'.buffer = ring.buffer /\ ring'.consume = ring.consume
          /\ ring'.position = ring.position
      BY <1>2, <2>1, <2>2 DEF Rings
    <2>4. call # scanFF
      BY <1>4 DEF scanFF
    <2>5. TerminalInv'
      BY <1>2, <2>1, <2>3 DEF TerminalInv, RingHolds
    <2>6. CursorInv'
      BY <1>2, <1>4, <2>1 DEF CursorInv
    <2> QED BY <1>1, <2>1, <2>4, <2>5, <2>6
  <1>5. CASE call[1] = "clear" /\ sys_call_clear /\ cleared' = (screen.iStart > 0)
    <2>1. screen' = clearRows(screen) /\ clean' = FALSE /\ UNCHANGED <<ring, unread, lost>>
      BY <1>5 DEF sys_call_clear
    <2>2. screen' \in Screens /\ screen'.i = 0 /\ screen'.iStart = screen.iStart
      BY <1>2, <2>1, ClearFacts
    <2>3. call # scanFF
      BY <1>5 DEF scanFF
    <2>4. TerminalInv'
      BY <1>2, <2>1, <2>2 DEF TerminalInv, RingHolds
    <2>5. screen'.i >= screen'.iStart \/ cleared'
      <3>1. screen.iStart \in Nat
        BY <1>2, ScreenFields, ScreenSize
      <3>2. CASE screen.iStart = 0
        BY <2>2, <3>2
      <3>3. CASE screen.iStart > 0
        BY <1>5, <3>3
      <3> QED BY <3>1, <3>2, <3>3
    <2>6. CursorInv'
      BY <1>5, <2>1, <2>5 DEF CursorInv
    <2> QED BY <1>1, <2>1, <2>3, <2>4, <2>6
  <1>6. CASE /\ call[1] = "environment"
             /\ sys_call_changeModuleEnvironment(call[2], TOP + 1) /\ cleared' = FALSE
    <2>1. /\ screen' = changeStartModule(screen, call[2], TOP + 1)
          /\ clean' = (unread = <<>> /\ ring.isEcho /\ ~ lost)
          /\ UNCHANGED <<ring, unread, lost>>
      BY <1>6 DEF sys_call_changeModuleEnvironment
    <2>2. program = "shell" /\ call[2] \in {0, PromptLength}
      BY <1>6, CallKinds
    <2>3. call[2] \in 0 .. WIDTH - 1
      BY <2>2, ScreenSize
    <2>4. screen' \in Screens /\ screen'.i = screen'.iStart
      BY <1>2, <2>1, <2>3, StartFacts
    <2>5. call # scanFF
      BY <1>6 DEF scanFF
    <2>6. ring.isEcho \in BOOLEAN
      BY <1>2 DEF Rings
    <2>7. TerminalInv'
      BY <1>2, <2>1, <2>4, <2>6 DEF TerminalInv, RingHolds
    <2>8. screen'.i >= screen'.iStart
      BY <2>4, ScreenFields
    <2>9. CursorInv'
      BY <1>6, <2>1, <2>2, <2>8 DEF CursorInv
    <2> QED BY <1>1, <1>6, <2>1, <2>4, <2>5, <2>7, <2>9
  <1> QED BY <1>3, <1>4, <1>5, <1>6 DEF screenCall

\* The keyboard edits the row as it edits the line.
LEMMA PutLine ==
    ASSUME TerminalInv, CursorInv, LineInv, string \in Seq(Characters),
           UNCHANGED <<calls, string>>,
           NEW c \in Characters, putTerminalBuffer(c)
    PROVE  LineInv'
  <1>1. SUFFICES ASSUME clean', calls # <<>>, Head(calls)[1] \in {"scanFF", "thread"}
                 PROVE  Edited(string \o unread') = Row(screen')
    BY DEF LineInv
  <1>2. CASE isBufferFull
    <2>1. UNCHANGED terminalVars
      BY <1>2 DEF putTerminalBuffer
    <2> QED BY <1>1, <2>1 DEF terminalVars, LineInv
  <1>3. CASE ~isBufferFull
    <2>1. /\ screen' = Echoed(c) /\ unread' = Append(unread, c)
          /\ clean /\ c # "\n" /\ (c = Backspace \/ screen.i < WIDTH - 1)
      BY <1>1, <1>3 DEF putTerminalBuffer
    <2>2. screen \in Screens /\ unread \in Seq(Characters)
      BY DEF TerminalInv
    <2>3. ring.isEcho /\ screen.i >= screen.iStart
      BY <2>1 DEF CursorInv
    <2>4. Edited(string \o unread) = Row(screen)
      BY <1>1, <2>1 DEF LineInv
    <2>5. string \o unread' = Append(string \o unread, c) /\ string \o unread \in Seq(Characters)
      BY <2>1, <2>2
    <2>6. Edited(string \o unread') = Edit(Row(screen), c)
      BY <2>4, <2>5, EditedAppend
    <2>7. CASE c = Backspace
      <3>1. screen' = backInLine(putChar(backInLine(screen), " "))
        BY <2>1, <2>7 DEF Echoed, Backspace
      <3>2. Row(screen') = SubSeq(Row(screen), 1, Len(Row(screen)) - 1)
        BY <2>2, <2>3, <3>1, RowErases
      <3> QED BY <2>6, <2>7, <3>2 DEF Edit
    <2>8. CASE c # Backspace
      <3>1. screen' = putChar(screen, c)
        BY <2>1, <2>3, <2>8 DEF Echoed
      <3>2. Row(screen') = Append(Row(screen), c)
        BY <2>1, <2>2, <2>3, <2>8, <3>1, RowAppends
      <3> QED BY <2>6, <2>8, <3>2 DEF Edit
    <2> QED BY <2>7, <2>8
  <1> QED BY <1>2, <1>3

-----------------------------------------------------------------------------
(* The inductive invariant.                                                *)

\* The mouse that main() leaves.
LEMMA InitialMouse == initialMouse \in Mice /\ Tidy(initialMouse)
  <1>1. WIDTH \in Nat \ {0} /\ HEIGHT \in Nat \ {0}
    BY ScreenSize
  <1>2. WIDTH \div 2 \in 0 .. WIDTH - 1 /\ HEIGHT \div 2 \in 0 .. HEIGHT - 1
    BY <1>1
  <1>3. Cell(0, 0) \in Cells
    <2>1. 0 \in 0 .. WIDTH - 1 /\ 0 \in 0 .. HEIGHT - 1
      BY <1>1
    <2> QED BY <2>1, CellInside
  <1>4. Cell(0, 0) = 0
    BY <1>1 DEF Cell
  <1>5. <<>> \in Seq(Characters)
    OBVIOUS
  <1>6. initialMouse \in Mice
    BY <1>2, <1>3, <1>4, <1>5 DEF initialMouse, Mice
  <1>7. initialMouse.lit = {}
    BY DEF initialMouse
  <1> QED BY <1>6, <1>7 DEF Tidy

\* The console that main() leaves to the shell.
LEMMA ShellInitInv == ShellInit => ShellInv
  <1> SUFFICES ASSUME ShellInit PROVE ShellInv
    OBVIOUS
  <1>1. /\ screen = initialScreen /\ mouse = initialMouse
        /\ ring = [buffer |-> [k \in 0 .. BUFFERSIZE - 1 |-> " "], consume |-> 0,
                   position |-> 0, isEcho |-> TRUE]
        /\ shift = FALSE /\ caps = FALSE /\ pasting = <<>> /\ packet = <<>>
        /\ unread = <<>> /\ lost = FALSE /\ clean = FALSE
        /\ program = "shell" /\ calls = main("shell")
        /\ thread = <<>> /\ string = <<>> /\ cleared = FALSE
    BY DEF ShellInit, ConsoleInit
  <1>2. " " \in Characters /\ (\A S : <<>> \in Seq(S)) /\ Len(<<>>) = 0
    BY DEF Characters
  <1>3. screen \in Screens /\ screen.i >= screen.iStart
    <2>1. [k \in Cells |-> " "] \in [Cells -> Characters]
      BY <1>2
    <2>2. /\ 0 \in Int /\ 0 < WIDTH /\ 0 \in 0 .. WIDTH - 1
          /\ TOP \in TOP .. HEIGHT - 1 /\ TOP \in TOP .. HEIGHT
      BY ScreenSize
    <2> DEFINE blank == [k \in Cells |-> " "]
    <2>3. screen = [i |-> 0, j |-> TOP, iStart |-> 0, jStart |-> TOP, video |-> blank]
      BY <1>1 DEF initialScreen
    <2>4. blank \in [Cells -> Characters]
      BY <2>1
    <2> HIDE DEF blank
    <2> QED BY <2>2, <2>3, <2>4 DEF Screens
  <1>4. TerminalInv
    <2>1. 0 \in 0 .. BUFFERSIZE - 1 /\ BUFFERSIZE \in Nat \ {0} /\ (0 + 0) % BUFFERSIZE = 0
      BY ConsoleAssumption
    <2>2. [k \in 0 .. BUFFERSIZE - 1 |-> " "] \in [0 .. BUFFERSIZE - 1 -> Characters]
      BY <1>2
    <2>3. ring \in Rings /\ ring.consume = 0 /\ ring.position = 0
      BY <1>1, <2>1, <2>2 DEF Rings
    <2>4. RingHolds
      <3>1. unread = <<>>
        BY <1>1
      <3>2. Len(unread) = 0
        BY <1>2, <3>1
      <3> QED BY <2>1, <2>3, <3>2 DEF RingHolds
    <2>5. unread \in Seq(Characters) /\ lost \in BOOLEAN /\ clean \in BOOLEAN
      BY <1>1, <1>2
    <2> QED BY <1>3, <2>3, <2>4, <2>5 DEF TerminalInv
  <1>5. MouseInv
    BY <1>1, <1>2, InitialMouse DEF MouseInv, NoTrail, Tidy
  <1>6. ProgramInv
    <2>1. main("shell") \in Seq(MainCalls("shell"))
      BY MainTyped
    <2>2. 0 =< LineSize
      BY ShellAssumption
    <2>3. program = "shell" /\ calls = main("shell") /\ thread = <<>> /\ string = <<>>
      BY <1>1
    <2>4. thread \in Seq(ThreadCalls) /\ string \in Seq(Characters) /\ Len(string) = 0
      BY <1>2, <2>3
    <2> QED BY <2>1, <2>2, <2>3, <2>4 DEF ProgramInv
  <1>7. CursorInv /\ LineInv
    BY <1>1, <1>3 DEF CursorInv, LineInv
  <1> QED BY <1>4, <1>5, <1>6, <1>7 DEF ShellInv

\* The parts that a step leaves alone.
LEMMA SameParts ==
    /\ TerminalInv /\ UNCHANGED terminalVars => TerminalInv'
    /\ MouseInv /\ UNCHANGED inputVars => MouseInv'
    /\ ProgramInv /\ UNCHANGED <<program, calls, thread, string>> => ProgramInv'
    /\ CursorInv /\ UNCHANGED <<terminalVars, program, cleared>> => CursorInv'
    /\ LineInv /\ UNCHANGED <<terminalVars, calls, string>> => LineInv'
  <1>1. TerminalInv /\ UNCHANGED terminalVars => TerminalInv'
    BY DEF terminalVars, TerminalInv, RingHolds
  <1>2. MouseInv /\ UNCHANGED inputVars => MouseInv'
    BY DEF inputVars, MouseInv, NoTrail
  <1>3. ProgramInv /\ UNCHANGED <<program, calls, thread, string>> => ProgramInv'
    BY DEF ProgramInv
  <1>4. CursorInv /\ UNCHANGED <<terminalVars, program, cleared>> => CursorInv'
    BY DEF terminalVars, CursorInv
  <1>5. LineInv /\ UNCHANGED <<terminalVars, calls, string>> => LineInv'
    BY DEF terminalVars, LineInv
  <1> QED BY <1>1, <1>2, <1>3, <1>4, <1>5

\* A character that an interrupt hands over.
LEMMA PutInv ==
    ASSUME ShellInv, NEW c \in Characters, putTerminalBuffer(c), UNCHANGED shellVars
    PROVE  TerminalInv' /\ ProgramInv' /\ CursorInv' /\ LineInv'
  <1>1. /\ TerminalInv'
        /\ screen.i >= screen.iStart => screen'.i >= screen'.iStart
        /\ clean' => clean /\ (lost' => lost) /\ ring'.isEcho = ring.isEcho
    BY PutFacts DEF ShellInv
  <1>2. UNCHANGED <<program, calls, thread, string, cleared>>
    BY DEF shellVars
  <1>3. ProgramInv'
    BY <1>2, SameParts DEF ShellInv
  <1>4. CursorInv'
    BY <1>1, <1>2 DEF ShellInv, CursorInv
  <1>5. LineInv'
    BY <1>2, PutLine DEF ShellInv, ProgramInv
  <1> QED BY <1>1, <1>3, <1>4, <1>5

\* A key, whichever of its four characters it stands for.
LEMMA KeyInv ==
    ASSUME ShellInv, characterKey, UNCHANGED shellVars
    PROVE  ShellInv'
  <1>1. PICK key \in Keys : putTerminalBuffer(key[column])
    BY DEF characterKey
  <1>2. column \in 1 .. 4
    BY DEF ShellInv, MouseInv, column
  <1>3. key[column] \in Characters
    <2>1. key[column] \in {key[k] : k \in 1 .. 4}
      BY <1>2
    <2>2. key[column] \in KeyCharacters
      BY <2>1 DEF KeyCharacters
    <2> QED BY <2>2 DEF Characters
  <1>4. TerminalInv' /\ ProgramInv' /\ CursorInv' /\ LineInv'
    <2> DEFINE c == key[column]
    <2>1. c \in Characters /\ putTerminalBuffer(c)
      BY <1>1, <1>3
    <2> HIDE DEF c
    <2> QED BY <2>1, PutInv
  <1>5. MouseInv'
    BY DEF characterKey, ShellInv, MouseInv, NoTrail
  <1> QED BY <1>4, <1>5 DEF ShellInv

\* One character of a paste; the handler ends with the last one.
LEMMA PasteNextInv ==
    ASSUME ShellInv, NEW m \in Mice, Tidy(m), NEW p \in Packets,
           NEW s \in Seq(Characters), s # <<>>,
           pasteNext(m, p, s), UNCHANGED <<shift, caps>>, UNCHANGED shellVars
    PROVE  ShellInv'
  <1>1. /\ putTerminalBuffer(Head(s)) /\ pasting' = Tail(s)
        /\ IF Tail(s) = <<>> THEN mouse' = move(m, p) /\ packet' = <<>>
           ELSE mouse' = m /\ packet' = <<p>>
    BY DEF pasteNext
  <1>2. Head(s) \in Characters /\ Tail(s) \in Seq(Characters)
    OBVIOUS
  <1>3. TerminalInv' /\ ProgramInv' /\ CursorInv' /\ LineInv'
    BY <1>1, <1>2, PutInv
  <1>4. mouse' \in Mice /\ NoTrail'
    BY <1>1, MoveFacts DEF NoTrail, Tidy
  <1>5. packet' \in {<<>>} \cup {<<q>> : q \in Packets} /\ (pasting' # <<>> => packet' # <<>>)
    <2>1. CASE Tail(s) = <<>>
      BY <1>1, <2>1
    <2>2. CASE Tail(s) # <<>>
      <3>1. packet' = <<p>>
        BY <1>1, <2>2
      <3> QED BY <3>1
    <2> QED BY <2>1, <2>2
  <1>6. MouseInv'
    BY <1>1, <1>2, <1>4, <1>5 DEF ShellInv, MouseInv
  <1> QED BY <1>3, <1>6 DEF ShellInv

\* A mouse packet: it ends at once, or begins to paste what is copied now.
LEMMA MouseHandlerInv ==
    ASSUME ShellInv, mouseHandler, UNCHANGED shellVars
    PROVE  ShellInv'
  <1> DEFINE pressed(p) == buttons(mouse, screen.video, p)
  <1>1. PICK p \in Packets :
          IF mouse.flag /\ ~ p.right /\ pressed(p).copied # <<>>
          THEN pasteNext(pressed(p), p, pressed(p).copied)
          ELSE mouse' = move(pressed(p), p) /\ UNCHANGED <<terminalVars, pasting, packet>>
    BY DEF mouseHandler
  <1>2. UNCHANGED <<shift, caps>> /\ UNCHANGED <<program, calls, thread, string, cleared>>
    BY DEF mouseHandler, shellVars
  <1>3. mouse \in Mice /\ Tidy(mouse) /\ screen.video \in [Cells -> Characters]
    BY ScreenFields DEF ShellInv, MouseInv, TerminalInv, NoTrail, Tidy
  <1>4. pressed(p) \in Mice /\ Tidy(pressed(p))
    BY <1>3, ButtonsFacts
  <1> HIDE DEF pressed
  <1>5. CASE mouse.flag /\ ~ p.right /\ pressed(p).copied # <<>>
    <2>1. pasteNext(pressed(p), p, pressed(p).copied)
      BY <1>1, <1>5
    <2>2. pressed(p).copied \in Seq(Characters) /\ pressed(p).copied # <<>>
      BY <1>4, <1>5 DEF Mice
    <2> DEFINE m == pressed(p)
               s == m.copied
    <2>3. m \in Mice /\ Tidy(m) /\ s \in Seq(Characters) /\ s # <<>> /\ pasteNext(m, p, s)
      BY <1>4, <2>1, <2>2
    <2> HIDE DEF m, s
    <2> QED BY <1>2, <2>3, PasteNextInv
  <1>6. CASE ~(mouse.flag /\ ~ p.right /\ pressed(p).copied # <<>>)
    <2>1. mouse' = move(pressed(p), p) /\ UNCHANGED <<terminalVars, pasting, packet>>
      BY <1>1, <1>6
    <2>2. mouse' \in Mice /\ NoTrail'
      BY <1>4, <2>1, MoveFacts DEF NoTrail, Tidy
    <2>3. MouseInv'
      BY <1>2, <2>1, <2>2 DEF ShellInv, MouseInv
    <2>4. TerminalInv' /\ ProgramInv' /\ CursorInv' /\ LineInv'
      BY <1>2, <2>1, SameParts DEF ShellInv
    <2> QED BY <2>3, <2>4 DEF ShellInv
  <1> QED BY <1>5, <1>6

\* The next character of a paste that was interrupted.
LEMMA PasteInv ==
    ASSUME ShellInv, paste, UNCHANGED shellVars
    PROVE  ShellInv'
  <1>1. /\ pasting # <<>> /\ pasteNext(mouse, packet[1], pasting) /\ UNCHANGED <<shift, caps>>
    BY DEF paste
  <1>2. /\ pasting \in Seq(Characters) /\ packet # <<>>
        /\ packet \in {<<>>} \cup {<<q>> : q \in Packets}
        /\ mouse \in Mice /\ Tidy(mouse)
    BY <1>1 DEF ShellInv, MouseInv, NoTrail, Tidy
  <1>3. packet[1] \in Packets
    BY <1>2
  <1> QED BY <1>1, <1>2, <1>3, PasteNextInv

\* A new program on the screen of the old one.
LEMMA ReplacedInv ==
    ASSUME ShellInv, resetBuffer, NEW p \in {"shell", "editor", "fortune"}, Replaced(p)
    PROVE  TerminalInv' /\ ProgramInv' /\ CursorInv' /\ LineInv'
  <1>1. TerminalInv' /\ screen' = screen /\ ~clean'
    BY ResetFacts DEF ShellInv
  <1>2. /\ program' = p /\ calls' = main(p) /\ thread' = <<>> /\ string' = <<>>
        /\ cleared' = cleared
    BY DEF Replaced
  <1>3. ProgramInv'
    <2>1. (\A S : <<>> \in Seq(S)) /\ Len(<<>>) = 0 /\ 0 =< LineSize
      BY ShellAssumption
    <2> QED BY <1>2, <2>1, MainTyped DEF ProgramInv
  <1> QED BY <1>1, <1>2, <1>3 DEF ShellInv, CursorInv, LineInv

\* restartSHELL: the interrupt of a paste may be gone with its process.
LEMMA RestartInv ==
    ASSUME ShellInv, Restart
    PROVE  ShellInv'
  <1>1. resetBuffer /\ Replaced("shell") /\ pasting' \in {pasting, <<>>}
        /\ UNCHANGED <<mouse, shift, caps, packet>>
    BY DEF Restart, restartSHELL
  <1>2. TerminalInv' /\ ProgramInv' /\ CursorInv' /\ LineInv'
    BY <1>1, ReplacedInv
  <1>3. <<>> \in Seq(Characters)
    OBVIOUS
  <1>4. MouseInv'
    BY <1>1, <1>3 DEF ShellInv, MouseInv, NoTrail
  <1> QED BY <1>2, <1>4 DEF ShellInv

\* The next call of the program writes to the screen.
LEMMA MainCallInv ==
    ASSUME ShellInv, mainScreenCall
    PROVE  ShellInv'
  <1>1. /\ calls # <<>> /\ screenCall(Head(calls)) /\ calls' = Tail(calls)
        /\ UNCHANGED <<program, thread, string>>
    BY DEF mainScreenCall
  <1>2. /\ TerminalInv /\ CursorInv /\ MouseInv /\ calls \in Seq(MainCalls(program))
        /\ program \in {"shell", "editor", "fortune"}
    BY DEF ShellInv, ProgramInv
  <1> DEFINE call == Head(calls)
  <1>3. call \in MainCalls(program) /\ Tail(calls) \in Seq(MainCalls(program)) /\ screenCall(call)
    BY <1>1, <1>2
  <1> HIDE DEF call
  <1>4. /\ TerminalInv' /\ CursorInv' /\ UNCHANGED inputVars /\ call # scanFF
        /\ clean' => unread' = <<>> /\ screen'.i = screen'.iStart
    BY <1>1, <1>2, <1>3, CallFacts
  <1>5. MouseInv'
    BY <1>2, <1>4, SameParts
  <1>6. string = <<>>
    BY <1>4 DEF ShellInv, ProgramInv, call
  <1>7. ProgramInv'
    BY <1>1, <1>3, <1>6 DEF ShellInv, ProgramInv
  <1>8. LineInv'
    <2>1. SUFFICES ASSUME clean' PROVE Edited(string' \o unread') = Row(screen')
      BY DEF LineInv
    <2>2. string' \o unread' = <<>>
      BY <1>1, <1>4, <1>6, <2>1
    <2>3. screen' \in Screens /\ screen'.i = screen'.iStart
      BY <1>4, <2>1 DEF TerminalInv
    <2>4. screen'.i - screen'.iStart = 0 /\ screen'.i >= screen'.iStart
      BY <2>3, ScreenFields
    <2>5. Row(screen') \in Seq(Characters) /\ Len(Row(screen')) = 0
      BY <2>3, <2>4, RowIsLine
    <2>6. Row(screen') = <<>>
      BY <2>5
    <2> QED BY <2>2, <2>6, EditedEmpty
  <1> QED BY <1>4, <1>5, <1>7, <1>8 DEF ShellInv

\* The thread of a command with '&' writes to the screen: the line is no longer alone.
LEMMA ThreadCallInv ==
    ASSUME ShellInv, threadScreenCall
    PROVE  ShellInv'
  <1>1. /\ thread # <<>> /\ screenCall(Head(thread)) /\ thread' = Tail(thread)
        /\ UNCHANGED <<program, calls, string>>
    BY DEF threadScreenCall
  <1>2. /\ TerminalInv /\ CursorInv /\ MouseInv /\ thread \in Seq(ThreadCalls)
        /\ program \in {"shell", "editor", "fortune"}
    BY DEF ShellInv, ProgramInv
  <1> DEFINE call == Head(thread)
  <1>3. call \in ThreadCalls /\ Tail(thread) \in Seq(ThreadCalls) /\ screenCall(call)
    BY <1>1, <1>2
  <1> HIDE DEF call
  <1>4. call \in MainCalls(program) /\ call[1] # "environment"
    BY <1>2, <1>3, ThreadKinds
  <1>5. TerminalInv' /\ CursorInv' /\ UNCHANGED inputVars /\ ~clean'
    BY <1>1, <1>2, <1>3, <1>4, CallFacts
  <1>6. MouseInv'
    BY <1>2, <1>5, SameParts
  <1>7. ProgramInv'
    BY <1>1, <1>3 DEF ShellInv, ProgramInv
  <1> QED BY <1>5, <1>6, <1>7 DEF ShellInv, LineInv

\* kill of the shell, from its program or from the thread.
LEMMA KillInv ==
    ASSUME ShellInv, killProcess
    PROVE  ShellInv'
  <1>1. /\ calls' = <<>> /\ thread' = <<>> /\ string' = <<>>
        /\ UNCHANGED <<program, cleared, terminalVars, inputVars>>
    BY DEF killProcess, consoleVars
  <1>2. (\A S : <<>> \in Seq(S)) /\ Len(<<>>) = 0 /\ 0 =< LineSize
    BY ShellAssumption
  <1>3. ProgramInv'
    BY <1>1, <1>2 DEF ShellInv, ProgramInv
  <1>4. TerminalInv' /\ MouseInv' /\ CursorInv'
    BY <1>1, SameParts DEF ShellInv
  <1>5. LineInv'
    BY <1>1 DEF LineInv
  <1> QED BY <1>3, <1>4, <1>5 DEF ShellInv

\* A command with '&' becomes a thread.
LEMMA CreateThreadInv ==
    ASSUME ShellInv, createThread
    PROVE  ShellInv'
  <1>1. /\ calls # <<>> /\ Head(calls)[1] = "thread"
        /\ thread' = Head(calls)[2] /\ calls' = Tail(calls)
        /\ UNCHANGED <<program, string, cleared, terminalVars, inputVars>>
    BY DEF createThread, Next1, consoleVars
  <1>2. calls \in Seq(MainCalls(program)) /\ program \in {"shell", "editor", "fortune"}
    BY DEF ShellInv, ProgramInv
  <1> DEFINE call == Head(calls)
  <1>3. call \in MainCalls(program) /\ Tail(calls) \in Seq(MainCalls(program))
    BY <1>1, <1>2
  <1>4. call[2] \in Seq(ThreadCalls) /\ call # scanFF
    <2> HIDE DEF call
    <2>1. call[1] = "thread"
      BY <1>1 DEF call
    <2> QED BY <1>2, <1>3, <2>1, CallKinds, CommandsTyped DEF scanFF
  <1>5. string = <<>>
    BY <1>4 DEF ShellInv, ProgramInv
  <1>6. ProgramInv'
    BY <1>1, <1>3, <1>4, <1>5 DEF ShellInv, ProgramInv
  <1>7. TerminalInv' /\ MouseInv' /\ CursorInv'
    BY <1>1, SameParts DEF ShellInv
  <1>8. LineInv'
    BY <1>1 DEF ShellInv, LineInv, terminalVars
  <1> QED BY <1>6, <1>7, <1>8 DEF ShellInv

\* run: another program takes the place of the shell or of the editor.
LEMMA RunInv ==
    ASSUME ShellInv, sys_call_run
    PROVE  ShellInv'
  <1>1. /\ calls # <<>> /\ Head(calls)[1] = "run" /\ resetBuffer
        /\ Replaced(Head(calls)[2]) /\ UNCHANGED inputVars
    BY DEF sys_call_run, Next1
  <1> DEFINE call == Head(calls)
             p == call[2]
  <1>2. call \in MainCalls(program) /\ program \in {"shell", "editor", "fortune"}
    BY <1>1 DEF ShellInv, ProgramInv
  <1>3. p \in {"shell", "editor", "fortune"}
    <2> HIDE DEF call
    <2>1. call[1] = "run"
      BY <1>1 DEF call
    <2> QED BY <1>2, <2>1, CallKinds
  <1>4. TerminalInv' /\ ProgramInv' /\ CursorInv' /\ LineInv'
    <2>1. Replaced(p)
      BY <1>1
    <2> HIDE DEF p
    <2> QED BY <1>1, <1>3, <2>1, ReplacedInv
  <1>5. MouseInv'
    BY <1>1, SameParts DEF ShellInv
  <1> QED BY <1>4, <1>5 DEF ShellInv

\* A character the editor drops, or the '%' that begins a command.
LEMMA GetcharInv ==
    ASSUME ShellInv, editorGetchar
    PROVE  ShellInv'
  <1>1. PICK c \in {ring.buffer[ring.consume]} :
          /\ getTerminalBuffer(c) /\ calls' = IF c = "%" THEN <<scanFF>> ELSE calls
    BY DEF editorGetchar
  <1>2. /\ calls # <<>> /\ Head(calls)[1] = "getchar"
        /\ UNCHANGED <<program, thread, string, cleared, inputVars>>
    BY DEF editorGetchar, Next1
  <1>3. calls \in Seq(MainCalls(program)) /\ program \in {"shell", "editor", "fortune"}
    BY DEF ShellInv, ProgramInv
  <1> DEFINE call == Head(calls)
  <1>4. program = "editor" /\ call # scanFF
    <2>1. call \in MainCalls(program) /\ call[1] = "getchar"
      BY <1>2, <1>3
    <2> HIDE DEF call
    <2> QED BY <1>3, <2>1, CallKinds DEF scanFF
  <1>5. ~clean /\ string = <<>>
    BY <1>4 DEF ShellInv, CursorInv, ProgramInv
  <1>6. TerminalInv' /\ UNCHANGED <<screen, lost, clean>> /\ ring'.isEcho = ring.isEcho
    BY <1>1, GetFacts DEF ShellInv
  <1>7. calls' \in Seq(MainCalls(program))
    <2>1. scanFF \in MainCalls(program)
      BY DEF MainCalls
    <2>2. <<scanFF>> \in Seq(MainCalls(program))
      <3>1. \A S : \A a \in S : <<a>> \in Seq(S)
        OBVIOUS
      <3> QED BY <2>1, <3>1
    <2> QED BY <1>1, <1>3, <2>2
  <1>8. ProgramInv'
    BY <1>2, <1>5, <1>7 DEF ShellInv, ProgramInv
  <1>9. MouseInv'
    BY <1>2, SameParts DEF ShellInv
  <1>10. CursorInv' /\ LineInv'
    BY <1>2, <1>5, <1>6 DEF ShellInv, CursorInv, LineInv
  <1> QED BY <1>6, <1>8, <1>9, <1>10 DEF ShellInv

\* A character of the line: it goes from the ring into the line, or ends it.
LEMMA ScanInv ==
    ASSUME ShellInv, scan
    PROVE  ShellInv'
  <1> DEFINE full == Len(string) = LineSize
             ends(c) == c = "\n" \/ (c # Backspace /\ full)
  <1>1. PICK c \in {ring.buffer[ring.consume]} :
          /\ getTerminalBuffer(c)
          /\ string' = CASE ends(c) -> <<>>
                         [] ~ ends(c) /\ c = Backspace -> SubSeq(string, 1, Len(string) - 1)
                         [] ~ ends(c) /\ c # Backspace -> Append(string, c)
          /\ IF ends(c) THEN calls' \in After(string, full) ELSE UNCHANGED calls
    BY DEF scan
  <1>2. /\ calls # <<>> /\ Head(calls)[1] = "scanFF"
        /\ UNCHANGED <<program, thread, cleared, inputVars>>
    BY DEF scan, Next1
  <1>3. /\ calls \in Seq(MainCalls(program)) /\ program \in {"shell", "editor", "fortune"}
        /\ string \in Seq(Characters) /\ Len(string) =< LineSize
        /\ \A k \in 1 .. Len(string) : string[k] # Backspace
        /\ unread \in Seq(Characters) /\ LineSize \in Nat \ {0}
    BY ShellAssumption DEF ShellInv, ProgramInv, TerminalInv
  <1> DEFINE call == Head(calls)
  <1>4. call = scanFF
    <2>1. call \in MainCalls(program) /\ call[1] = "scanFF"
      BY <1>2, <1>3
    <2> HIDE DEF call
    <2> QED BY <1>3, <2>1, CallKinds
  <1>5. /\ TerminalInv' /\ c \in Characters
        /\ UNCHANGED <<screen, lost, clean>> /\ ring'.isEcho = ring.isEcho
        /\ ~lost => unread # <<>> /\ c = Head(unread) /\ unread' = Tail(unread)
    BY <1>1, GetFacts DEF ShellInv
  <1>6. MouseInv'
    BY <1>2, SameParts DEF ShellInv
  <1>7. CursorInv'
    BY <1>2, <1>5 DEF ShellInv, CursorInv
  <1>8. CASE ends(c)
    <2>1. string' = <<>> /\ calls' \in After(string, full)
      BY <1>1, <1>8
    <2>2. full \in BOOLEAN
      OBVIOUS
    <2>3. /\ calls' \in Seq(MainCalls(program))
          /\ calls' # <<>> => Head(calls')[1] \notin {"scanFF", "thread"}
      BY <1>3, <2>1, <2>2, AfterTyped
    <2>4. (\A S : <<>> \in Seq(S)) /\ Len(<<>>) = 0 /\ 0 =< LineSize
      BY <1>3
    <2>5. ProgramInv'
      BY <1>2, <2>1, <2>3, <2>4 DEF ShellInv, ProgramInv
    <2>6. LineInv'
      BY <2>3 DEF LineInv
    <2> QED BY <1>5, <1>6, <1>7, <2>5, <2>6 DEF ShellInv
  <1>9. CASE ~ends(c) /\ c = Backspace
    <2> DEFINE cut == SubSeq(string, 1, Len(string) - 1)
    <2>1. string' = cut /\ calls' = calls
      BY <1>1, <1>9
    <2>2. /\ cut \in Seq(Characters)
          /\ Len(cut) = IF string = <<>> THEN 0 ELSE Len(string) - 1
          /\ \A k \in 1 .. Len(string) - 1 : cut[k] = string[k]
      BY <1>3, CutFacts
    <2> HIDE DEF cut
    <2>3. Len(string) \in Nat /\ (string = <<>> <=> Len(string) = 0)
      BY <1>3
    <2>4. /\ Len(cut) =< LineSize
          /\ \A k \in 1 .. Len(cut) : k \in 1 .. Len(string) - 1 /\ k \in 1 .. Len(string)
      BY <1>3, <2>2, <2>3
    <2>5. \A k \in 1 .. Len(cut) : cut[k] # Backspace
      BY <1>3, <2>2, <2>4
    <2>6. ProgramInv'
      BY <1>2, <1>4, <2>1, <2>2, <2>4, <2>5 DEF ShellInv, ProgramInv
    <2>7. LineInv'
      <3>1. SUFFICES ASSUME clean' PROVE Edited(string' \o unread') = Row(screen')
        BY DEF LineInv
      <3>2. clean /\ ~lost
        BY <1>5, <3>1 DEF ShellInv, CursorInv
      <3>3. unread # <<>> /\ c = Head(unread) /\ unread' = Tail(unread)
        BY <1>5, <3>2
      <3>4. Edited(string \o unread) = Row(screen)
        BY <1>2, <3>2 DEF ShellInv, LineInv
      <3>5. Append(string, c) \o unread' = string \o unread
        BY <1>3, <1>5, <3>3
      <3>6. Edited(Append(string, c)) = Edited(cut)
        <4>1. Edited(string) = string /\ Edited(cut) = cut
          BY <1>3, <2>2, <2>5, EditedPlain
        <4>2. Edited(Append(string, c)) = Edit(string, c)
          BY <1>3, <1>5, <4>1, EditedAppend
        <4> QED BY <1>9, <4>1, <4>2 DEF Edit, cut
      <3>7. Edited(Append(string, c) \o unread') = Edited(cut \o unread')
        <4>1. Append(string, c) \in Seq(Characters) /\ unread' \in Seq(Characters)
          BY <1>3, <1>5, <3>3
        <4> QED BY <2>2, <3>6, <4>1, EditedSame
      <3> QED BY <1>5, <2>1, <3>4, <3>5, <3>7
    <2> QED BY <1>5, <1>6, <1>7, <2>6, <2>7 DEF ShellInv
  <1>10. CASE ~ends(c) /\ c # Backspace
    <2>1. string' = Append(string, c) /\ calls' = calls
      BY <1>1, <1>10
    <2>2. /\ Append(string, c) \in Seq(Characters) /\ Len(Append(string, c)) = Len(string) + 1
          /\ Len(string) \in Nat
          /\ \A k \in 1 .. Len(string) : Append(string, c)[k] = string[k]
          /\ Append(string, c)[Len(string) + 1] = c
      BY <1>3, <1>5
    <2>3. Len(string) + 1 =< LineSize
      BY <1>3, <1>10, <2>2
    <2>4. \A k \in 1 .. Len(string) + 1 : k \in 1 .. Len(string) \/ k = Len(string) + 1
      BY <2>2
    <2>5. \A k \in 1 .. Len(string) + 1 : Append(string, c)[k] # Backspace
      BY <1>3, <1>10, <2>2, <2>4
    <2>6. ProgramInv'
      BY <1>2, <1>4, <2>1, <2>2, <2>3, <2>5 DEF ShellInv, ProgramInv
    <2>7. LineInv'
      <3>1. SUFFICES ASSUME clean' PROVE Edited(string' \o unread') = Row(screen')
        BY DEF LineInv
      <3>2. clean /\ ~lost
        BY <1>5, <3>1 DEF ShellInv, CursorInv
      <3>3. unread # <<>> /\ c = Head(unread) /\ unread' = Tail(unread)
        BY <1>5, <3>2
      <3>4. Edited(string \o unread) = Row(screen)
        BY <1>2, <3>2 DEF ShellInv, LineInv
      <3>5. Append(string, c) \o unread' = string \o unread
        BY <1>3, <1>5, <3>3
      <3> QED BY <1>5, <2>1, <3>4, <3>5
    <2> QED BY <1>5, <1>6, <1>7, <2>6, <2>7 DEF ShellInv
  <1> QED BY <1>8, <1>9, <1>10

\* Every step.
LEMMA ShellStepInv == ShellInv /\ [ShellNext]_cVars => ShellInv'
  <1> SUFFICES ASSUME ShellInv, [ShellNext]_cVars PROVE ShellInv'
    OBVIOUS
  <1>1. CASE UNCHANGED cVars
    <2>1. UNCHANGED <<terminalVars, inputVars, program, calls, thread, string, cleared>>
      BY <1>1 DEF cVars, consoleVars, shellVars
    <2> QED BY <2>1, SameParts DEF ShellInv
  <1>2. CASE mainScreenCall
    BY <1>2, MainCallInv
  <1>3. CASE mainKill
    BY <1>3, KillInv DEF mainKill
  <1>4. CASE createThread
    BY <1>4, CreateThreadInv
  <1>5. CASE sys_call_run
    BY <1>5, RunInv
  <1>6. CASE editorGetchar
    BY <1>6, GetcharInv
  <1>7. CASE scan
    BY <1>7, ScanInv
  <1>8. CASE threadScreenCall
    BY <1>8, ThreadCallInv
  <1>9. CASE threadKill
    BY <1>9, KillInv DEF threadKill
  <1>10. CASE Restart
    BY <1>10, RestartInv
  <1>11. CASE Interrupts /\ UNCHANGED shellVars
    <2>1. CASE capsLock \/ shiftKey
      <3>1. /\ UNCHANGED <<terminalVars, mouse, pasting, packet>>
            /\ caps' \in BOOLEAN /\ shift' \in BOOLEAN
        BY <2>1 DEF capsLock, shiftKey, ShellInv, MouseInv
      <3>2. UNCHANGED <<program, calls, thread, string, cleared>>
        BY <1>11 DEF shellVars
      <3>3. MouseInv'
        BY <3>1 DEF ShellInv, MouseInv, NoTrail
      <3> QED BY <3>1, <3>2, <3>3, SameParts DEF ShellInv
    <2>2. CASE characterKey
      BY <1>11, <2>2, KeyInv
    <2>3. CASE mouseHandler
      BY <1>11, <2>3, MouseHandlerInv
    <2>4. CASE paste
      BY <1>11, <2>4, PasteInv
    <2> QED BY <1>11, <2>1, <2>2, <2>3, <2>4 DEF Interrupts
  <1> QED BY <1>1, <1>2, <1>3, <1>4, <1>5, <1>6, <1>7, <1>8, <1>9, <1>10, <1>11
          DEF ShellNext, Programs

\* The console works whatever is typed, pasted and printed, by whichever thread.
THEOREM ShellInvariant == ShellSpec => []ShellInv
  <1> QED BY ShellInitInv, ShellStepInv, PTL DEF ShellSpec

\* terminal.c:89-108: a reader gets what was put in the ring and not read, in order,
\* unless the ring filled up while its reader was at the start of the buffer.
THEOREM ConsoleInOrder == ShellSpec => []TerminalInOrder
  <1>1. ShellInv => TerminalInOrder
    <2> SUFFICES ASSUME ShellInv, ~lost
                 PROVE  [k \in 1 .. (ring.position - ring.consume) % BUFFERSIZE |->
                            ring.buffer[(ring.consume + k - 1) % BUFFERSIZE]] = unread
      BY DEF TerminalInOrder
    <2>1. /\ unread \in Seq(Characters) /\ ring.consume \in Slots /\ ring.position \in Slots
          /\ Len(unread) < BUFFERSIZE
          /\ RingAt(ring.consume, ring.position, ring.buffer, unread)
      BY DEF ShellInv, TerminalInv, Rings, RingHolds, RingAt, Slots
    <2>2. (ring.position - ring.consume) % BUFFERSIZE = Len(unread)
      BY <2>1, RingLength
    <2>3. \A k \in 1 .. Len(unread) : ring.buffer[(ring.consume + k - 1) % BUFFERSIZE] = unread[k]
      BY <2>1 DEF RingAt
    <2>4. unread = [k \in 1 .. Len(unread) |-> unread[k]]
      BY <2>1
    <2>5. [k \in 1 .. Len(unread) |-> ring.buffer[(ring.consume + k - 1) % BUFFERSIZE]] =
             [k \in 1 .. Len(unread) |-> unread[k]]
      BY <2>3
    <2> QED BY <2>2, <2>4, <2>5
  <1> QED BY <1>1, ShellInvariant, PTL

\* video.c:171-181: the cursor stays on the screen and right of the prompt, unless the
\* clear of a background thread moved it.
THEOREM ConsoleCursor == ShellSpec => []CursorInArea
  <1>1. ShellInv => CursorInArea
    <2> SUFFICES ASSUME ShellInv PROVE CursorInArea
      OBVIOUS
    <2>1. ShellTypeOK
      <3>1. ring.consume \in 0 .. BUFFERSIZE - 1 /\ ring.position \in 0 .. BUFFERSIZE - 1
        BY DEF ShellInv, TerminalInv, Rings
      <3>2. mouse.lit \subseteq Cells
        BY DEF ShellInv, MouseInv, Mice
      <3>3. /\ screen.iStart \in 0 .. WIDTH /\ screen.jStart \in TOP .. HEIGHT
            /\ DOMAIN screen.video = Cells
        BY ScreenFields, ScreenSize DEF ShellInv, TerminalInv
      <3>4. Len(string) <= LineSize /\ program \in {"shell", "editor", "fortune"}
        BY DEF ShellInv, ProgramInv
      <3> QED BY <3>1, <3>2, <3>3, <3>4 DEF ShellTypeOK
    <2>2. screen.j \in TOP .. HEIGHT - 1 /\ screen.i < WIDTH
      BY ScreenFields DEF ShellInv, TerminalInv
    <2> QED BY <2>1, <2>2 DEF CursorInArea, ShellInv, CursorInv
  <1> QED BY <1>1, ShellInvariant, PTL

\* mouse.c:130-169, 197-200: nothing stays highlighted but the pointer and a selection
\* that goes on, whatever the packets.
THEOREM ConsoleNoTrail == ShellSpec => []NoTrail
  <1>1. ShellInv => NoTrail
    BY DEF ShellInv, MouseInv
  <1> QED BY <1>1, ShellInvariant, PTL

\* terminal.c:67-80 and SHELL/stdio.c:154-169: the row the keyboard interrupt edits shows
\* the line that scanFF will have made of the same characters, for lines of any length.
THEOREM ConsoleLine == ShellSpec => []LineShown
  <1>1. ShellInv => LineShown
    BY DEF ShellInv, LineInv, LineShown, scanFF
  <1> QED BY <1>1, ShellInvariant, PTL
=============================================================================
