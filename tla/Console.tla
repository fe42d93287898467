------------------------------ MODULE Console -------------------------------
(***************************************************************************)
(* The kernel's side of the console: the keyboard and the mouse interrupt, *)
(* the ring of Kernel/terminal.c between them and the readers, and the     *)
(* system calls of programs on the screen and the ring.                    *)
(*                                                                         *)
(* The bodies run with interrupts off, but putTerminalBuffer turns them on *)
(* when it ends: between two characters that paste() hands over, the       *)
(* keyboard and the processes go on.  The mouse's own interrupt stays in   *)
(* service until its handler ends.                                         *)
(***************************************************************************)
EXTENDS Video

CONSTANTS
    BUFFERSIZE,   \* of the ring: 2500
    Keys,         \* the keys with a character: <<normal, shift, caps, caps and shift>>
    Packets,      \* the mouse packets
    MaxInputs     \* bound on the keys pressed and the packets sent

ASSUME ConsoleAssumption ==
    /\ BUFFERSIZE \in Nat \ {0, 1} /\ MaxInputs \in Nat
    /\ Packets \subseteq [left : BOOLEAN, right : BOOLEAN, dx : Int, dy : Int]

VARIABLES
    screen,    \* see Video
    mouse,     \* see Video
    ring,      \* Buffer, bufferConsume, bufferPosition and isEcho
    shift, caps,
    pasting,   \* the characters paste() has still to hand over
    packet,    \* the packet whose handler is in paste(), or nothing
    inputs,    \* how many inputs there were
    unread,    \* history: the characters put in the ring and not read
    lost,      \* history: the ring filled up with its reader at the start of Buffer
    clean      \* history: since an empty line with echo began, only its characters
               \* went to the screen, and they stayed in its row

Backspace == "backspace"

terminalVars == <<screen, ring, unread, lost, clean>>
inputVars == <<mouse, shift, caps, pasting, packet, inputs>>
consoleVars == <<terminalVars, inputVars>>

ConsoleInit ==
    /\ screen = initialScreen /\ mouse = initialMouse
    /\ ring = [buffer |-> [k \in 0 .. BUFFERSIZE - 1 |-> " "], consume |-> 0,
               position |-> 0, isEcho |-> TRUE]
    /\ shift = FALSE /\ caps = FALSE
    /\ pasting = <<>> /\ packet = <<>> /\ inputs = 0
    /\ unread = <<>> /\ lost = FALSE /\ clean = FALSE

-----------------------------------------------------------------------------
(* terminal.c                                                              *)

\* bufferConsume never points past the end, so the second case is never met.
isBufferFull ==
    \/ ring.consume = ring.position + 1
    \/ ring.consume = BUFFERSIZE /\ ring.position = 0

isBufferEmpty == ring.consume = ring.position

\* Mutant of Echoed: the cursor stays behind the blank.
EchoedBlank(c) ==
    CASE c = Backspace -> putChar(backInLine(screen), " ")
      [] c = "\n" -> lineJump(screen)
      [] c \notin {Backspace, "\n"} -> IF ring.isEcho THEN putChar(screen, c) ELSE screen

\* A line feed and a backspace act on the screen with echo off, too.
Echoed(c) ==
    CASE c = Backspace -> backInLine(putChar(backInLine(screen), " "))
      [] c = "\n" -> lineJump(screen)
      [] c \notin {Backspace, "\n"} -> IF ring.isEcho THEN putChar(screen, c) ELSE screen

Following(k) == (k + 1) % BUFFERSIZE

putTerminalBuffer(c) ==
    IF isBufferFull THEN UNCHANGED terminalVars
    ELSE LET fills == Following(ring.position) = ring.consume
         IN /\ screen' = Echoed(c)
            /\ ring' = [ring EXCEPT !.buffer[ring.position] = c,
                                    !.position = Following(ring.position)]
            /\ unread' = Append(unread, c)
            /\ lost' = (lost \/ fills)
            /\ clean' = (/\ clean /\ ~ fills /\ c # "\n"
                         /\ c = Backspace \/ screen.i < WIDTH - 1)

\* Mutant of getTerminalBuffer: the character is returned and stays in the ring.
getTerminalBufferKeep(c) ==
    /\ ~ isBufferEmpty
    /\ c = ring.buffer[ring.consume]
    /\ UNCHANGED terminalVars

\* read(buffer, 1) that finds a character.  The caller calls again when it finds none.
getTerminalBuffer(c) ==
    /\ ~ isBufferEmpty
    /\ c = ring.buffer[ring.consume]
    /\ ring' = [ring EXCEPT !.consume = Following(ring.consume)]
    /\ unread' = IF unread = <<>> THEN <<>> ELSE Tail(unread)
    /\ UNCHANGED <<screen, lost, clean>>

\* Mutant of resetBuffer: the reader is left where it was.
resetBufferPosition ==
    /\ ring' = [ring EXCEPT !.position = 0]
    /\ unread' = <<>> /\ lost' = FALSE /\ clean' = FALSE
    /\ UNCHANGED screen

resetBuffer ==
    /\ ring' = [ring EXCEPT !.position = 0, !.consume = 0]
    /\ unread' = <<>> /\ lost' = FALSE /\ clean' = FALSE
    /\ UNCHANGED screen

-----------------------------------------------------------------------------
(* The system calls that write.                                            *)

sys_call_write(c) ==
    /\ screen' = IF c = "\n" THEN lineJump(screen) ELSE putChar(screen, c)
    /\ clean' = FALSE
    /\ UNCHANGED <<ring, unread, lost>>

sys_call_clear ==
    /\ screen' = clearRows(screen)
    /\ clean' = FALSE
    /\ UNCHANGED <<ring, unread, lost>>

sys_call_echo(on) ==
    /\ ring' = [ring EXCEPT !.isEcho = on]
    /\ clean' = FALSE
    /\ UNCHANGED <<screen, unread, lost>>

\* A line begins where changeStartModule puts the cursor.
sys_call_changeModuleEnvironment(f, c) ==
    /\ screen' = changeStartModule(screen, f, c)
    /\ clean' = (unread = <<>> /\ ring.isEcho /\ ~ lost)
    /\ UNCHANGED <<ring, unread, lost>>

-----------------------------------------------------------------------------
(* The interrupts.                                                         *)

Input == inputs < MaxInputs /\ inputs' = inputs + 1

capsLock ==
    /\ Input /\ caps' = ~ caps
    /\ UNCHANGED <<terminalVars, mouse, shift, pasting, packet>>

\* Either shift key; a repeated make or the break of the other key changes nothing more.
shiftKey ==
    /\ Input /\ \E on \in BOOLEAN : shift # on /\ shift' = on
    /\ UNCHANGED <<terminalVars, mouse, caps, pasting, packet>>

column == CASE caps /\ shift -> 4 [] caps /\ ~ shift -> 3
            [] ~ caps /\ shift -> 2 [] ~ caps /\ ~ shift -> 1

characterKey ==
    /\ Input /\ \E key \in Keys : putTerminalBuffer(key[column])
    /\ UNCHANGED <<mouse, shift, caps, pasting, packet>>

\* Shift and F1: sys_call_runC resets the ring.  The process whose mouse interrupt is
\* in paste() may be removed: then that interrupt never ends.
restartSHELL ==
    /\ Input /\ shift
    /\ resetBuffer
    /\ pasting' \in {pasting, <<>>}
    /\ UNCHANGED <<mouse, shift, caps, packet>>

\* paste() from its next character on, and when that was the last one the rest of the
\* handler, which ends the interrupt.
pasteNext(m, p, characters) ==
    /\ putTerminalBuffer(Head(characters))
    /\ pasting' = Tail(characters)
    /\ IF Tail(characters) = <<>> THEN mouse' = move(m, p) /\ packet' = <<>>
       ELSE mouse' = m /\ packet' = <<p>>

\* Not while an earlier packet's interrupt is in service.  The selection is made before
\* it is pasted, and the first character goes to the ring before interrupts are on.
mouseHandler ==
    /\ Input /\ packet = <<>>
    /\ \E p \in Packets :
          LET pressed == buttons(mouse, screen.video, p)
          IN IF mouse.flag /\ ~ p.right /\ pressed.copied # <<>>
             THEN pasteNext(pressed, p, pressed.copied)
             ELSE mouse' = move(pressed, p) /\ UNCHANGED <<terminalVars, pasting, packet>>
    /\ UNCHANGED <<shift, caps>>

paste ==
    /\ pasting # <<>>
    /\ pasteNext(mouse, packet[1], pasting)
    /\ UNCHANGED <<shift, caps, inputs>>
=============================================================================
