------------------------------- MODULE Shell --------------------------------
(***************************************************************************)
(* The programs that use the console: Userland/SHELL, EDITOR and FORTUNE   *)
(* with their stdio.  A program is the sequence of system calls it is      *)
(* about to make, one step each; printFF makes one call per character.     *)
(* A text of any length is one character here, a word of a command line    *)
(* too: which command a line spells is not told apart, only whether it is  *)
(* empty and whether it begins with '&'.                                   *)
(***************************************************************************)
EXTENDS Console

CONSTANTS
    PromptLength,  \* of "shell>": 6
    LineSize       \* BUFFERSIZE of SHELL/stdio.h: 100

ASSUME ShellAssumption == PromptLength \in 0 .. WIDTH - 1 /\ LineSize \in Nat \ {0}

VARIABLES
    program,    \* what the process in the foreground runs
    calls,      \* the calls its main thread has still to make
    thread,     \* those of the thread of a command with '&', one at a time
    string,     \* what scanFF has stored of the line
    cleared     \* history: clear put the cursor left of the area of the module

shellVars == <<program, calls, thread, string, cleared>>
cVars == <<consoleVars, shellVars>>

-----------------------------------------------------------------------------
(* The programs.                                                           *)

write(c) == <<"write", c>>
environment(f) == <<"environment", f>>
getchar == <<"getchar">>
scanFF == <<"scanFF">>
while1 == <<"while1">>

\* Text and a line feed: help, ls, man, ps and the three error messages.
Message == <<write("m"), write("\n")>>

\* One iteration of the shell's main, up to the line.
Prompt ==
    <<write("\n"), environment(0)>> \o [k \in 1 .. PromptLength |-> write(">")]
        \o <<environment(PromptLength), scanFF>>

main(p) ==
    CASE p = "shell" -> Prompt
      [] p = "editor" -> <<<<"clear">>>> \o Message \o <<getchar>>
      [] p = "fortune" -> <<write("m"), scanFF>>

\* What parser and asyncParser share: what a thread may do as well, and run().  The
\* first command is a kill of some other process.
Commands == {<<>>, Message, <<<<"clear">>>>, <<<<"echo", TRUE>>>>, <<<<"echo", FALSE>>>>,
             <<<<"kill">>>>, <<while1>>}

\* A program that is not there gets an error message; whatever run() comes back to, it
\* turns the echo on.
run == {<<<<"run", p>>>> : p \in {"editor", "fortune"}} \cup {Message \o <<<<"echo", TRUE>>>>}

\* A word that names no command, and the empty line, get an error message.
parser(line) ==
    IF line = <<>> THEN {Message}
    ELSE IF line[1] # "&" THEN Commands \cup run
    ELSE IF Len(line) = 1 \/ thread # <<>> THEN {Message}
    ELSE {Message} \cup run \cup {<<<<"thread", c>>>> : c \in Commands}

\* What a program does with the line; overflow says that scanFF returned 1.
After(line, overflow) ==
    CASE program = "shell" /\ overflow -> {<<write("\n"), write("m")>> \o Prompt}
      [] program = "shell" /\ ~ overflow ->
             {<<environment(0)>> \o c \o Prompt : c \in parser(line)}
      [] program = "editor" ->
             {<<getchar>>} \cup IF line = <<>> \/ overflow THEN {}
                                ELSE {<<<<"clear">>, <<"run", "shell">>>>}
      [] program = "fortune" ->
             IF overflow THEN {<<write("\n"), write("m")>>} ELSE {<<write("m")>>}

-----------------------------------------------------------------------------
ShellInit ==
    /\ ConsoleInit
    /\ program = "shell" /\ calls = main("shell")
    /\ thread = <<>> /\ string = <<>> /\ cleared = FALSE

\* The process goes, with its threads; a new one takes its place.
Replaced(p) ==
    /\ program' = p /\ calls' = main(p)
    /\ thread' = <<>> /\ string' = <<>>
    /\ UNCHANGED cleared

\* The calls on the screen, whichever thread makes them.
screenCall(call) ==
    /\ \/ call[1] = "write" /\ sys_call_write(call[2]) /\ UNCHANGED cleared
       \/ call[1] = "echo" /\ sys_call_echo(call[2]) /\ UNCHANGED cleared
       \/ call[1] = "clear" /\ sys_call_clear /\ cleared' = (screen.iStart > 0)
       \/ /\ call[1] = "environment"
          /\ sys_call_changeModuleEnvironment(call[2], TOP + 1) /\ cleared' = FALSE
    /\ UNCHANGED inputVars

\* kill of the shell's own pid: the screen and the ring stay as they are.
killProcess ==
    /\ calls' = <<>> /\ thread' = <<>> /\ string' = <<>>
    /\ UNCHANGED <<program, cleared, consoleVars>>

Next1(op) == calls # <<>> /\ Head(calls)[1] = op

mainScreenCall ==
    /\ calls # <<>> /\ screenCall(Head(calls))
    /\ calls' = Tail(calls)
    /\ UNCHANGED <<program, thread, string>>

mainKill == Next1("kill") /\ killProcess

createThread ==
    /\ Next1("thread")
    /\ thread' = Head(calls)[2] /\ calls' = Tail(calls)
    /\ UNCHANGED <<program, string, cleared, consoleVars>>

sys_call_run ==
    /\ Next1("run")
    /\ resetBuffer
    /\ Replaced(Head(calls)[2])
    /\ UNCHANGED inputVars

\* The editor drops what it reads until a '%'.
editorGetchar ==
    /\ Next1("getchar")
    /\ \E c \in {ring.buffer[ring.consume]} :
          /\ getTerminalBuffer(c)
          /\ calls' = IF c = "%" THEN <<scanFF>> ELSE calls
    /\ UNCHANGED <<program, thread, string, cleared, inputVars>>

\* One character of scanFF("%s").
scan ==
    /\ Next1("scanFF")
    /\ \E c \in {ring.buffer[ring.consume]} :
          LET full == Len(string) = LineSize
              ends == c = "\n" \/ (c # Backspace /\ full)
          IN /\ getTerminalBuffer(c)
             /\ string' = CASE ends -> <<>>
                            [] ~ ends /\ c = Backspace -> SubSeq(string, 1, Len(string) - 1)
                            [] ~ ends /\ c # Backspace -> Append(string, c)
             /\ IF ends THEN calls' \in After(string, full) ELSE UNCHANGED calls
    /\ UNCHANGED <<program, thread, cleared, inputVars>>

threadScreenCall ==
    /\ thread # <<>> /\ screenCall(Head(thread))
    /\ thread' = Tail(thread)
    /\ UNCHANGED <<program, calls, string>>

threadKill == thread # <<>> /\ Head(thread)[1] = "kill" /\ killProcess

Restart == restartSHELL /\ Replaced("shell")

Programs == \/ mainScreenCall \/ mainKill \/ createThread \/ sys_call_run
            \/ editorGetchar \/ scan
Interrupts == capsLock \/ shiftKey \/ characterKey \/ mouseHandler \/ paste

ShellNext ==
    \/ Programs
    \/ threadScreenCall \/ threadKill
    \/ Interrupts /\ UNCHANGED shellVars
    \/ Restart

\* The scheduler gives the process in the foreground its turns (ReadyRuns of Scheduler);
\* nothing is assumed of the background thread or of an interrupted paste.
ShellSpec == ShellInit /\ [][ShellNext]_cVars /\ WF_cVars(Programs)

-----------------------------------------------------------------------------
\* The ring, the cursor and the line stay within their bounds.
ShellTypeOK ==
    /\ ring.consume \in 0 .. BUFFERSIZE - 1 /\ ring.position \in 0 .. BUFFERSIZE - 1
    /\ Len(string) <= LineSize
    /\ mouse.lit \subseteq Cells /\ screen.iStart \in 0 .. WIDTH
    /\ screen.jStart \in TOP .. HEIGHT /\ DOMAIN screen.video = Cells
    /\ program \in {"shell", "editor", "fortune"}

\* What a reader will get from the ring (terminal.c:89-108) is what was put in it and
\* not read, in order, unless the ring filled up while its reader was at the start.
TerminalInOrder ==
    LET unreadInRing == [k \in 1 .. (ring.position - ring.consume) % BUFFERSIZE |->
                            ring.buffer[(ring.consume + k - 1) % BUFFERSIZE]]
    IN lost \/ unreadInRing = unread

\* A line with its backspaces carried out.
Edit(line, c) == IF c = Backspace THEN SubSeq(line, 1, Len(line) - 1) ELSE Append(line, c)

Edited(s) ==
    LET edited[n \in 0 .. Len(s)] == IF n = 0 THEN <<>> ELSE Edit(edited[n - 1], s[n])
    IN edited[Len(s)]

\* What row j of the screen shows from the end of the prompt to the cursor.
Row(s) == [k \in 1 .. s.i - s.iStart |-> s.video[Cell(s.j, s.iStart + k - 1)]]

\* The keyboard interrupt edits the row (terminal.c:67-80), scanFF the line
\* (SHELL/stdio.c:154-169), at different times: what the row shows between the prompt
\* and the cursor is the line the shell will have once it has read the ring.
LineShown ==
    clean /\ calls # <<>> /\ Head(calls) = scanFF =>
        Edited(string \o unread) = Row(screen)

\* The cursor stays on the screen, and right of the prompt whatever is erased
\* (video.c:171-181), unless the clear of a background thread moved it left of it.
CursorInArea ==
    /\ ShellTypeOK
    /\ screen.j \in TOP .. HEIGHT - 1 /\ screen.i < WIDTH
    /\ screen.i >= screen.iStart \/ cleared

\* A selection that ended leaves nothing highlighted but the pointer, and one that goes
\* on nothing outside its range (mouse.c:130-169, 197-200).
NoTrail ==
    mouse.lit \subseteq {Pointer(mouse)} \cup IF mouse.selecting THEN Selected(mouse) ELSE {}

NobodyReads == calls = <<>> \/ Head(calls) = while1

\* What is typed or pasted is read (SHELL/stdio.c:16-24 tries again), unless the program
\* ended or loops.
CharactersAreRead ==
    unread # <<>> ~> (unread = <<>> \/ lost \/ NobodyReads)

-----------------------------------------------------------------------------
(* The inductive invariant of the properties above.                        *)

\* What the screen, the ring and the line can hold.
KeyCharacters == UNION {{key[k] : k \in 1 .. 4} : key \in Keys}
Characters == {" ", "m", ">", "\n"} \cup KeyCharacters

\* A cursor that clear moved out of the area goes left of the screen with a backspace.
Screens == [i : {n \in Int : n < WIDTH}, j : TOP .. HEIGHT - 1, iStart : 0 .. WIDTH - 1,
            jStart : TOP .. HEIGHT, video : [Cells -> Characters]]

Mice == [x : 0 .. WIDTH - 1, y : 0 .. HEIGHT - 1, init : Cells, fin : Cells,
         selecting : BOOLEAN, flag : BOOLEAN, copied : Seq(Characters), lit : SUBSET Cells]

Rings == [buffer : [0 .. BUFFERSIZE - 1 -> Characters], consume : 0 .. BUFFERSIZE - 1,
          position : 0 .. BUFFERSIZE - 1, isEcho : BOOLEAN]

\* The calls a thread may have to make, and those of a program.
ThreadCalls ==
    {write(c) : c \in {"m", "\n", ">"}} \cup {<<"echo", on>> : on \in BOOLEAN}
        \cup {<<"clear">>, <<"kill">>, while1}

MainCalls(p) ==
    ThreadCalls \cup {<<"run", q>> : q \in {"shell", "editor", "fortune"}} \cup {scanFF}
        \cup (IF p = "shell" THEN {environment(f) : f \in {0, PromptLength}}
                                      \cup {<<"thread", c>> : c \in Commands}
              ELSE IF p = "editor" THEN {getchar} ELSE {})

\* The ring is a queue; it may have wrapped around.
RingHolds ==
    lost \/ /\ Len(unread) < BUFFERSIZE
            /\ ring.position = (ring.consume + Len(unread)) % BUFFERSIZE
            /\ \A k \in 1 .. Len(unread) :
                  ring.buffer[(ring.consume + k - 1) % BUFFERSIZE] = unread[k]

TerminalInv ==
    /\ screen \in Screens /\ ring \in Rings
    /\ unread \in Seq(Characters) /\ lost \in BOOLEAN /\ clean \in BOOLEAN
    /\ RingHolds

\* A paste is the work of a packet, which its handler has still to end.
MouseInv ==
    /\ mouse \in Mice /\ shift \in BOOLEAN /\ caps \in BOOLEAN
    /\ pasting \in Seq(Characters) /\ packet \in {<<>>} \cup {<<p>> : p \in Packets}
    /\ pasting # <<>> => packet # <<>>
    /\ NoTrail

\* Part of a line is stored only in the middle of scanFF, and without backspaces.
ProgramInv ==
    /\ program \in {"shell", "editor", "fortune"}
    /\ calls \in Seq(MainCalls(program)) /\ thread \in Seq(ThreadCalls)
    /\ string \in Seq(Characters) /\ Len(string) <= LineSize
    /\ \A k \in 1 .. Len(string) : string[k] # Backspace
    /\ string # <<>> => calls # <<>> /\ Head(calls) = scanFF

\* While the shell's line is the only thing on its row, nothing was lost of it, it was
\* echoed and the cursor is where it was put.
CursorInv ==
    /\ cleared \in BOOLEAN
    /\ screen.i >= screen.iStart \/ cleared
    /\ clean => ~ lost /\ ring.isEcho /\ ~ cleared /\ program = "shell"

\* LineShown while a command with '&' starts its thread, too: the next line may begin
\* before the call that reads it.
LineInv ==
    clean /\ calls # <<>> /\ Head(calls)[1] \in {"scanFF", "thread"} =>
        Edited(string \o unread) = Row(screen)

ShellInv == TerminalInv /\ MouseInv /\ ProgramInv /\ CursorInv /\ LineInv
=============================================================================
