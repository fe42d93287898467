CONSTANTS
    WIDTH = 4
    HEIGHT = 3
    TOP = 1
    BUFFERSIZE = 3
    Keys <- SmallKeys
    Packets <- SmallPackets
    MaxInputs = 5
    PromptLength = 1
    LineSize = 3
SPECIFICATION ShellSpec
INVARIANTS TerminalInOrder LineShown CursorInArea NoTrail
PROPERTY CharactersAreRead
CHECK_DEADLOCK FALSE
