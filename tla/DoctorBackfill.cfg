SPECIFICATION ConfigSpec
CONSTANTS
    MaxEdits = 3
    MaxCommands = 2
    ShellValues <- MCShells
INVARIANTS
    ShellFillsTheGap
CHECK_DEADLOCK FALSE
