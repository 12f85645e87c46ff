SPECIFICATION Spec
CONSTANTS
    NLines = 2
    Commands <- MCCommands
    StartAttrs <- MCStartAttrs
    MaxCommands = 3
    MaxEdges = 3
    MaxTimeouts = 1
INVARIANTS
    TypeOK
    RetryWorks
    DisableCleans
PROPERTIES
    ReportsExactly
    PollWakes
\* MaxCommands commands are over, or poll waits for an interrupt.
CHECK_DEADLOCK FALSE
