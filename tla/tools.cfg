SPECIFICATION Spec
CONSTANTS
    NChips = 2
    Mask = 96
    Fitted <- MCFitted
    StartSsr <- MCStart
    Nodes = {0, 1, 3}
    Opens = {{0, 1}}
    Fasts = {FALSE}
    Commands <- MCCommands
    MaxJobs = 2
    MaxCommands = 1
    MaxLost = 1
INVARIANTS
    TypeOK
    RepairsEarlierDamage
    OldDamageIsGone
    NoInterruptLost
    
PROPERTIES
    InitReturns
    ToolEnds
\* The last header may be over and no tool running.
CHECK_DEADLOCK FALSE
