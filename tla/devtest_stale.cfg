SPECIFICATION Spec
CONSTANTS
    Fitted <- MCFitted
    Nodes = {0, 2}
    Regs <- MCRegs
    Defects <- MCDefects
    Options <- MCOptions
    MaxLost = 3
PROPERTIES
    VerifiedMeansHeld
\* bnt_devtest ends.
CHECK_DEADLOCK FALSE
