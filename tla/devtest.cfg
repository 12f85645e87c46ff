SPECIFICATION Spec
CONSTANTS
    Fitted <- MCFitted
    Nodes = {0, 2}
    Regs <- MCRegs
    Defects <- MCDefects
    Options <- MCOptions
    MaxLost = 6
INVARIANTS
    TypeOK
    DefectiveFails
    AllTested
PROPERTIES
    VerifiedIsHeld
    NoFalseAlarm
\* bnt_devtest ends.
CHECK_DEADLOCK FALSE
