SPECIFICATION Spec
CONSTANTS
    FPGA = TRUE
    MidSize = 4
    Layouts <- MCLayouts
    MaxFaults = 1
    Options <- MCOptions
INVARIANTS
    CountsInRange
\* main goes on to its jobs, which this specification leaves out.
CHECK_DEADLOCK FALSE
