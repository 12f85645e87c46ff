SPECIFICATION Spec
CONSTANTS
    NChips = 2
    Mask = 96
    Fitted <- MCFitted
    StartSsr <- MCStart
    MaxFaults = 7
    MaxFaultsMixed = 2
INVARIANTS
    TypeOK
    ConfiguredAtReturn
    CleanReturn
    RetryMeansFault
PROPERTIES
    Termination
    ImplementsContract
\* bnt_init returns and nothing follows in this specification.
CHECK_DEADLOCK FALSE
