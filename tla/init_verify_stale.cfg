SPECIFICATION Spec
CONSTANTS
    NChips = 2
    Mask = 96
    Fitted <- MCFitted
    StartSsr <- MCStart
    MaxFaults = 2
    MaxFaultsMixed = 2
PROPERTIES
    VerifiedMeansConfigured
\* bnt_init returns and nothing follows in this specification.
CHECK_DEADLOCK FALSE
