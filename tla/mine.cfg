SPECIFICATION Spec
CONSTANTS
    FPGA = TRUE
    MidSize = 4
    Open = {0, 1}
    NChips = 4
    Mask = 112
    Fitted <- MCFitted
    NJobs = 3
    HeaderNonce <- MCHeaderNonce
    HashLen = 5
    DoubleHash <- MCDoubleHash
    Target <- MCTarget
    Past <- MCPast
    Reports <- MCReports
    WorkIds = 3
    Rounds = 1
    Builds = {FALSE, TRUE}
    MaxLost = 2
    Samples <- MCSamples
INVARIANTS
    TypeOK
    AcceptedIsGood
    NoMissedResult
    WorkIdTellsJobs
    ComparesNumbers
    CorrectionPermutes
PROPERTIES
    AllJobsEnd
    ImplementsContract
\* The program ends after the last header.
CHECK_DEADLOCK FALSE
