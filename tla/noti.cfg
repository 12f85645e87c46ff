SPECIFICATION Spec
CONSTANTS
    miner = miner
    noti1 = noti1
    noti2 = noti2
    ready = ready
    mining = mining
    mined = mined
    NoText = NoText
    Miners = {miner}
    Tools = {noti1, noti2}
    Texts = {ready, mining, mined}
    Length <- MCLength
    MaxWrites = 4
    MaxFailures = 1
INVARIANTS
    TypeOK
    BeginsWithLast
    TornTakesTwo
    EmptyHasReason
PROPERTIES
    EndsShown
    ImplementsPage
\* MaxWrites publications are over.
CHECK_DEADLOCK FALSE
