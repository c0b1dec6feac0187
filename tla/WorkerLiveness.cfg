SPECIFICATION FairSpec
CONSTANTS
    NumAgencies = 5
    AgencyTime = 2
    PollEvery = 3
    CheckEvery = 6
    StallExit = 36
INVARIANTS
    TypeOK OutageDoesNotRestart StuckWorkerEnds
PROPERTIES
    LoopEndsOrRestarts
