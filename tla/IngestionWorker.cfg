SPECIFICATION FairSpec
CONSTANTS
    NumAgencies = 2
    Feeds <- MCFeeds
    None = None
    MaxFeed <- MCMaxFeed
    MaxRestart = 1
INVARIANTS
    TypeOK LookupNotBehind
PROPERTIES
    LookupComesBack EveryAgencyHasItsTurn
