SPECIFICATION Spec
CONSTANTS
    Blank = Blank
    Malformed = Malformed
    Null = Null
    NoLookup = NoLookup
    LastDate = 8
    r1 = r1
    r2 = r2
    service = service
    h1 = h1
    h2 = h2
    shape = shape
    StopCases <- MCStopCases
    RouteCases <- MCRouteCases
    DayCases <- MCDayCases
    AlertCases <- MCAlertCases
    Names = {1, 2}
    PageSize = 2
    Centre = 0
    Radius = 1
    Around = 4
    Starts <- MCStarts
    Durations = {1, 4}
    Moments = {5, 6, 7}
INVARIANTS
    MergedStopShowsAll
CHECK_DEADLOCK FALSE
