SPECIFICATION Spec
CONSTANTS
    None = None
    Run <- MCRun
    Trip <- MCTrip
    Date <- MCDate
    NewId <- MCNewId
    Timetable <- MCTimetable
    Line <- MCLine
    DayStart <- MCDayStart
    InService <- MCInService
    Platform <- MCPlatform
    ParentOf <- MCParentOf
    BoardStops = {"P"}
    Stations = {"S"}
    Subway = {"red"}
    ReconcileWindow = 2
    Plans <- MCPlans
    After = {None, 3}
    Grace = 1
    LateWindow = 4
    Limit = 3
    NearbyLate = 1
    NearbyUpcoming = 2
    Ttl = 2
    Horizon = 5
INVARIANTS
    TypeOK TrackedTrains TrueDelay NoGhosts NotTwice ScheduledShown
