SPECIFICATION Spec
CONSTANTS
    w1 = w1  w2 = w2
    c1 = c1  c2 = c2  c3 = c3
    Worker = {w1, w2}
    Conn = {c1, c3}
    PoolOf <- MCPoolOf
    Feed <- MCFeed
    NumTables = 2
    CoreTables = {1}
    Calendars = {2}
    Row <- MCRow
    Key <- MCKey
    Rows <- MCRows
    Staged <- MCStaged
    NoConn = NoConn
    NoFeed = NoFeed
    MaxVersion = 1
    MaxLockDepth = 2
INVARIANTS
    TypeOK LoadInv WholeFeed CheckStillHolds
PROPERTIES
    ImplementsAgencyData
