SPECIFICATION Spec
CONSTANTS
    c1 = c1
    c2 = c2
    s = s
    Client <- MCClient
    Subject = {s}
    Limit = {1, 2}
    MaxFeed = 1
    ComputeTime = 1
    None = None
INVARIANTS
    TypeOK BoundedStaleness NotFoundIsTrue AnswersItsRequest
SYMMETRY Symmetry
