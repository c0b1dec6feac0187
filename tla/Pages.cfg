SPECIFICATION Spec
CONSTANTS
    MaxDelay = 4
    MaxNet = 1
    None = None
INVARIANTS
    TypeOK NeverBack CatchesUp Settles
