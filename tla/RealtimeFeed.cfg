SPECIFICATION Spec
CONSTANTS
    Poll = {p1, p2}
    Stamp = {1, 2, 3, 5, 9}
    NoStamp = NoStamp
    Nothing = Nothing
    MaxAge = 2
    MaxFuture = 1
    Ttl <- MCTtl
    FeedTsTtl = 4
    MaxPoll = 2
    Horizon = 8
INVARIANTS
    TypeOK OneFeedInRedis ServedAge NotBlocked
PROPERTIES
    NoStaleOverwrite
