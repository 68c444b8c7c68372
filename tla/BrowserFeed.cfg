SPECIFICATION FairSpec
CONSTANTS
    Own = {s1, s2}
    Sockets = {s1, s2, o1}
    NoSocket = NoSocket
    NoOwn = NoOwn
    SocketErrors = TRUE
    RedisFaults = TRUE
    MaxAttempts = 2
INVARIANTS
    OneActivity
    OneConnection
    MapFollowsRedis
PROPERTIES
    StaysFed
    TryingEnds
CHECK_DEADLOCK FALSE
