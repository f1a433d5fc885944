CONSTANTS
    u1 = u1
    Users <- MC_Users
    MaxQueue = 2
    MaxHandlers = 3

SPECIFICATION Spec

INVARIANT TypeOK
PROPERTY PresenceRestored
PROPERTY SeesItself
