SPECIFICATION Spec
CONSTANTS
    Clients = {m1, m2}
    MaxAttempts = 2
INVARIANTS TypeOK NoMissedState GroupTakenDown BoundDistinct CastReachesOne
PROPERTIES SinkGetsLease
