SPECIFICATION FairSpec
CONSTANTS
    r1 = r1
    r2 = r2
    Requests = {r1, r2}
    MaxSignals = 2
CHECK_DEADLOCK FALSE
INVARIANTS TypeOK DrainedBeforeExit InternalOutlivesPublic ExitTellsWhy OneSignalIsGraceful OnlyRequestsHoldUp
PROPERTIES SignalEndsProcess EndComesCloser ImplementsGraceful
