SPECIFICATION FairSpec
CONSTANTS
    d1 = d1  d2 = d2
    Deliveries = {d1, d2}
    Profiles <- MCProfiles
    Slots = 1
    Attempts = 2
    MaxTrouble <- MCTrouble
INVARIANTS
    TypeOK
    DeliveredOnce
    LeftoversAreOfFailures
    RetriesRunOut
PROPERTIES
    DeliveriesEnd
CHECK_DEADLOCK FALSE
