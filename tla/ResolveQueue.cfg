SPECIFICATION FairSpec
CONSTANTS
    p1 = p1  p2 = p2  c1 = c1  c2 = c2
    j1 = j1  j2 = j2  j3 = j3  j4 = j4
    NULL = NULL
    Producers <- MCProducers
    Consumers <- TwoConsumers
    Items <- MCItems
    Capacity = 2
    CancelCapacities <- MCCancelCapacities
INVARIANT TypeOK
INVARIANT ExactlyOnceInOrder
INVARIANT NoMissedWakeup
PROPERTY ImplementsChannel
PROPERTY EveryPushReturns
PROPERTY WorkerReleased
