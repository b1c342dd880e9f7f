CONSTANTS
    c1 = c1
    c2 = c2
    Clients <- TwoClients
    Capacity = 1
    WhenFull = "Block"
    MaxEvents = 4
SPECIFICATION FairSpec
PROPERTIES
    DrainMeansDelivered
    OnlyHandlersExceedCapacity
    ImplementsContract
    NobodySleepsForever
