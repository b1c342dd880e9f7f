CONSTANTS
    t1 = t1
    t2 = t2
    Callers <- MCCallers
    EventTypes <- MCEventTypes
    MaxId <- MCMaxId
SPECIFICATION RegistrySpec
SYMMETRY ThreadSymmetry
INVARIANTS
    ErasingRemoveIsBarrier
    ServedInOrder
PROPERTIES
    NoneBegins
