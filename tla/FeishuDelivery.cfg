SPECIFICATION Spec
CONSTANTS
    d1 = d1
    d2 = d2
    d3 = d3
    d4 = d4
    m1 = m1
    m2 = m2
    None = None
    Buffer = 1
    MaxStops = 1
    Deliveries <- MCDeliveries
    Messages <- MCMessages
    MessageOf <- MCMessageOf
INVARIANTS
    AdmissionIsSound
    AcknowledgedIsNotLost
PROPERTIES
    AtMostOnce
    ShutdownEnds
CHECK_DEADLOCK FALSE
