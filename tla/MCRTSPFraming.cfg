CONSTANTS
    Wires <- UpToThree
    BodyLength = 3
    Deficit = 9
SPECIFICATION Spec
INVARIANTS TypeOK DispatchedAsSent InStepAfterNext
PROPERTY AllDispatched
