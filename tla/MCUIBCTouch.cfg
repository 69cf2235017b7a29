CONSTANTS
    Clients = {c1, c2}
    MaxPackets = 2
SPECIFICATION Spec
INVARIANTS TouchesInOrder PressHasOwner
PROPERTY LoopGivesWay
