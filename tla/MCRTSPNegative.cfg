CONSTANTS
    Wires <- One
    BodyLength = 3
    Deficit = 99
SPECIFICATION Spec
PROPERTY LoopGoesOn
