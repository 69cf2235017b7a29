SPECIFICATION Spec
INVARIANTS
    TypeOK
    UpGroupKnown
PROPERTIES
    AttemptsEnd
