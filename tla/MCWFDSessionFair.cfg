CONSTANTS
    MaxRequests <- OneOfEach
    MaxCSeq = 5
    AnswersAfterTeardown = TRUE
SPECIFICATION FairSpec
PROPERTIES
    SinkCloseEndsSession
    TeardownCompletes
    ImplementsCast
