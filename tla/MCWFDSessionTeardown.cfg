CONSTANTS
    MaxRequests <- OneOfEach
    MaxCSeq = 5
    AnswersAfterTeardown = FALSE
SPECIFICATION FairSpec
PROPERTIES
    SinkTeardownEndsSession
