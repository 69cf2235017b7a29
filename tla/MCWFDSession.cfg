CONSTANTS
    MaxRequests <- PlaysTwice
    MaxCSeq = 7
    AnswersAfterTeardown = TRUE
SPECIFICATION Spec
INVARIANTS
    TypeOK
    MatchedAnswers
    PendingExact
    ChannelGoneIsFinal
    StaysTornDown
    KeepaliveAlive
PROPERTIES
    RequestsHaveReader
