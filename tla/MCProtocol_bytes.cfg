CONSTANTS
    MaxMessages = 2
    Byte <- MCByte
    Zero <- MCZero
    Scripts <- MCScripts
    Envelope <- MCEnvelope
    Resources <- MCResources
    is_et = TRUE
    InitSize = 4
    Radix = 4
    kHeaderSize = 2
    kMaxMessageSize = 2
    WriteLimit = 2
SPECIFICATION FairSpec
INVARIANTS FramesAsSent RequestsAsSent SentInOrder ClosedAsAnnounced
PROPERTIES AnswerArrives
CHECK_DEADLOCK FALSE
