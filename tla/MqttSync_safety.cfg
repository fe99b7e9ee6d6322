SPECIFICATION FairSpec
CONSTANTS
    TopicCount = 1
    MAX_MESSAGE_HANDLERS = 2
    MAX_PACKET_ID = 3
    MaxConnects = 2
    MaxPublishes = 2
    MaxMessages = 2
INVARIANTS
    TypeOK
    AcksAnswerMessages
    NoMoreSuccessesThanAcks
    AckedWasHandled
    AnswersSettle
PROPERTY
    CommandsReturn
