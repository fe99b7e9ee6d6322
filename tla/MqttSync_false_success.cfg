SPECIFICATION Spec
CONSTANTS
    TopicCount = 1
    MAX_MESSAGE_HANDLERS = 2
    MAX_PACKET_ID = 3
    MaxConnects = 1
    MaxPublishes = 2
    MaxMessages = 1
INVARIANT
    SuccessMeansAccepted
