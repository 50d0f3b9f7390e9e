\* The binary form of all messages, streams of blocks, and both messengers
CONSTANTS
    FragBits = 4
    DelayBits = 6
    MinFragment = 3
    MaxFragment = 5
    MaxUdpMessage = 12
    MinDelay = 1
    DelayRatio = 4
    Settings <- MCSettings
    Makeable <- MCMakeable
    MaxMade = 2
    MaxInbox = 2
    Streams <- MCStreams
    BfrSize = 40
    Scopes = {"codec", "stream", "delays", "mixed", "small", "large", "live"}
    LiveScopes = {"live"}
    MaxRestarts = 1
SPECIFICATION MCSpec
INVARIANTS
    SamplesRoundTrip
    StreamIsParsed
    DeliveryCorrect
PROPERTIES
    Acknowledged
CHECK_DEADLOCK FALSE
