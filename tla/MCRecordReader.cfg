SPECIFICATION Spec
CONSTANTS
    Streams <- MCStreams
    HeaderLength = 2
    TagLength = 1
    MessageHeader = 2
    BodyLength <- MCBodyLength
    LargeFragment = 7
    MinGrowth = 1
    Sizes = {1, 3}
    MultiRecord = TRUE
INVARIANTS
    ContentIntact ViewIntact
PROPERTY AllReceived
