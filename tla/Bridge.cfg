CONSTANTS
    HWM = 2
    Burst = 2
    NChunks = 4
    NText = 1
SPECIFICATION FairSpec
INVARIANT TypeOK
INVARIANT TcpBufBounded
INVARIANT WsBufBounded
PROPERTY ForwardedToStream
PROPERTY ForwardedToChannel
CHECK_DEADLOCK FALSE
