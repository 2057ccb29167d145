CONSTANTS
    b1 = b1
    b2 = b2
    NoBoard = NoBoard
    Boards = {b1, b2}
    Commands = {"ssh", "other"}
    PortLow = 6654
    PortHigh = 6655
    RestPort = 6655
    Variants = {"lib", "root"}
    MaxReqs = 2
    MaxOpens = 2
SPECIFICATION Spec
INVARIANT TypeOK
INVARIANT NoStaleWhileServing
