CONSTANTS
    b1 = b1
    b2 = b2
    NoBoard = NoBoard
    Boards = {b1, b2}
    Commands = {"ssh"}
    PortLow = 6654
    PortHigh = 6655
    RestPort = 6655
    Variants = {"lib"}
    MaxReqs = 1
    MaxOpens = 2
SPECIFICATION Spec
INVARIANT FacadeStaysUp
