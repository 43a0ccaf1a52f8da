SPECIFICATION GateSpec
CONSTANTS
    a = a  b = b
    NoCursor = NoCursor  Opaque = Opaque
    Conv = {a, b}
    Folders <- ThreeFolders
    Listing <- OneByOne
    Limit = 1
    MaxPages = 2
INVARIANTS
    CompleteIsTraversed
    SuccessIsStored
    CompleteIsAccounted
PROPERTY
    SyncReturns
