\* Two clients, four nodes: the reserve and one array can be full, then
\* the other client has to fail.  A client clears what it puts back or not,
\* and smalloc may fail in resize_mp.
SPECIFICATION Spec
CONSTANTS
    Client = {c1, c2}
    Node = {n1, n2, n3, n4}
    MaxLevel = 2
    MaxNodes = 2
    NullNode = NullNode
    NoClient = NoClient
SYMMETRY Interchangeable
CONSTRAINT NotStrayed
INVARIANTS
    TypeOK
    OwnedUnlessStrayed
    ReserveWithinLevel
    ShortOnlyWithoutMemory
PROPERTIES
    FailedGetKeepsReserve
