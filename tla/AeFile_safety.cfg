\* Three descriptors, of which a table of one or two slots takes the first, and
\* two handlers: resizing, and what handlers do to events that still wait.
SPECIFICATION FileSpec
CONSTANTS
    MaxFds = 3
    SetSizes = {1, 2}
    Proc = {common, own}
    Garbage = {"garbage"}
    NotIn = {"notin"}
SYMMETRY Interchangeable
INVARIANTS
    FileTypeOK
    KernelAgrees
    MaxfdExact
    SlotsInTable
PROPERTIES
    CallsOpenConnection
