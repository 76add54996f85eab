\* Two objects of any kind on one path, which is made, removed and made again
\* twice; four chunks.
SPECIFICATION Spec
CONSTANTS
    Handle = {h1, h2}
    Inode = {i1, i2, i3}
    MaxChunks = 4
    Offsets <- EndOrBegin
    NULL = NULL
SYMMETRY Interchangeable
INVARIANTS
    TypeOK
    OpenedNeverFaults
    AppendedInOrder
PROPERTIES
    ChunksStay
