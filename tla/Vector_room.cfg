\* One thread fills a vector made for one or two elements; a second growth is due
\* at the fifth.
SPECIFICATION Spec
CONSTANTS
    Thread = {t1}
    a = a
    b = b
    Elem <- TwoAlike
    InitLens = {0, 2}
    DftLen = 1
    AlignMask = 1
    Expand = 3
    MaxUsed = 6
    MaxPack = 2
    NoThread = NoThread
    NoPack = NoPack
INVARIANTS
    RoomSuffices
