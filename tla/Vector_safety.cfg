\* Two threads share a vector made for one or two elements, which grows once to
\* three or five and is exported with up to two.
SPECIFICATION Spec
CONSTANTS
    Thread = {t1, t2}
    a = a
    b = b
    Elem <- TwoAlike
    InitLens = {0, 2}
    DftLen = 1
    AlignMask = 1
    Expand = 3
    MaxUsed = 6
    MaxPack = 2
    NoThread = NoThread
    NoPack = NoPack
INVARIANTS
    TypeOK
    FoundStaysValid
PROPERTIES
    ImplementsOrderedList
