\* Two nodes are enough for the second insert.
SPECIFICATION SklSpec
CONSTANTS
    Nodes = {n1, n2}
    Key = {1, 2}
    MaxLevel = 2
    SklHead = SklHead
    NULL = NULL
    MaxFailed = 1
    Garbage = {0, 7}
INVARIANTS
    InsertNeverFaults
