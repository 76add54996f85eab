\* Two lists and three entries: an entry has neighbours on both sides.  Keys and
\* heights up to four, so that a node is taller or lower than the list was before.
\* Messages of up to 9 bytes: two blocks and a rest, two words from any address,
\* and a counter whose low word wraps twice.  One thread allocates before and after
\* it enables thread safety, two others after that; sizes that need padding and
\* sizes that do not.
SPECIFICATION UtilSpec
CONSTANTS
    Lists = {g, h}
    Entries = {e1, e2, e3}
    Null = Null
    Nodes = {n1, n2}
    Key = {1, 2, 3}
    MaxLevel = 4
    SklHead = SklHead
    NULL = NULL
    MaxFailed = 1
    Garbage = {0, 7}
    Byte <- TwoBytes
    MaxMessage = 9
    Block = 4
    WordSize = 32
    Main = main
    Thread = {main, t1, t2}
    Blocks = {b1, b2, b3}
    Sizes = {0, 1, 3, 4}
    Word = 2
    Modulus = 64
    StartsEarly = FALSE
SYMMETRY Interchangeable
INVARIANTS
    RingsClosed
    WalkSafe
    TestsTellTheList
    CountsExact
    CrcOfMessage
    BlocksOfMessage
    DigestOfPadded
    UsedExact
    NeverWraps
PROPERTIES
    ActsOnSequences
    EmptyTakesInserts
