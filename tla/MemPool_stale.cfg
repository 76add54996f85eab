\* One client that need not clear its array: three nodes are enough for a
\* node put back earlier to lie behind a get that fails.
SPECIFICATION Spec
CONSTANTS
    Client = {c1}
    Node = {n1, n2, n3}
    MaxLevel = 2
    MaxNodes = 2
    NullNode = NullNode
    NoClient = NoClient
INVARIANT
    Ownership
