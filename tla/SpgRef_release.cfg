\* Two references, put one after the other.
SPECIFICATION Spec
CONSTANTS
    Reference = {r1, r2}
SYMMETRY Interchangeable
INVARIANTS
    ReleasedByLast
