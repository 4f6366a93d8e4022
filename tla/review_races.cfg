CONSTANTS
    Handlers = {h1, h2}
    Authors = {a1, a2, a3}
    Ratings = {1, 4}
SPECIFICATION Spec
SYMMETRY HandlerSymmetry
INVARIANT ReviewInv
INVARIANT UndisturbedWriteRepairs
