CONSTANTS
    Handlers = {h1, h2, h3}
    MaxCodes = 3
    Subs = {g1, g2}
    Ops <- AllOps
SPECIFICATION Spec
SYMMETRY SymmetricIds
INVARIANT CodesInv
INVARIANT GoogleStaysPasswordless
PROPERTY OneAccount
PROPERTY AnsweredCodeIsDead
CHECK_DEADLOCK FALSE
