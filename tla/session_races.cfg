CONSTANTS
    Handlers = {h1, h2, h3}
    MaxTokens = 3
    MaxVersion = 3
    Ops <- AllOps
SPECIFICATION Spec
SYMMETRY HandlerSymmetry
INVARIANT SessionsAreFresh
INVARIANT ReplayKillsFamily
INVARIANT NoSessionWhileBlocked
INVARIANT SessionInv
PROPERTY KeepsSessionPromise
CHECK_DEADLOCK FALSE
