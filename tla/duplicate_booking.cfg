CONSTANTS
    Handlers = {h1, h2}
    MaxBookings = 2
    Ops = {"list"}
SPECIFICATION Spec
SYMMETRY HandlerSymmetry
INVARIANT OnePendingPerSlot
CHECK_DEADLOCK FALSE
