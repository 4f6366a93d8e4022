CONSTANTS
    Handlers = {h1, h2}
    MaxBookings = 2
    Ops <- AllOps
    Viewers = {"user", "agent", "rival"}
    PageSizes = {1, 2}
SPECIFICATION ReportsSpec
SYMMETRY HandlerSymmetry
INVARIANT ReadingInv
INVARIANT FiguresAddUp
INVARIANT NothingOfOthers
INVARIANT WalkMissesNothing
PROPERTY RecentCheckoutSurvives
CHECK_DEADLOCK FALSE
