CONSTANTS
    Handlers = {h1, h2}
    MaxPayments = 1
    MaxRequests = 0
    Price = 2
    Shares = {2}
    MaxSent = 4
    Ops = {"update", "checkout", "callback"}
    Targets = {"CONFIRMED", "PENDING"}
    Outcomes = {"done"}
    BankIds = {TRUE}
    InitialBookings = {"PENDING"}
SPECIFICATION Spec
SYMMETRY HandlerSymmetry
INVARIANT SettledNeverPending
CHECK_DEADLOCK FALSE
