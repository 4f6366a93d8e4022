CONSTANTS
    Handlers = {h1, h2}
    MaxPayments = 2
    MaxRequests = 1
    Price = 2
    Shares = {1, 2}
    MaxSent = 3
    Ops = {"update", "rebook", "checkout", "callback", "apply", "decide", "retry", "crash"}
    Targets <- AllTargets
    Outcomes = {"done", "refused", "lost"}
    BankIds = {TRUE}
    InitialBookings = {"PENDING"}
SPECIFICATION Spec
SYMMETRY HandlerSymmetry
INVARIANT IInv
INVARIANT PaidHasMoney
PROPERTY SettledRowsAreFinal
PROPERTY OnlyFaultsForget
PROPERTY OnlyCrashesHide
PROPERTY WedgedNeverApproved
PROPERTY KeepsPromise
CHECK_DEADLOCK FALSE
