CONSTANTS
    Handlers = {h1, h2}
    MaxPayments = 2
    MaxRequests = 2
    Price = 2
    Shares = {0, 1, 2}
    MaxSent = 3
    Ops = {"update", "checkout", "callback", "apply", "decide", "retry"}
    Targets <- AllTargets
    Outcomes = {"done", "refused", "lost"}
    BankIds = {TRUE, FALSE}
    InitialBookings = {"PENDING"}
SPECIFICATION Spec
SYMMETRY HandlerSymmetry
INVARIANT NoForgottenMoney
INVARIANT ShortfallIsVisible
PROPERTY TerminalBookings
PROPERTY OnlyOvertakenRevertsExpose
CHECK_DEADLOCK FALSE
