CONSTANTS
    Handlers = {h1, h2}
    MaxPayments = 1
    MaxRequests = 1
    Price = 1
    Shares = {1}
    MaxSent = 2
    Ops = {"update", "checkout", "callback", "apply", "decide", "retry"}
    Targets <- AllTargets
    Outcomes = {"done", "refused"}
    BankIds = {TRUE, FALSE}
    InitialBookings = {"PENDING"}
SPECIFICATION FairSpec
PROPERTY EveryRequestEnds
PROPERTY LateMoneyIsHandled
CHECK_DEADLOCK FALSE
