CONSTANTS
    Handlers = {h1, h2, h3}
    MaxPayments = 1
    MaxRequests = 2
    Price = 3
    Shares = {0, 1, 2, 3}
    MaxSent = 6
    Ops = {"update", "apply", "decide", "checkout", "crash"}
    Targets = {"COMPLETED", "CANCELLED"}
    Outcomes = {"done", "refused", "lost"}
    BankIds = {TRUE}
    InitialBookings = {"PENDING", "PAID", "CONFIRMED"}
    Categories = {"CHANGE_OF_PLANS", "BEREAVEMENT"}
    Overrides = {10, 100}
    DayMarks = {30, 15, 0}
SPECIFICATION PolicySpec
SYMMETRY HandlerSymmetry
INVARIANT PolicyInv
INVARIANT NeverOverReturned
INVARIANT LockedInAtSubmission
INVARIANT TierIsTheLimit
INVARIANT ApprovedToThePaisa
INVARIANT ReturnsWhatWasApproved
CHECK_DEADLOCK FALSE
