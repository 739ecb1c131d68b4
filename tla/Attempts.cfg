SPECIFICATION PartsSpec
CONSTANTS
    Requests = {a}
    Timer = timer
    MaxRows = 2
    MaxAttempts = 2
    MaxListed = 4
    MaxTime = 2
    RowOf <- OneRow
    Mismatched = {1}
    HasHub = TRUE
    Handlers = {"webhook", "createCheckout", "reconcile"}
    Crashes = FALSE
INVARIANTS
    PaidImpliesMoneyMoved
    StatusesAgree
    BestIsAuthoritative
CHECK_DEADLOCK FALSE
