SPECIFICATION Spec
CONSTANTS
    None = None
    Requests = {a, b}
    Orders = {1, 2}
    CheckoutPoints <- PointsAtCheckout
    EarnedPoints <- OneEach
    TapPoints = {1}
    WelcomePoints = 3
    AdminPoints = {1}
    MaxEntries = 4
    MaxRedeemable = 2
SYMMETRY AnyRequest
INVARIANTS
    BalanceAgrees
    OldestFirst
    ReturnsWhatWasTaken
PROPERTIES
    KeepsBooks
CHECK_DEADLOCK FALSE
