SPECIFICATION Spec
CONSTANTS
    None = None
    Requests = {a, b, e}
    Orders = {1, 2, 3, 4}
    Asha = Asha
    Binu = Binu
    Cement = Cement
    Sand = Sand
    Customers = {Asha, Binu}
    Products = {Cement, Sand}
    CustomerOf <- OrderCustomer
    Wants <- Carts
    KeyOf <- Keys
    Online = {1}
    ByBike = {1, 2, 3}
    HubStock <- TwoOfEach
    VariantStock <- CountedCement
    Tracked = {Cement}
    totalAllowed = 1
    Handlers = {"place", "release", "cancel"}
    Crashes = FALSE
SYMMETRY AnyRequest
INVARIANTS
    NotOversold
    VariantsAddUp
    KeyOrdersOnce
    FreeDeliveriesAddUp
    IInv
PROPERTIES
    VariantWriteIsFresh
CHECK_DEADLOCK FALSE
