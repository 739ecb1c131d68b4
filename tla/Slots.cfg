SPECIFICATION PartsSpec
CONSTANTS
    None = None
    Requests = {a, b}
    Slots = {sl1, sl2}
    HoldSlots = {sl1}
    Capacity <- OnePlace
    Customers = {c1, c2}
    Orders = {1}
    CustomerOf <- OwnCustomer
    MaxRows = 2
    c1 = c1
    Rules = {1, 2}
    MaxKm = 3
    NewRules <- SomeSlabs
    Patches <- SomePatches
    MaxWrites = 3
    Processes = {1}
    Products = {1}
    Stocks = {2}
    MinOrder <- OneAtLeast
    MaxOrder <- TwoAtMost
    MaxLines = 3
    Enquiries = {1}
    StaffChoices = {"IN_PROGRESS"}
    QuotationChoices = {"ACCEPTED"}
    MaxQuotations = 2
    MaxOrders = 2
    StatusChoices = {"RESOLVED", "CLOSED"}
    MaxMessages = 3
    Servers = {1, 2}
    Audience = {c1}
    Devices = {1, 2}
    OwnerOf <- OwnedByC1
    FCM_MAX_ATTEMPTS = 2
    FewServers = {1}
    FewDevices = {1}
    Ranked <- FourVehicles
    TierMax <- TwoTiers
    Mixer = "MIXER"
    Product <- Goods
    ProfileOf <- ProfileOfKind
    Carts <- SomeCarts
    Fleets <- OneFleet
    FleetRows <- SomeRows
    Engines <- SomeEngines
    MaxFleetEdits = 1
    HubHours <- SomeHubHours
    DefaultHours <- OneToFive
    OperatingHours <- SomeOperatingHours
    Leads = {2}
    DayMinutes = 5
    Horizon = 2
    CacheTtl = 2
    MaxTime = 5
    MaxHourEdits = 1
SYMMETRY AnyRequest
INVARIANTS
    HeldIsCounted
    NotOverbooked
    KeepsItsPlace
    CancelledGivesBack
    EachDeviceOnce
    PriceListHolds
    SelectedCarries
    OfferedIsAccepted
    OrderedOnce
    CartHolds
    TicketHolds
PROPERTIES
    
    CancelledStaysQuiet
CHECK_DEADLOCK FALSE
