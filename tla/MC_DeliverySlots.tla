-------------------------- MODULE MC_DeliverySlots --------------------------
(***************************************************************************)
(* One run over nine instances about deliveries, notices, enquiries, carts *)
(* and tickets, which have nothing to do with one another; a behaviour     *)
(* chooses one at the start and leaves the others at rest:                 *)
(*   "slots"     two customers, one of whom orders;                        *)
(*   "workers"   a push campaign, two server processes and one device;     *)
(*   "devices"   a push campaign, one server process and two devices;      *)
(*   "prices"    two administrators and two rules of one price list;       *)
(*   "vehicles"  carts of two lines and four types of vehicles;            *)
(*   "windows"   one customer, two server processes and days of five       *)
(*               minutes;                                                  *)
(*   "enquiries" one bulk enquiry and two requests of the staff;           *)
(*   "cart"      one product in a cart and two requests of its customer;   *)
(*   "ticket"    one support ticket and two requests about it.             *)
(***************************************************************************)
EXTENDS DeliverySlots, TLC

CONSTANTS
    c1,
    Rules, MaxKm, NewRules, Patches,                           \* of DeliveryPricing
    MaxWrites,                                                 \* ... and CartLines
    Processes, Products, Stocks, MinOrder, MaxOrder, MaxLines, \* of CartLines
    Enquiries, StaffChoices, QuotationChoices, MaxQuotations, MaxOrders, \* BulkEnquiries
    StatusChoices, MaxMessages,                                \* of SupportTickets
    Servers, Audience, Devices, OwnerOf, FCM_MAX_ATTEMPTS,     \* of PushCampaign
    FewServers, FewDevices,   \* bounds: those that the part about the others uses
    Ranked, TierMax, Mixer, Product, ProfileOf,                \* of VehicleSelection
    Carts, Fleets, FleetRows, Engines, MaxFleetEdits,
    HubHours, DefaultHours, OperatingHours, Leads,             \* of DeliveryWindows
    DayMinutes, Horizon, CacheTtl, MaxTime, MaxHourEdits

OnePlace == [s \in Slots |-> 1]
OwnCustomer == [o \in Orders |-> c1]

VARIABLE part

VARIABLES
    rule, history, priceRequest, priceWrites, wrote, asked, priceRaced, \* DeliveryPricing
    line, cache, cartRequest, cartWrites, owed, cartRaced,              \* CartLines
    enquiryStatus, converted, quotation, bulkOrders, staffRequest,      \* BulkEnquiries
    ticketStatus, resolved, closed, unread, message, ticketRequest, patched, \* SupportTickets
    campaignStatus, due, totalRecipients, inbox, opened, active, delivery,  \* PushCampaign
    enqueued, worker, admin, pushes, excuses, overlapped, quiet,
    cart, goodsLine, load, fleet, engine, edits, choice,                \* VehicleSelection
    hours, hoursCache, hub, lead, now, pastHours, windowRequest         \* DeliveryWindows

priceVars == <<rule, history, priceRequest, priceWrites, wrote, asked, priceRaced>>
cartVars == <<line, cache, cartRequest, cartWrites, owed, cartRaced>>
bulkVars == <<enquiryStatus, converted, quotation, bulkOrders, staffRequest>>
ticketVars == <<ticketStatus, resolved, closed, unread, message, ticketRequest, patched>>
pushVars == <<campaignStatus, due, totalRecipients, inbox, opened, active, delivery, enqueued,
              worker, admin, pushes, excuses, overlapped, quiet>>
vehicleVars == <<cart, goodsLine, load, fleet, engine, edits, choice>>
windowVars == <<hours, hoursCache, hub, lead, now, pastHours, windowRequest>>

-----------------------------------------------------------------------------
OwnedByC1 == [d \in Devices |-> c1]

Campaign == INSTANCE PushCampaign WITH
    Processes <- Servers, Admins <- Requests, Customers <- Audience, status <- campaignStatus

\* A bound: an order is moved to a slot that others compete for.
ProposedAreHeld ==
    \A w \in Requests : request[w].op = "propose" => request[w].slot \in HoldSlots

\* All servers push to few devices (workers), few servers to all devices (devices).
Bounded(d, p) ==
    /\ part = "workers" => d \subseteq FewDevices
    /\ part = "devices" => p \subseteq FewServers

-----------------------------------------------------------------------------
Slab(from, to) == [from |-> from, to |-> to, price |-> 1, active |-> TRUE]
Silent == [from |-> None, to |-> None, price |-> None, active |-> None]

SomeSlabs == {Slab(0, 2), Slab(1, 3)}
SomePatches == {[Silent EXCEPT !.price = 2], [Silent EXCEPT !.to = 2]}

Prices == INSTANCE DeliveryPricing WITH
    request <- priceRequest, writes <- priceWrites, raced <- priceRaced

ASSUME PricesAssumption == Prices!ConstantsFit

-----------------------------------------------------------------------------
Brick == [weight |-> 1, volume |-> 0, kind |-> None, allowed |-> None, preferred |-> None,
          transportable |-> TRUE]
Goods ==
    [brick |-> Brick,
     glass |-> [Brick EXCEPT !.volume = 2, !.kind = "GLASS"],
     concrete |-> [Brick EXCEPT !.weight = 2, !.kind = "RMC", !.preferred = "BIKE"],
     tap |-> [Brick EXCEPT !.weight = 0, !.allowed = {"BIKE", "VAN"}, !.preferred = "VAN"],
     crane |-> [Brick EXCEPT !.transportable = FALSE]]
GoodsLines == [product : DOMAIN Goods, quantity : 1..2]

Van == [weight |-> 2, volume |-> 3, quantity |-> None, priority |-> 2, active |-> TRUE,
        rmc |-> FALSE, kinds |-> None]
Fleet ==
    [BIKE |-> [Van EXCEPT !.weight = 1, !.volume = None, !.priority = 1],
     VAN |-> Van,
     TRUCK |-> [Van EXCEPT !.weight = None, !.volume = None],
     MIXER |-> [Van EXCEPT !.weight = 3, !.rmc = TRUE, !.priority = 3, !.kinds = {"RMC"}]]

FourVehicles == <<"BIKE", "VAN", "TRUCK", "MIXER">>
TwoTiers == <<1, 3>>
ProfileOfKind == [RMC |-> {"MIXER"}, GLASS |-> {"VAN", "TRUCK"}]
SomeCarts == {<<a, [product |-> p, quantity |-> 1]>> : a \in GoodsLines, p \in DOMAIN Goods}
OneFleet == {Fleet}
SomeRows ==
    {Van, [Van EXCEPT !.active = FALSE], [Van EXCEPT !.weight = None, !.priority = 3],
     [Van EXCEPT !.weight = 0],
     [Van EXCEPT !.weight = None, !.volume = None, !.quantity = 1]}
SomeEngines ==
    {[mode |-> "AUTO_SPLIT", fallback |-> TRUE, bulkKg |-> None],
     [mode |-> "BULK_QUOTE", fallback |-> FALSE, bulkKg |-> None],
     [mode |-> "REJECT", fallback |-> TRUE, bulkKg |-> 4]}

Vehicles == INSTANCE VehicleSelection WITH
    Rows <- FleetRows, MaxEdits <- MaxFleetEdits, line <- goodsLine

ASSUME VehiclesAssumption == Vehicles!ConstantsFit

-----------------------------------------------------------------------------
FromTo(open, close) == [open |-> open, close |-> close]

\* The windows of the two settings are two minutes long and one; a hub that
\* opens at 2 opens in the middle of one of the former.
SomeHubHours == {FromTo(2, 6), FromTo(5, 1)}
OneToFive == FromTo(1, 5)
SomeOperatingHours ==
    {[open |-> 1, close |-> 5, duration |-> 2, closed |-> {}],
     [open |-> 2, close |-> 5, duration |-> 1, closed |-> {1}]}

Windows == INSTANCE DeliveryWindows WITH
    Processes <- Servers, Requests <- Audience, Hours <- HubHours, Configs <- OperatingHours,
    MaxEdits <- MaxHourEdits, row <- hours, cache <- hoursCache, past <- pastHours,
    request <- windowRequest

ASSUME WindowsAssumption == Windows!ConstantsFit

-----------------------------------------------------------------------------
OneAtLeast == <<1>>
TwoAtMost == <<2>>

Lines == INSTANCE CartLines WITH
    request <- cartRequest, writes <- cartWrites, raced <- cartRaced

ASSUME LinesAssumption == Lines!ConstantsFit

Bulk == INSTANCE BulkEnquiries WITH
    status <- enquiryStatus, orders <- bulkOrders, request <- staffRequest

ASSUME BulkAssumption == Bulk!ConstantsFit

Ticket == INSTANCE SupportTickets WITH
    status <- ticketStatus, request <- ticketRequest

ASSUME TicketAssumption == Ticket!ConstantsFit

-----------------------------------------------------------------------------
(* An instance that is not chosen stays at nothing.                          *)
PartsInit ==
    /\ Init
    /\ part \in {"slots", "workers", "devices", "prices", "vehicles", "windows", "enquiries",
                 "cart", "ticket"}
    /\ IF part \in {"workers", "devices"} THEN Campaign!Init /\ Bounded(active, enqueued)
       ELSE /\ campaignStatus = None /\ due = None /\ totalRecipients = None /\ inbox = None
            /\ opened = None /\ active = None /\ delivery = None /\ enqueued = None
            /\ worker = None /\ admin = None /\ pushes = None /\ excuses = None
            /\ overlapped = None
            /\ quiet = FALSE    \* CancelledStaysQuiet looks at it in any case
    /\ IF part = "prices" THEN Prices!Init
       ELSE /\ rule = None /\ history = None /\ priceRequest = None /\ priceWrites = None
            /\ wrote = None /\ asked = None /\ priceRaced = None
    /\ IF part = "cart" THEN Lines!Init
       ELSE /\ line = None /\ cache = None /\ cartRequest = None /\ cartWrites = None
            /\ owed = None /\ cartRaced = None
    /\ IF part = "enquiries" THEN Bulk!Init
       ELSE /\ enquiryStatus = None /\ converted = None /\ quotation = None
            /\ bulkOrders = None /\ staffRequest = None
    /\ IF part = "ticket" THEN Ticket!Init
       ELSE /\ ticketStatus = None /\ resolved = None /\ closed = None /\ unread = None
            /\ message = None /\ ticketRequest = None /\ patched = None
    /\ IF part = "vehicles" THEN Vehicles!Init
       ELSE /\ cart = None /\ goodsLine = None /\ load = None /\ fleet = None
            /\ engine = None /\ edits = None /\ choice = None
    /\ IF part = "windows" THEN Windows!Init
       ELSE /\ hours = None /\ hoursCache = None /\ hub = None /\ lead = None
            /\ now = None /\ pastHours = None /\ windowRequest = None

ownVars == <<priceVars, cartVars, bulkVars, ticketVars, pushVars, vehicleVars, windowVars>>

PartsNext ==
    /\ UNCHANGED part
    /\ \/ part = "slots" /\ Next /\ ProposedAreHeld' /\ UNCHANGED ownVars
       \/ /\ part = "vehicles" /\ Vehicles!Next
          /\ UNCHANGED <<vars, priceVars, cartVars, bulkVars, ticketVars, pushVars, windowVars>>
       \/ /\ part = "windows" /\ Windows!Next
          /\ UNCHANGED <<vars, priceVars, cartVars, bulkVars, ticketVars, pushVars, vehicleVars>>
       \/ /\ part = "prices" /\ Prices!Next
          /\ UNCHANGED <<vars, cartVars, bulkVars, ticketVars, pushVars, vehicleVars, windowVars>>
       \/ /\ part = "cart" /\ Lines!Next
          /\ UNCHANGED <<vars, priceVars, bulkVars, ticketVars, pushVars, vehicleVars, windowVars>>
       \/ /\ part = "enquiries" /\ Bulk!Next
          /\ UNCHANGED <<vars, priceVars, cartVars, ticketVars, pushVars, vehicleVars, windowVars>>
       \/ /\ part = "ticket" /\ Ticket!Next
          /\ UNCHANGED <<vars, priceVars, cartVars, bulkVars, pushVars, vehicleVars, windowVars>>
       \/ /\ part \in {"workers", "devices"} /\ Campaign!Next /\ Bounded(active', enqueued')
          /\ UNCHANGED <<vars, priceVars, cartVars, bulkVars, ticketVars, vehicleVars, windowVars>>

PartsSpec == PartsInit /\ [][PartsNext]_<<part, vars, ownVars>>

AnyRequest == Permutations(Requests)

(* PushCampaign: no device is pushed to twice without an excuse or forgotten *)
(* (sendToDevices).                                                          *)
EachDeviceOnce ==
    part \in {"workers", "devices"} => Campaign!EachDeviceOnce

(* PushCampaign: a cancelled campaign stays quiet (processCampaign).         *)
CancelledStaysQuiet == Campaign!CancelledStaysQuiet

(* DeliveryPricing: slabs nest and distances get the price that was asked    *)
(* for, unless edits raced (updateRule, resolveListPrice).                   *)
PriceListHolds == part = "prices" => Prices!PriceListHolds

(* VehicleSelection: the vehicle chosen carries the load, and pricing and    *)
(* estimate choose the same (selectVehicleForLoad).                          *)
SelectedCarries == part = "vehicles" => Vehicles!SelectedCarries

(* DeliveryWindows: what was offered is accepted, or for a reason refused    *)
(* (placeOrder, validateSlotAgainstOperatingRules).                          *)
OfferedIsAccepted == part = "windows" => Windows!OfferedIsAccepted

(* BulkEnquiries: an enquiry becomes an order once (convertToOrder).         *)
OrderedOnce == part = "enquiries" => Bulk!OrderedOnce

(* CartLines: one line for a product, nothing lost, and a write seen by its  *)
(* own answer, unless requests raced (addItem, placeOrder, getCart).         *)
CartHolds == part = "cart" => Lines!CartHolds

(* SupportTickets: the counters count the newest unread messages, the times  *)
(* fit the status, and a closed ticket stays closed (sendMessage,            *)
(* markMessagesRead, assignExecutive).                                       *)
TicketHolds == part = "ticket" => Ticket!TicketHolds
=============================================================================
