----------------------------- MODULE HubOrders -----------------------------
(***************************************************************************)
(* A hub's orders from their arrival to their delivery, the drivers and    *)
(* vehicles that carry them and the stock that is reserved for them        *)
(* (src/hub/orders/hub-orders.service.ts, src/hub/dispatch,                *)
(* src/modules/drivers/drivers.service.ts).                                *)
(*                                                                         *)
(* A handler reads the order, checks what it checks, and then executes one *)
(* statement after another, each of which commits by itself; only          *)
(* planAndDispatch and the customer's cancellation write in a transaction. *)
(* What a handler does next is the step at of its frame.                   *)
(*                                                                         *)
(* Every order wants one unit of the same material.  Left out: loading     *)
(* records and the loader, which no handler reads; drivers on leave and    *)
(* vehicles without papers; a wrong code, which changes nothing; and what  *)
(* a cancellation or a delivery does to points, benefits and slots.        *)
(***************************************************************************)
EXTENDS Integers, FiniteSets, FiniteSetsExt

CONSTANTS
    None,
    Requests,      \* requests that may be running at the same time
    Orders,        \* orders that have been assigned to the hub
    Drivers,
    Vehicles,
    MaxIrregular   \* bound on the irregular calls

ASSUME HubOrdersAssumption ==
    /\ None \notin Requests \cup Orders \cup Drivers \cup Vehicles
    /\ IsFiniteSet(Orders)
    /\ MaxIrregular \in Nat

VARIABLES
    order,          \* status, driver, vehicle, and the state of the delivery code
    dispatch,       \* hub_dispatch: status, driver and vehicle of each order's
    availability,   \* of each driver
    vehicle,        \* status and currentOrderId of each vehicle
    availableQty,   \* the hub's row of hub_inventory
    reservedQty,
    request,        \* the frame of each request
    entered,        \* history: orders whose customer gave the right code
    settled,        \* history: how often an order's material was consumed or released
    irregular,      \* history: the orders of irregular calls (see Call)
    irregularCalls  \* history: their number

stockVars == <<availableQty, reservedQty, settled>>
fleetVars == <<availability, vehicle>>
vars == <<order, dispatch, fleetVars, stockVars, request, entered,
          irregular, irregularCalls>>

-----------------------------------------------------------------------------
Statuses == {"HUB_ASSIGNED", "ACCEPTED_BY_HUB", "PROCESSING", "PICKING", "PACKED",
             "DRIVER_ASSIGNED", "OUT_FOR_DELIVERY", "DELIVERED", "CANCELLED"}

Closed == {"DELIVERED", "CANCELLED"}

(* ORDER_STATUS_TRANSITIONS, for the statuses that orders at a hub take.     *)
Transitions == [s \in Statuses |->
    CASE s = "HUB_ASSIGNED" -> {"ACCEPTED_BY_HUB", "CANCELLED"}
      [] s \in {"ACCEPTED_BY_HUB", "PROCESSING"} -> {"PICKING", "PACKED", "CANCELLED"}
      [] s = "PICKING" -> {"PACKED", "CANCELLED"}
      [] s = "PACKED" -> {"DRIVER_ASSIGNED", "OUT_FOR_DELIVERY", "CANCELLED"}
      [] s = "DRIVER_ASSIGNED" -> {"OUT_FOR_DELIVERY", "CANCELLED"}
      [] s = "OUT_FOR_DELIVERY" -> {"DELIVERED", "CANCELLED"}
      [] OTHER -> {}]

Availabilities == {"AVAILABLE", "ASSIGNED", "ON_DELIVERY"}

DriverOrNone == Drivers \cup {None}
VehicleOrNone == Vehicles \cup {None}

Order == [status : Statuses, driver : DriverOrNone, vehicle : VehicleOrNone,
          reached : BOOLEAN, otp : BOOLEAN, verified : BOOLEAN]

Dispatch == [status : {"none", "PENDING", "IN_PROGRESS", "COMPLETED"},
             driver : DriverOrNone, vehicle : VehicleOrNone]

Vehicle == [status : {"AVAILABLE", "OUT_FOR_DELIVERY", "REACHED"},
            order : Orders \cup {None}]

(* A handler's first statement after its check.  Deliver, complete-delivery  *)
(* and proof of delivery all finalize.                                       *)
Start ==
    [accept |-> "ACCEPTED_BY_HUB", pick |-> "PICKING", pack |-> "PACKED",
     cancel |-> "release", customerCancel |-> "cancelTx", stay |-> "HUB_ASSIGNED",
     admin |-> "admin", assignDriver |-> "DRIVER_ASSIGNED", dispatch |-> "startDispatch",
     plan |-> "planTx", reached |-> "reached", dispatchReached |-> "reachDispatched",
     otp |-> "otp", verify |-> "verified", complete |-> "reread"]

\* The statements that others follow, and those that follow them.
After ==
    [release |-> "CANCELLED",
     DRIVER_ASSIGNED |-> "readActivity", readActivity |-> "sync",
     startDispatch |-> "takeDriver", takeDriver |-> "takeVehicle",
     takeVehicle |-> "OUT_FOR_DELIVERY",
     reachDispatched |-> "checkReached", checkReached |-> "reached",
     reached |-> "reachVehicle",
     verified |-> "reread", reread |-> "freeDriver", freeDriver |-> "freeVehicle",
     freeVehicle |-> "endDispatch", endDispatch |-> "DELIVERED", DELIVERED |-> "consume"]

Steps == {Start[op] : op \in DOMAIN Start} \cup {After[s] : s \in DOMAIN After}

Frame == [order : Orders \cup {None}, at : Steps \cup {"idle"},
          driver : DriverOrNone, vehicle : VehicleOrNone,
          next : Availabilities \cup Statuses \cup {None}]

Idle == [order |-> None, at |-> "idle", driver |-> None, vehicle |-> None, next |-> None]

TypeOK ==
    /\ order \in [Orders -> Order]
    /\ dispatch \in [Orders -> Dispatch]
    /\ availability \in [Drivers -> Availabilities]
    /\ vehicle \in [Vehicles -> Vehicle]
    /\ availableQty \in Nat
    /\ reservedQty \in Nat
    /\ request \in [Requests -> Frame]
    /\ entered \subseteq Orders
    /\ settled \in [Orders -> Nat]
    /\ irregular \subseteq Orders
    /\ irregularCalls \in 0..MaxIrregular

Init ==
    /\ order = [o \in Orders |-> [status |-> "HUB_ASSIGNED", driver |-> None, vehicle |-> None,
                                  reached |-> FALSE, otp |-> FALSE, verified |-> FALSE]]
    /\ dispatch = [o \in Orders |-> [status |-> "none", driver |-> None, vehicle |-> None]]
    /\ availability = [d \in Drivers |-> "AVAILABLE"]
    /\ vehicle = [v \in Vehicles |-> [status |-> "AVAILABLE", order |-> None]]
    /\ availableQty = 0
    /\ reservedQty = Cardinality(Orders)
    /\ request = [w \in Requests |-> Idle]
    /\ entered = {}
    /\ settled = [o \in Orders |-> 0]
    /\ irregular = {}
    /\ irregularCalls = 0

-----------------------------------------------------------------------------
At(w, step) == request[w].at = step

Busy(o) == \E w \in Requests : request[w].order = o

(* A call is irregular when another request is at work on the order, when    *)
(* the status it leads to is none that ORDER_STATUS_TRANSITIONS allows (most *)
(* end points do not look), when it exchanges the vehicle of an order that   *)
(* is out or the driver of one that has been assigned, edits a dispatch by   *)
(* hand, or comes from the administration or the screens of emergency and    *)
(* bulk orders, which look after no stock.                                   *)
Call(o, allowed) ==
    IF Busy(o) \/ ~allowed
    THEN /\ irregularCalls < MaxIrregular
         /\ irregular' = irregular \cup {o}
         /\ irregularCalls' = irregularCalls + 1
    ELSE UNCHANGED <<irregular, irregularCalls>>

LeadsTo(o, s) == s \in Transitions[order[o].status]

\* w begins op on o, with the driver d and the vehicle v.
Begin(w, o, op, d, v, allowed) ==
    /\ request[w] = Idle
    /\ Call(o, allowed)
    /\ request' = [request EXCEPT ![w] =
         [order |-> o, at |-> Start[op], driver |-> d, vehicle |-> v, next |-> None]]
    /\ UNCHANGED <<order, dispatch, fleetVars, stockVars>>

BeginAsRead(w, o, op, allowed) ==
    Begin(w, o, op, order[o].driver, order[o].vehicle, allowed)

AcceptOrder(w, o) ==
    /\ order[o].status = "HUB_ASSIGNED"
    /\ BeginAsRead(w, o, "accept", TRUE)
    /\ UNCHANGED entered

(* By the PATCH of the status, or by markLoading once the order is accepted. *)
MarkPicking(w, o) ==
    /\ order[o].status \in {"ACCEPTED_BY_HUB", "PROCESSING", "PICKING"}
    /\ BeginAsRead(w, o, "pick", LeadsTo(o, "PICKING"))
    /\ UNCHANGED entered

\* The PATCH that asks for the status the order has writes it again.
StayAssigned(w, o) ==
    /\ order[o].status = "HUB_ASSIGNED"
    /\ BeginAsRead(w, o, "stay", TRUE)
    /\ UNCHANGED entered

MarkPacked(w, o) ==
    /\ BeginAsRead(w, o, "pack", LeadsTo(o, "PACKED"))
    /\ UNCHANGED entered

\* cancel and reject
Cancel(w, o) ==
    /\ BeginAsRead(w, o, "cancel", LeadsTo(o, "CANCELLED"))
    /\ UNCHANGED entered

CustomerCancel(w, o) ==
    /\ order[o].status = "HUB_ASSIGNED"
    /\ BeginAsRead(w, o, "customerCancel", TRUE)
    /\ UNCHANGED entered

Active(d, statuses) ==
    \E o \in Orders : order[o].driver = d /\ order[o].status \in statuses

(* deriveDriverOperationalStatus, as it is stored.                           *)
Derived(d) ==
    IF Active(d, {"OUT_FOR_DELIVERY"}) \/ availability[d] = "ON_DELIVERY" THEN "ON_DELIVERY"
    ELSE IF Active(d, {"DRIVER_ASSIGNED"}) \/ availability[d] = "ASSIGNED" THEN "ASSIGNED"
    ELSE "AVAILABLE"

\* assertAssignable
AssignDriver(w, o, d, v) ==
    /\ Derived(d) \in {"AVAILABLE", "ASSIGNED"}
    /\ Begin(w, o, "assignDriver", d, v, LeadsTo(o, "DRIVER_ASSIGNED"))
    /\ UNCHANGED entered

\* assignVehicle and assignTeam: one statement
AssignVehicle(o, v) ==
    /\ Call(o, order[o].status \notin Closed \cup {"OUT_FOR_DELIVERY"})
    /\ order' = [order EXCEPT ![o].vehicle = v]
    /\ UNCHANGED <<dispatch, fleetVars, stockVars, request, entered>>

\* dispatch, or start of the dispatch, which writes its status once more
DispatchOrder(w, o) ==
    /\ BeginAsRead(w, o, "dispatch", LeadsTo(o, "OUT_FOR_DELIVERY"))
    /\ UNCHANGED entered

InUse(o, d, v) ==
    \E p \in Orders \ {o} :
        /\ dispatch[p].status \in {"PENDING", "IN_PROGRESS"}
        /\ dispatch[p].driver = d \/ dispatch[p].vehicle = v

(* The checks of planAndDispatch, which locks none of the rows it reads.     *)
PlanAndDispatch(w, o, d, v) ==
    /\ order[o].status \in {"ACCEPTED_BY_HUB", "PROCESSING", "PICKING", "PACKED",
                           "DRIVER_ASSIGNED"}
    /\ dispatch[o].status # "IN_PROGRESS"
    /\ availability[d] = "AVAILABLE"
    /\ vehicle[v].status = "AVAILABLE"
    /\ ~InUse(o, d, v)
    /\ Begin(w, o, "plan", d, v, order[o].driver \in {None, d})
    /\ UNCHANGED entered

MarkDriverReached(w, o) ==
    /\ order[o].status = "OUT_FOR_DELIVERY"
    /\ ~order[o].reached
    /\ BeginAsRead(w, o, "reached", TRUE)
    /\ UNCHANGED entered

\* markReached of the dispatch: the vehicle first, then the order's handler
DispatchReached(w, o) ==
    /\ dispatch[o].status # "none"
    /\ BeginAsRead(w, o, "dispatchReached",
                   order[o].status = "OUT_FOR_DELIVERY" /\ ~order[o].reached)
    /\ UNCHANGED entered

GenerateDeliveryOtp(w, o) ==
    /\ order[o].status = "OUT_FOR_DELIVERY"
    /\ order[o].reached /\ ~order[o].verified
    /\ BeginAsRead(w, o, "otp", TRUE)
    /\ UNCHANGED entered

\* The customer has given the code to the driver.
VerifyDeliveryOtp(w, o) ==
    /\ order[o].status = "OUT_FOR_DELIVERY"
    /\ order[o].otp /\ ~order[o].verified
    /\ entered' = entered \cup {o}
    /\ BeginAsRead(w, o, "verify", TRUE)

(* Mutant: complete-delivery forgets to ask for the code. *)
MutantCompleteDelivery(w, o) ==
    /\ order[o].status # "DELIVERED"
    /\ BeginAsRead(w, o, "complete", LeadsTo(o, "DELIVERED"))
    /\ UNCHANGED entered

CompleteDelivery(w, o) ==
    /\ order[o].status # "DELIVERED"
    /\ order[o].verified
    /\ BeginAsRead(w, o, "complete", LeadsTo(o, "DELIVERED"))
    /\ UNCHANGED entered

(* The dispatch that the legacy create leaves to be started, with a driver   *)
(* or a vehicle, but not both; an existing one keeps what is not given.      *)
DraftDispatch(o, d, v) ==
    /\ d = None \/ v = None
    /\ Call(o, FALSE)
    /\ dispatch' = [dispatch EXCEPT ![o].status = "PENDING",
                                    ![o].driver = IF d = None THEN @ ELSE d,
                                    ![o].vehicle = IF v = None THEN @ ELSE v]
    /\ UNCHANGED <<order, fleetVars, stockVars, request, entered>>

\* update of the dispatch
UpdateDispatch(o, d, v) ==
    /\ dispatch[o].status # "none"
    /\ Call(o, FALSE)
    /\ dispatch' = [dispatch EXCEPT ![o].driver = IF d = None THEN @ ELSE d,
                                    ![o].vehicle = IF v = None THEN @ ELSE v]
    /\ UNCHANGED <<order, fleetVars, stockVars, request, entered>>

-----------------------------------------------------------------------------
(* The administrator's screens and those of emergency and bulk orders write  *)
(* the order and nothing else.                                               *)

\* updateStatus reads the order and checks the transition.
AdminUpdateStatus(w, o, s) ==
    /\ LeadsTo(o, s) \/ s = order[o].status
    /\ s = "DELIVERED" => order[o].verified
    /\ request[w] = Idle
    /\ Call(o, FALSE)
    /\ request' = [request EXCEPT ![w] =
         [order |-> o, at |-> Start.admin, driver |-> None, vehicle |-> None, next |-> s]]
    /\ UNCHANGED <<order, dispatch, fleetVars, stockVars, entered>>

AdminWrites(w) ==
    /\ At(w, "admin")
    /\ order' = [order EXCEPT ![request[w].order].status = request[w].next]
    /\ request' = [request EXCEPT ![w] = Idle]
    /\ UNCHANGED <<dispatch, fleetVars, stockVars, entered, irregular, irregularCalls>>

(* One statement, whatever the order's status: assignHub, cancelOrder; accept *)
(* and complete of an emergency or bulk order, without a code.               *)
WriteStatus(o, s) ==
    /\ s \in {"HUB_ASSIGNED", "CANCELLED", "PROCESSING", "DELIVERED"}
    /\ Call(o, FALSE)
    /\ order' = [order EXCEPT ![o].status = s]
    /\ UNCHANGED <<dispatch, fleetVars, stockVars, request, entered>>

\* assignDriver of the administrator, who asks nothing of the driver
AdminAssignDriver(o, d, v) ==
    /\ Call(o, FALSE)
    /\ order' = [order EXCEPT ![o].status = "DRIVER_ASSIGNED", ![o].driver = d,
                              ![o].vehicle = IF v = None THEN @ ELSE v]
    /\ UNCHANGED <<dispatch, fleetVars, stockVars, request, entered>>

-----------------------------------------------------------------------------
Rest(f) == IF f.at \in DOMAIN After THEN [f EXCEPT !.at = After[@]] ELSE Idle

\* The statement is done; w goes on.
Continue(w) == request' = [request EXCEPT ![w] = Rest(@)]

History == <<entered, irregular, irregularCalls>>

(* transitionOrder writes the status by id, whatever it has become.          *)
Transition(w, s) ==
    LET f == request[w]
        o == f.order
    IN  /\ At(w, s)
        /\ order' = [order EXCEPT
             ![o].status = s,
             ![o].driver = IF s = "DRIVER_ASSIGNED" THEN f.driver ELSE @,
             ![o].vehicle = IF s = "DRIVER_ASSIGNED" /\ f.vehicle # None
                            THEN f.vehicle ELSE @,
             ![o].verified = IF s = "DELIVERED" THEN TRUE ELSE @]
        /\ Continue(w)
        /\ UNCHANGED <<dispatch, fleetVars, stockVars, History>>

Settle(o) == settled' = [settled EXCEPT ![o] = @ + 1]

(* Mutant: what is released is not taken off what is reserved. *)
MutantReleaseStock(o) ==
    /\ availableQty' = availableQty + 1
    /\ UNCHANGED reservedQty
    /\ Settle(o)

\* releaseReservedStock: no row matches when too little is reserved
ReleaseStock(o) ==
    IF reservedQty >= 1
    THEN /\ availableQty' = availableQty + 1
         /\ reservedQty' = reservedQty - 1
         /\ Settle(o)
    ELSE UNCHANGED stockVars

Release(w) ==
    /\ At(w, "release")
    /\ ReleaseStock(request[w].order)
    /\ Continue(w)
    /\ UNCHANGED <<order, dispatch, fleetVars, History>>

\* The customer's cancellation writes by id too.
CancelTx(w) ==
    LET o == request[w].order
    IN  /\ At(w, "cancelTx")
        /\ ReleaseStock(o)
        /\ order' = [order EXCEPT ![o].status = "CANCELLED"]
        /\ Continue(w)
        /\ UNCHANGED <<dispatch, fleetVars, History>>

\* consumeReservedStock
Consume(w) ==
    LET o == request[w].order
    IN  /\ At(w, "consume")
        /\ IF reservedQty >= 1
           THEN reservedQty' = reservedQty - 1 /\ Settle(o) /\ UNCHANGED availableQty
           ELSE UNCHANGED stockVars
        /\ Continue(w)
        /\ UNCHANGED <<order, dispatch, fleetVars, History>>

(* syncAvailabilityFromOrders reads the driver and counts its orders, and     *)
(* then writes by id, if what it derived differs from what it read.          *)
ReadActivity(w) ==
    LET d == request[w].driver
    IN  /\ At(w, "readActivity")
        /\ request' = [request EXCEPT ![w] = IF Derived(d) = availability[d] THEN Idle
                                             ELSE [Rest(@) EXCEPT !.next = Derived(d)]]
        /\ UNCHANGED <<order, dispatch, fleetVars, stockVars, History>>

SyncAvailability(w) ==
    /\ At(w, "sync")
    /\ availability' = [availability EXCEPT ![request[w].driver] = request[w].next]
    /\ Continue(w)
    /\ UNCHANGED <<order, dispatch, vehicle, stockVars, History>>

StartDispatch(w) ==
    LET f == request[w]
    IN  /\ At(w, "startDispatch")
        /\ dispatch' = [dispatch EXCEPT
             ![f.order].status = "IN_PROGRESS",
             ![f.order].driver = IF f.driver = None THEN @ ELSE f.driver,
             ![f.order].vehicle = IF f.vehicle = None THEN @ ELSE f.vehicle]
        /\ Continue(w)
        /\ UNCHANGED <<order, fleetVars, stockVars, History>>

SetDriver(d, to) ==
    availability' = IF d = None THEN availability ELSE [availability EXCEPT ![d] = to]

SetVehicle(v, to, o) ==
    vehicle' = IF v = None THEN vehicle
               ELSE [vehicle EXCEPT ![v] = [status |-> to, order |-> o]]

TakeDriver(w) ==
    /\ At(w, "takeDriver")
    /\ SetDriver(request[w].driver, "ON_DELIVERY")
    /\ Continue(w)
    /\ UNCHANGED <<order, dispatch, vehicle, stockVars, History>>

TakeVehicle(w) ==
    /\ At(w, "takeVehicle")
    /\ SetVehicle(request[w].vehicle, "OUT_FOR_DELIVERY", request[w].order)
    /\ Continue(w)
    /\ UNCHANGED <<order, dispatch, availability, stockVars, History>>

\* The transaction of planAndDispatch.
PlanTx(w) ==
    LET f == request[w]
        o == f.order
    IN  /\ At(w, "planTx")
        /\ dispatch' = [dispatch EXCEPT ![o] =
             [status |-> "IN_PROGRESS", driver |-> f.driver, vehicle |-> f.vehicle]]
        /\ SetDriver(f.driver, "ON_DELIVERY")
        /\ SetVehicle(f.vehicle, "OUT_FOR_DELIVERY", o)
        /\ order' = [order EXCEPT ![o].status = "OUT_FOR_DELIVERY",
                                  ![o].driver = f.driver, ![o].vehicle = f.vehicle]
        /\ Continue(w)
        /\ UNCHANGED <<stockVars, History>>

\* markDriverReached; only the status of the vehicle is written
Reached(w) ==
    /\ At(w, "reached")
    /\ order' = [order EXCEPT ![request[w].order].reached = TRUE]
    /\ Continue(w)
    /\ UNCHANGED <<dispatch, fleetVars, stockVars, History>>

Reach(v) == vehicle' = IF v = None THEN vehicle ELSE [vehicle EXCEPT ![v].status = "REACHED"]

ReachVehicle(w) ==
    /\ \/ At(w, "reachVehicle") /\ Reach(request[w].vehicle)
       \/ At(w, "reachDispatched") /\ Reach(dispatch[request[w].order].vehicle)
    /\ Continue(w)
    /\ UNCHANGED <<order, dispatch, availability, stockVars, History>>

CheckReached(w) ==
    LET o == request[w].order
        late == order[o].status # "OUT_FOR_DELIVERY" \/ order[o].reached
    IN  /\ At(w, "checkReached")
        /\ request' = [request EXCEPT ![w] =
             IF late THEN Idle ELSE [Rest(@) EXCEPT !.vehicle = order[o].vehicle]]
        /\ UNCHANGED <<order, dispatch, fleetVars, stockVars, History>>

GenerateOtp(w) ==
    /\ At(w, "otp")
    /\ order' = [order EXCEPT ![request[w].order].otp = TRUE,
                              ![request[w].order].verified = FALSE]
    /\ Continue(w)
    /\ UNCHANGED <<dispatch, fleetVars, stockVars, History>>

Verified(w) ==
    /\ At(w, "verified")
    /\ order' = [order EXCEPT ![request[w].order].verified = TRUE]
    /\ Continue(w)
    /\ UNCHANGED <<dispatch, fleetVars, stockVars, History>>

\* finalizeDelivery reads the order again.
Reread(w) ==
    LET o == request[w].order
    IN  /\ At(w, "reread")
        /\ request' = [request EXCEPT ![w] =
             IF order[o].status = "DELIVERED" THEN Idle
             ELSE [Rest(@) EXCEPT !.driver = order[o].driver, !.vehicle = order[o].vehicle]]
        /\ UNCHANGED <<order, dispatch, fleetVars, stockVars, History>>

(* Mutant: whoever frees the vehicle forgets its driver. *)
MutantFreeDriver(w) ==
    /\ At(w, "freeDriver")
    /\ \/ request[w].vehicle = None /\ SetDriver(request[w].driver, "AVAILABLE")
       \/ request[w].vehicle # None /\ UNCHANGED availability
    /\ Continue(w)
    /\ UNCHANGED <<order, dispatch, vehicle, stockVars, History>>

FreeDriver(w) ==
    /\ At(w, "freeDriver")
    /\ SetDriver(request[w].driver, "AVAILABLE")
    /\ Continue(w)
    /\ UNCHANGED <<order, dispatch, vehicle, stockVars, History>>

FreeVehicle(w) ==
    /\ At(w, "freeVehicle")
    /\ SetVehicle(request[w].vehicle, "AVAILABLE", None)
    /\ Continue(w)
    /\ UNCHANGED <<order, dispatch, availability, stockVars, History>>

\* updateMany: nothing happens when the order has no dispatch
EndDispatch(w) ==
    LET o == request[w].order
    IN  /\ At(w, "endDispatch")
        /\ dispatch' = IF dispatch[o].status = "none" THEN dispatch
                       ELSE [dispatch EXCEPT ![o].status = "COMPLETED"]
        /\ Continue(w)
        /\ UNCHANGED <<order, fleetVars, stockVars, History>>

-----------------------------------------------------------------------------
Arrival(w, o) ==
    \/ AcceptOrder(w, o) \/ MarkPicking(w, o) \/ MarkPacked(w, o) \/ StayAssigned(w, o)
    \/ Cancel(w, o) \/ CustomerCancel(w, o)
    \/ DispatchOrder(w, o)
    \/ MarkDriverReached(w, o) \/ DispatchReached(w, o)
    \/ GenerateDeliveryOtp(w, o) \/ VerifyDeliveryOtp(w, o) \/ CompleteDelivery(w, o)
    \/ \E d \in Drivers, v \in VehicleOrNone : AssignDriver(w, o, d, v)
    \/ \E d \in Drivers, v \in Vehicles : PlanAndDispatch(w, o, d, v)

Step(w) ==
    \/ \E s \in Statuses : Transition(w, s)
    \/ Release(w) \/ CancelTx(w) \/ Consume(w) \/ ReadActivity(w) \/ SyncAvailability(w)
    \/ StartDispatch(w) \/ TakeDriver(w) \/ TakeVehicle(w) \/ PlanTx(w)
    \/ Reached(w) \/ ReachVehicle(w) \/ CheckReached(w)
    \/ GenerateOtp(w) \/ Verified(w)
    \/ Reread(w) \/ FreeDriver(w) \/ FreeVehicle(w) \/ EndDispatch(w)

Next ==
    \/ \E w \in Requests : Step(w) \/ AdminWrites(w)
    \/ \E w \in Requests, o \in Orders : Arrival(w, o)
    \/ \E o \in Orders, v \in Vehicles : AssignVehicle(o, v)
    \/ \E o \in Orders, d \in DriverOrNone, v \in VehicleOrNone :
           DraftDispatch(o, d, v) \/ UpdateDispatch(o, d, v)
    \/ \E o \in Orders, d \in Drivers, v \in VehicleOrNone : AdminAssignDriver(o, d, v)
    \/ \E o \in Orders, s \in Statuses :
           WriteStatus(o, s) \/ \E w \in Requests : AdminUpdateStatus(w, o, s)

Spec == Init /\ [][Next]_vars

-----------------------------------------------------------------------------
(* However requests interleave and whatever end points are called when, no   *)
(* order counts as verified, and none that was handled regularly as          *)
(* delivered, before its customer gave the code to the driver                *)
(* (verifyDeliveryOtp, deliver, completeDelivery, submitPod).                *)
DeliveredWithCode ==
    \A o \in Orders :
        order[o].verified \/ (order[o].status = "DELIVERED" /\ o \notin irregular) => o \in entered

(* The stock columns account for every unit, whatever the interleaving.      *)
(* While all orders are handled regularly, what is reserved is what the      *)
(* orders still wait for, and the material of each order is consumed or      *)
(* released once: not before it is closed but for a cancellation at work,    *)
(* and by the time its request has ended.                                    *)
StockFollowsOrders ==
    /\ TypeOK
    /\ reservedQty = Cardinality(Orders) - MapThenSumSet(LAMBDA o : settled[o], Orders)
    /\ irregular = {} => \A o \in Orders :
          /\ settled[o] <= 1
          /\ ~Busy(o) => (settled[o] = 1 <=> order[o].status \in Closed)

(* When an order that was handled regularly has been delivered and its       *)
(* request has ended, its dispatch is complete, and no vehicle is out for it *)
(* or stands at its customer's any more.                                     *)
FreedWhenDelivered ==
    \A o \in Orders :
        o \notin irregular /\ order[o].status = "DELIVERED" /\ ~Busy(o) =>
            /\ dispatch[o].status \in {"none", "COMPLETED"}
            /\ \A v \in Vehicles : vehicle[v].order # o

(* Nobody is out for nothing: while all orders are handled regularly and no  *)
(* request is at work, a vehicle that is out has an order on the road.  A    *)
(* driver ON_DELIVERY has one too, or the next order already, because        *)
(* syncAvailabilityFromOrders may write what it saw before finalizeDelivery  *)
(* freed the driver.  A cancellation on the road frees neither.              *)
OutForAReason ==
    /\ FreedWhenDelivered
    /\ irregular = {} /\ (\A w \in Requests : request[w] = Idle) =>
        /\ \A d \in Drivers : availability[d] = "ON_DELIVERY" =>
               Active(d, {"OUT_FOR_DELIVERY", "DRIVER_ASSIGNED", "CANCELLED"})
        /\ \A v \in Vehicles : vehicle[v].order # None =>
               order[vehicle[v].order].status \in {"OUT_FOR_DELIVERY", "CANCELLED"}
=============================================================================
