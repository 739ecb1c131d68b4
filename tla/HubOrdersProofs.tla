-------------------------- MODULE HubOrdersProofs --------------------------
(***************************************************************************)
(* Proofs about the orders of a hub (HubOrders): for any number of orders, *)
(* requests, drivers and vehicles, and any bound on the irregular calls,   *)
(* no order is delivered without its code, the stock columns account for   *)
(* every unit, and nobody is out for nothing.                              *)
(*                                                                         *)
(* None of the three is inductive.  The inductive invariant WellRun comes  *)
(* in layers, each proved with the help of those before it:                *)
(*   Framed       what a frame holds is what its next statement needs;     *)
(*   Staged       an order handled regularly has one request at work on    *)
(*                it, and is where that request's next statement expects   *)
(*                it: nobody else writes between its statements;           *)
(*   SettledOnce  each order's material is settled once, at its time;      *)
(*   FleetOut     what is out belongs to an order that has left, and what  *)
(*                has been delivered is freed.                             *)
(* The statements of the model write the fields of one order; the lemmas   *)
(* FramesContinue, StagedStep, SettledStep and FleetStep carry what is     *)
(* true of all the others.                                                 *)
(***************************************************************************)
EXTENDS HubOrders, SumLaws

(* The last stretch of a delivery, after the code has been entered.          *)
Ending == {"verified", "reread", "freeDriver", "freeVehicle", "endDispatch",
           "DELIVERED", "consume"}

(* A frame holds what its next statement needs.                              *)
Sound(f) ==
    /\ f.order = None <=> f.at = "idle"
    /\ f.at = "admin" => f.next \in Statuses /\ f.order \in irregular
    /\ f.at \in {"DRIVER_ASSIGNED", "readActivity", "sync", "planTx"} => f.driver \in Drivers
    /\ f.at = "planTx" => f.vehicle \in Vehicles
    /\ f.at = "sync" => f.next \in Availabilities
    /\ f.at \in Ending => f.order \in entered

Accounted ==
    reservedQty = Cardinality(Orders) - MapThenSumSet(LAMBDA o : settled[o], Orders)

(* The first layer.                                                          *)
Framed ==
    /\ TypeOK
    /\ \A w \in Requests : Sound(request[w])
    /\ DeliveredWithCode
    /\ Accounted

(* Only one request is at work on an order that is handled regularly.        *)
Alone ==
    \A u, w \in Requests :
        request[u].order = request[w].order /\ request[u].order \in Orders \ irregular => u = w

(* What the order of a frame, handled regularly, has come to.                *)
InStage(f) ==
    LET s == order[f.order].status
    IN  /\ f.at \in {"ACCEPTED_BY_HUB", "HUB_ASSIGNED", "cancelTx"} => s = "HUB_ASSIGNED"
        /\ f.at = "PICKING" => s \in {"ACCEPTED_BY_HUB", "PROCESSING"}
        /\ f.at = "PACKED" => s \in {"ACCEPTED_BY_HUB", "PROCESSING", "PICKING"}
        /\ f.at \in {"release", "CANCELLED"} => s \notin Closed
        /\ f.at = "DRIVER_ASSIGNED" => s = "PACKED"
        /\ f.at \in {"readActivity", "sync"} => s = "DRIVER_ASSIGNED"
        /\ f.at \in {"startDispatch", "takeDriver", "takeVehicle", "OUT_FOR_DELIVERY"} =>
               s \in {"PACKED", "DRIVER_ASSIGNED"}
        /\ f.at = "planTx" => s \notin Closed \cup {"OUT_FOR_DELIVERY"}
        /\ f.at \in {"reachDispatched", "checkReached", "reached", "reachVehicle", "otp",
                     "verified", "reread", "freeDriver", "freeVehicle", "endDispatch",
                     "DELIVERED"} => s = "OUT_FOR_DELIVERY"
        /\ f.at = "consume" => s = "DELIVERED"

(* A frame that sends an order out, or frees what carried it, knows the      *)
(* driver and the vehicle that the order has.                                *)
Carries(f) ==
    /\ f.at \in {"startDispatch", "takeDriver", "takeVehicle", "OUT_FOR_DELIVERY",
                 "freeDriver", "freeVehicle", "endDispatch", "DELIVERED"} =>
           f.driver = order[f.order].driver /\ f.vehicle = order[f.order].vehicle
    /\ f.at = "planTx" => order[f.order].driver \in {None, f.driver}
    /\ f.at \in {"readActivity", "sync"} => f.driver = order[f.order].driver

Staged ==
    /\ Alone
    /\ \A w \in Requests : request[w].order \in Orders \ irregular =>
           InStage(request[w]) /\ Carries(request[w])

AtWork(o, steps) == \E w \in Requests : request[w].order = o /\ request[w].at \in steps

(* Each order's material is settled once, at its time.                       *)
SettledOnce ==
    irregular = {} => \A o \in Orders :
        /\ ~Busy(o) => settled[o] = IF order[o].status \in Closed THEN 1 ELSE 0
        /\ AtWork(o, {"CANCELLED"}) => settled[o] = 1
        /\ AtWork(o, Steps \ {"CANCELLED"}) => settled[o] = 0

DispatchEnds ==
    \A o \in Orders \ irregular :
        order[o].status = "DELIVERED" \/ AtWork(o, {"DELIVERED"}) =>
            dispatch[o].status \in {"none", "COMPLETED"}

(* A vehicle out for an order that is handled regularly is the order's.      *)
VehicleOut ==
    \A o \in Orders \ irregular, v \in Vehicles : vehicle[v].order = o =>
        /\ v = order[o].vehicle
        /\ \/ order[o].status \in {"OUT_FOR_DELIVERY", "CANCELLED"}
              /\ ~AtWork(o, {"endDispatch", "DELIVERED"})
           \/ AtWork(o, {"OUT_FOR_DELIVERY"})

(* What a driver is out for.                                                 *)
Errand(d, o) ==
    /\ order[o].driver = d
    /\ \/ order[o].status \in {"OUT_FOR_DELIVERY", "DRIVER_ASSIGNED", "CANCELLED"}
          /\ ~AtWork(o, {"freeVehicle", "endDispatch", "DELIVERED"})
       \/ AtWork(o, {"takeVehicle", "OUT_FOR_DELIVERY"})

DriverOut ==
    irregular = {} => \A d \in Drivers :
        availability[d] = "ON_DELIVERY" => \E o \in Orders : Errand(d, o)

WellRun == Framed /\ Staged /\ SettledOnce /\ DispatchEnds /\ VehicleOut /\ DriverOut

-----------------------------------------------------------------------------
(* The steps, one by one. *)
LEMMA StepsAre ==
    Steps = {"ACCEPTED_BY_HUB", "PICKING", "PACKED", "HUB_ASSIGNED", "release", "CANCELLED",
             "cancelTx", "admin", "DRIVER_ASSIGNED", "readActivity", "sync",
             "startDispatch", "takeDriver", "takeVehicle", "OUT_FOR_DELIVERY", "planTx",
             "reached", "reachVehicle", "reachDispatched", "checkReached", "otp",
             "verified", "reread", "freeDriver", "freeVehicle", "endDispatch",
             "DELIVERED", "consume"}
  BY DEF Steps, Start, After

(* What follows each statement. *)
LEMMA AfterIs ==
    /\ DOMAIN After = {"release", "DRIVER_ASSIGNED", "readActivity", "startDispatch",
           "takeDriver", "takeVehicle", "reachDispatched", "checkReached", "reached",
           "verified", "reread", "freeDriver", "freeVehicle", "endDispatch", "DELIVERED"}
    /\ After["release"] = "CANCELLED" /\ After["DRIVER_ASSIGNED"] = "readActivity"
    /\ After["readActivity"] = "sync" /\ After["startDispatch"] = "takeDriver"
    /\ After["takeDriver"] = "takeVehicle" /\ After["takeVehicle"] = "OUT_FOR_DELIVERY"
    /\ After["reachDispatched"] = "checkReached" /\ After["checkReached"] = "reached"
    /\ After["reached"] = "reachVehicle" /\ After["verified"] = "reread"
    /\ After["reread"] = "freeDriver" /\ After["freeDriver"] = "freeVehicle"
    /\ After["freeVehicle"] = "endDispatch" /\ After["endDispatch"] = "DELIVERED"
    /\ After["DELIVERED"] = "consume"
  BY DEF After

(* The first statement of each handler. *)
LEMMA StartIs ==
    /\ DOMAIN Start = {"accept", "pick", "pack", "cancel", "customerCancel", "stay", "admin",
           "assignDriver", "dispatch", "plan", "reached", "dispatchReached", "otp", "verify",
           "complete"}
    /\ Start["accept"] = "ACCEPTED_BY_HUB" /\ Start["pick"] = "PICKING"
    /\ Start["pack"] = "PACKED" /\ Start["cancel"] = "release"
    /\ Start["customerCancel"] = "cancelTx" /\ Start["stay"] = "HUB_ASSIGNED"
    /\ Start["assignDriver"] = "DRIVER_ASSIGNED" /\ Start["dispatch"] = "startDispatch"
    /\ Start["plan"] = "planTx" /\ Start["reached"] = "reached"
    /\ Start["dispatchReached"] = "reachDispatched" /\ Start["otp"] = "otp"
    /\ Start["verify"] = "verified" /\ Start["complete"] = "reread"
  BY DEF Start

(* A frame goes on to the next statement, or ends. *)
LEMMA Following ==
    ASSUME NEW f
    PROVE  /\ f.at \in DOMAIN After =>
                /\ After[f.at] \in Steps \ {"admin", "planTx"}
                /\ Rest(f) = [f EXCEPT !.at = After[f.at]]
           /\ f.at \notin DOMAIN After => Rest(f) = Idle
  BY AfterIs, StepsAre DEF Rest

(* A frame keeps its type, and what it holds, from statement to statement. *)
LEMMA RestSound ==
    ASSUME NEW f \in Frame, Sound(f), f.at # "idle", f.at # "readActivity"
    PROVE  Rest(f) \in Frame /\ Sound(Rest(f)) /\ Rest(f).order \in {f.order, None}
<1> USE HubOrdersAssumption
<1>1. Idle \in Frame /\ Idle.order = None /\ Idle.at = "idle" /\ Sound(Idle)
  BY DEF Frame, Idle, Sound, DriverOrNone, VehicleOrNone, Ending
<1>2. CASE f.at \notin DOMAIN After
  BY <1>1, <1>2, Following
<1>3. CASE f.at \in DOMAIN After
  <2>1. Rest(f) = [f EXCEPT !.at = After[f.at]] /\ After[f.at] \in Steps \ {"admin", "planTx"}
    BY <1>3, Following
  <2>2. Rest(f) \in Frame /\ Rest(f).order = f.order /\ Rest(f).at = After[f.at]
        /\ Rest(f).driver = f.driver /\ Rest(f).vehicle = f.vehicle /\ Rest(f).next = f.next
    BY <2>1 DEF Frame
  <2>3. After[f.at] \notin {"idle", "admin", "planTx"}
    BY <2>1, StepsAre
  <2>4. After[f.at] \in {"DRIVER_ASSIGNED", "readActivity", "sync"} => f.at = "DRIVER_ASSIGNED"
    BY <1>3, AfterIs
  <2>5. After[f.at] \in Ending => f.at \in Ending
    BY <1>3, AfterIs DEF Ending
  <2>6. After[f.at] # "sync"
    BY <1>3, AfterIs
  <2> QED BY <2>2, <2>3, <2>4, <2>5, <2>6 DEF Sound
<1> QED BY <1>2, <1>3

(* What a frame holds stays true while histories grow. *)
LEMMA SoundStays ==
    ASSUME NEW f, Sound(f), irregular \subseteq irregular', entered \subseteq entered'
    PROVE  Sound(f)'
  BY DEF Sound

(* The frames after a statement. *)
LEMMA FramesContinue ==
    ASSUME request \in [Requests -> Frame], \A u \in Requests : Sound(request[u]),
           NEW w \in Requests, request[w].at \notin {"idle", "readActivity"},
           Continue(w), UNCHANGED <<entered, irregular>>
    PROVE  request' \in [Requests -> Frame] /\ (\A u \in Requests : Sound(request[u]))'
<1> DEFINE f == request[w]
           g == Rest(f)
<1>1. f \in Frame /\ Sound(f) /\ f.at \notin {"idle", "readActivity"}
  OBVIOUS
<1>2. g \in Frame /\ Sound(g)
  <2> HIDE DEF f
  <2> QED BY <1>1, RestSound
<1>3. request' = [request EXCEPT ![w] = g]
  BY DEF Continue
<1> HIDE DEF f, g
<1>4. request' \in [Requests -> Frame]
  BY <1>2, <1>3
<1>5. \A u \in Requests : Sound(request'[u])
  BY <1>2, <1>3
<1>6. \A u \in Requests : Sound(request[u])'
  BY <1>5 DEF Sound
<1> QED BY <1>4, <1>6

(* Nothing is settled: the account stays as it is. *)
LEMMA AccountStays ==
    ASSUME Accounted, UNCHANGED stockVars
    PROVE  Accounted'
  BY DEF Accounted, stockVars, MapThenSumSet, MapThenFoldSet

(* Settling an order's material takes one off what is reserved. *)
LEMMA AccountSettles ==
    ASSUME Accounted, settled \in [Orders -> Nat], NEW o \in Orders, Settle(o),
           reservedQty' = reservedQty - 1
    PROVE  Accounted' /\ settled' \in [Orders -> Nat]
<1> USE HubOrdersAssumption
<1>1. settled' \in [Orders -> Nat] /\ settled' = [settled EXCEPT ![o] = @ + 1]
  BY DEF Settle
<1>2. SumOf(settled', Orders) = SumOf(settled, Orders) + settled'[o] - settled[o]
  <2> SUFFICES ASSUME NEW f, f = settled, NEW g, g = settled'
               PROVE  SumOf(g, Orders) = SumOf(f, Orders) + g[o] - f[o]
    OBVIOUS
  <2>1. \A p \in Orders : f[p] \in Int /\ g[p] \in Int
    BY <1>1
  <2>2. \A p \in Orders \ {o} : g[p] = f[p]
    BY <1>1
  <2> HIDE <1>1
  <2> QED BY <2>1, <2>2, SumChange
<1>3. settled'[o] = settled[o] + 1 /\ settled[o] \in Nat
  BY <1>1
<1>4. SumOf(settled, Orders) \in Int /\ Cardinality(Orders) \in Int
  BY SumRemove, FS_CardinalityType
<1>5. reservedQty = Cardinality(Orders) - SumOf(settled, Orders)
  BY DEF Accounted, SumOf
<1>6. reservedQty' = Cardinality(Orders) - SumOf(settled', Orders)
  BY <1>2, <1>3, <1>4, <1>5
<1>7. Accounted'
  BY <1>6 DEF Accounted, SumOf, MapThenSumSet, MapThenFoldSet
<1> QED BY <1>1, <1>7

(* What transitionOrder does to the rows of the orders. *)
LEMMA TransitionWrites ==
    ASSUME Framed, NEW w \in Requests, NEW s \in Statuses, Transition(w, s),
           NEW o \in Orders, o = request[w].order
    PROVE  /\ order' \in [Orders -> Order]
           /\ \A p \in Orders \ {o} : order'[p] = order[p]
           /\ order'[o].status = s
           /\ s = "DRIVER_ASSIGNED" => order'[o].driver = request[w].driver
           /\ s # "DRIVER_ASSIGNED" => /\ order'[o].driver = order[o].driver
                                       /\ order'[o].vehicle = order[o].vehicle
           /\ order'[o].verified = order[o].verified \/ s = "DELIVERED"
<1>1. PICK f : f = request[w] /\ f \in Frame
  BY DEF Framed, TypeOK
<1>2. PICK t \in Order : t = order[o] /\ order \in [Orders -> Order]
  BY DEF Framed, TypeOK
<1> DEFINE row == [t EXCEPT
             !.status = s,
             !.driver = IF s = "DRIVER_ASSIGNED" THEN f.driver ELSE @,
             !.vehicle = IF s = "DRIVER_ASSIGNED" /\ f.vehicle # None THEN f.vehicle ELSE @,
             !.verified = IF s = "DELIVERED" THEN TRUE ELSE @]
<1>3. f.driver \in DriverOrNone /\ f.vehicle \in VehicleOrNone
  BY <1>1 DEF Frame
<1>4. /\ row \in Order /\ row.status = s
      /\ s = "DRIVER_ASSIGNED" => row.driver = f.driver
      /\ s # "DRIVER_ASSIGNED" => row.driver = t.driver /\ row.vehicle = t.vehicle
      /\ row.verified = t.verified \/ s = "DELIVERED"
  BY <1>3 DEF Order
<1>5. order' = [order EXCEPT ![o] = row]
  BY <1>1, <1>2 DEF Transition
<1> HIDE DEF row
<1> QED BY <1>1, <1>2, <1>4, <1>5

(* transitionOrder writes the status, and with it the driver or the code. *)
LEMMA FramedTransition ==
    ASSUME Framed, NEW w \in Requests, NEW s \in Statuses, Transition(w, s)
    PROVE  Framed'
<1> USE HubOrdersAssumption
<1> DEFINE f == request[w]
           o == f.order
<1>1. f \in Frame /\ Sound(f) /\ f.at = s /\ o \in Orders
  BY DEF Framed, TypeOK, Transition, At, Frame, Sound, Statuses
<1>2. order' \in [Orders -> Order]
  BY <1>1, TransitionWrites
<1>3. request' \in [Requests -> Frame] /\ (\A u \in Requests : Sound(request[u]))'
  BY <1>1, FramesContinue DEF Framed, TypeOK, Transition, History, Statuses
<1>4. TypeOK'
  BY <1>2, <1>3 DEF Framed, TypeOK, Transition, History, fleetVars, stockVars
<1>5. DeliveredWithCode'
  <2>1. DeliveredWithCode
    BY DEF Framed
  <2>2. entered' = entered /\ irregular' = irregular
    BY DEF Transition, History
  <2>3. f.at = "DELIVERED" => o \in entered
    BY <1>1 DEF Sound, Ending
  <2>4. /\ \A p \in Orders \ {o} : order'[p] = order[p]
        /\ order'[o].status = f.at
        /\ order'[o].verified = order[o].verified \/ f.at = "DELIVERED"
    BY <1>1, TransitionWrites
  <2> HIDE DEF f, o
  <2> QED BY <2>1, <2>2, <2>3, <2>4 DEF DeliveredWithCode
<1>6. Accounted'
  BY AccountStays DEF Framed, Transition
<1> QED BY <1>3, <1>4, <1>5, <1>6 DEF Framed

(* Release, the customer's cancellation and consumption take one off what is *)
(* reserved, or find nothing to take.                                        *)
LEMMA FramedStock ==
    ASSUME Framed, NEW w \in Requests, Release(w) \/ CancelTx(w) \/ Consume(w)
    PROVE  Framed'
<1> USE HubOrdersAssumption
<1> DEFINE f == request[w]
           o == f.order
<1>1. f \in Frame /\ Sound(f) /\ f.at \in {"release", "cancelTx", "consume"} /\ o \in Orders
  BY DEF Framed, TypeOK, Release, CancelTx, Consume, At, Frame, Sound
<1>2. order' \in [Orders -> Order]
  BY <1>1 DEF Framed, TypeOK, Release, CancelTx, Consume, Order, Statuses
<1>3. request' \in [Requests -> Frame] /\ (\A u \in Requests : Sound(request[u]))'
  BY <1>1, FramesContinue DEF Framed, TypeOK, Release, CancelTx, Consume, History
<1>4. UNCHANGED <<dispatch, fleetVars, History>>
  BY DEF Release, CancelTx, Consume
<1>5. \/ UNCHANGED stockVars
      \/ /\ Settle(o) /\ reservedQty >= 1 /\ reservedQty' = reservedQty - 1
         /\ availableQty' \in {availableQty, availableQty + 1}
  BY DEF Release, CancelTx, Consume, ReleaseStock
<1>6. Accounted' /\ availableQty' \in Nat /\ reservedQty' \in Nat /\ settled' \in [Orders -> Nat]
  BY <1>1, <1>5, AccountStays, AccountSettles DEF Framed, TypeOK, stockVars
<1>7. TypeOK'
  BY <1>2, <1>3, <1>4, <1>6 DEF Framed, TypeOK, fleetVars, History
<1>8. DeliveredWithCode'
  BY <1>1, <1>4 DEF Framed, TypeOK, Release, CancelTx, Consume, History, DeliveredWithCode, Order
<1> QED BY <1>3, <1>6, <1>7, <1>8 DEF Framed

(* Writing a driver keeps the types. *)
LEMMA SetDriverType ==
    ASSUME availability \in [Drivers -> Availabilities], NEW d \in DriverOrNone,
           NEW to \in Availabilities, SetDriver(d, to)
    PROVE  availability' \in [Drivers -> Availabilities]
  BY DEF SetDriver, DriverOrNone

(* The same for a vehicle. *)
LEMMA SetVehicleType ==
    ASSUME vehicle \in [Vehicles -> Vehicle], NEW v \in VehicleOrNone,
           NEW to \in {"AVAILABLE", "OUT_FOR_DELIVERY"}, NEW p \in Orders \cup {None},
           SetVehicle(v, to, p)
    PROVE  vehicle' \in [Vehicles -> Vehicle]
  BY DEF SetVehicle, VehicleOrNone, Vehicle

(* The statements about drivers, vehicles and the dispatch. *)
LEMMA FramedFleet ==
    ASSUME Framed, NEW w \in Requests,
           \/ SyncAvailability(w) \/ StartDispatch(w) \/ TakeDriver(w) \/ TakeVehicle(w)
           \/ ReachVehicle(w) \/ FreeDriver(w) \/ FreeVehicle(w) \/ EndDispatch(w)
    PROVE  Framed'
<1> USE HubOrdersAssumption
<1> DEFINE f == request[w]
           o == f.order
<1> USE DEF SyncAvailability, StartDispatch, TakeDriver, TakeVehicle, ReachVehicle,
            FreeDriver, FreeVehicle, EndDispatch
<1>1. f \in Frame /\ Sound(f) /\ f.at \notin {"idle", "readActivity"} /\ o \in Orders
  BY DEF Framed, TypeOK, At, Frame, Sound
<1>2. Continue(w) /\ UNCHANGED <<order, stockVars, History>>
  OBVIOUS
<1>3. f.driver \in DriverOrNone /\ f.vehicle \in VehicleOrNone
  BY <1>1 DEF Frame
<1>4. order \in [Orders -> Order] /\ dispatch \in [Orders -> Dispatch]
      /\ availability \in [Drivers -> Availabilities] /\ vehicle \in [Vehicles -> Vehicle]
  BY DEF Framed, TypeOK
<1>5. availability' \in [Drivers -> Availabilities]
  <2>1. CASE SyncAvailability(w)
    BY <1>1, <1>4, <2>1 DEF Sound, At
  <2>2. CASE UNCHANGED availability
    BY <1>4, <2>2
  <2>3. CASE TakeDriver(w) \/ FreeDriver(w)
    <3>1. PICK to \in Availabilities : SetDriver(f.driver, to)
      BY <2>3 DEF Availabilities
    <3> QED BY <1>3, <1>4, <3>1, SetDriverType
  <2> QED BY <2>1, <2>2, <2>3 DEF fleetVars
<1>6. vehicle' \in [Vehicles -> Vehicle]
  <2>1. CASE UNCHANGED vehicle
    BY <1>4, <2>1
  <2>2. CASE TakeVehicle(w) \/ FreeVehicle(w)
    <3>1. PICK to \in {"AVAILABLE", "OUT_FOR_DELIVERY"}, p \in Orders \cup {None} :
             SetVehicle(f.vehicle, to, p)
      BY <1>1, <2>2
    <3> QED BY <1>3, <1>4, <3>1, SetVehicleType
  <2>3. CASE ReachVehicle(w)
    <3>1. PICK v \in VehicleOrNone : Reach(v)
      BY <1>1, <1>3, <1>4, <2>3 DEF Dispatch
    <3> QED BY <1>4, <3>1 DEF Reach, Vehicle, VehicleOrNone
  <2> QED BY <2>1, <2>2, <2>3 DEF fleetVars
<1>7. dispatch' \in [Orders -> Dispatch]
  <2>1. CASE UNCHANGED dispatch
    BY <1>4, <2>1
  <2>2. CASE StartDispatch(w) \/ EndDispatch(w)
    <3>1. dispatch[o] \in Dispatch
      BY <1>1, <1>4
    <3>2. PICK row \in Dispatch : dispatch' = [dispatch EXCEPT ![o] = row]
      <4>1. CASE StartDispatch(w)
        <5> DEFINE row == [dispatch[o] EXCEPT
                 !.status = "IN_PROGRESS",
                 !.driver = IF f.driver = None THEN @ ELSE f.driver,
                 !.vehicle = IF f.vehicle = None THEN @ ELSE f.vehicle]
        <5>1. row \in Dispatch
          BY <1>3, <3>1 DEF Dispatch
        <5>2. dispatch' = [dispatch EXCEPT ![o] = row]
          BY <1>1, <1>4, <4>1
        <5> QED BY <5>1, <5>2
      <4>2. CASE EndDispatch(w)
        <5> DEFINE row == IF dispatch[o].status = "none" THEN dispatch[o]
                          ELSE [dispatch[o] EXCEPT !.status = "COMPLETED"]
        <5>1. row \in Dispatch
          BY <3>1 DEF Dispatch
        <5>2. dispatch' = [dispatch EXCEPT ![o] = row]
          BY <1>1, <1>4, <4>2
        <5> QED BY <5>1, <5>2
      <4> QED BY <2>2, <4>1, <4>2
    <3> QED BY <1>4, <3>2
  <2> QED BY <2>1, <2>2
<1> USE DEF SyncAvailability, StartDispatch
<1>8. request' \in [Requests -> Frame] /\ (\A u \in Requests : Sound(request[u]))'
  BY <1>1, <1>2, FramesContinue DEF Framed, TypeOK, History
<1>9. TypeOK'
  BY <1>2, <1>5, <1>6, <1>7, <1>8 DEF Framed, TypeOK, stockVars, History
<1>10. DeliveredWithCode'
  BY <1>2 DEF Framed, History, DeliveredWithCode
<1>11. Accounted'
  BY <1>2, AccountStays DEF Framed
<1> QED BY <1>8, <1>9, <1>10, <1>11 DEF Framed

(* The statements that mark the order, and the transaction of planAndDispatch. *)
(* What the statements about plan, arrival and code do to the rows of orders. *)
LEMMA OrderWrites ==
    ASSUME Framed, NEW w \in Requests,
           PlanTx(w) \/ Reached(w) \/ GenerateOtp(w) \/ Verified(w),
           NEW o \in Orders, o = request[w].order
    PROVE  /\ order' \in [Orders -> Order]
           /\ \A p \in Orders \ {o} : order'[p] = order[p]
           /\ PlanTx(w) => /\ order'[o].status = "OUT_FOR_DELIVERY"
                           /\ order'[o].driver = request[w].driver
                           /\ order'[o].vehicle = request[w].vehicle
                           /\ order'[o].verified = order[o].verified
           /\ ~PlanTx(w) => /\ order'[o].status = order[o].status
                            /\ order'[o].driver = order[o].driver
                            /\ order'[o].vehicle = order[o].vehicle
           /\ Verified(w) \/ (order'[o].verified => order[o].verified)
<1>1. PICK f : f = request[w] /\ f \in Frame
  BY DEF Framed, TypeOK
<1>2. PICK t \in Order : t = order[o] /\ order \in [Orders -> Order]
  BY DEF Framed, TypeOK
<1>3. f.driver \in DriverOrNone /\ f.vehicle \in VehicleOrNone
  BY <1>1 DEF Frame
<1> DEFINE Gives(row) ==
             /\ row \in Order
             /\ order' = [order EXCEPT ![o] = row]
             /\ PlanTx(w) => /\ row.status = "OUT_FOR_DELIVERY" /\ row.verified = t.verified
                             /\ row.driver = f.driver /\ row.vehicle = f.vehicle
             /\ ~PlanTx(w) => /\ row.status = t.status /\ row.driver = t.driver
                              /\ row.vehicle = t.vehicle
             /\ Verified(w) \/ (row.verified => t.verified)
<1>4. CASE PlanTx(w)
  <2> DEFINE row == [t EXCEPT !.status = "OUT_FOR_DELIVERY", !.driver = f.driver,
                              !.vehicle = f.vehicle]
  <2>1. row \in Order /\ row.status = "OUT_FOR_DELIVERY" /\ row.driver = f.driver
        /\ row.vehicle = f.vehicle /\ row.verified = t.verified
    BY <1>3 DEF Order, Statuses
  <2>2. order' = [order EXCEPT ![o] = row]
    BY <1>1, <1>2, <1>4 DEF PlanTx
  <2> HIDE DEF row
  <2>3. Gives(row)
    BY <1>4, <2>1, <2>2
  <2> QED BY <1>1, <1>2, <2>3
<1>5. CASE ~PlanTx(w)
  <2>1. PICK row \in Order : /\ row.status = t.status /\ row.driver = t.driver
                             /\ row.vehicle = t.vehicle
                             /\ order' = [order EXCEPT ![o] = row]
                             /\ Verified(w) \/ (row.verified => t.verified)
    <3>1. CASE Reached(w)
      <4> DEFINE row == [t EXCEPT !.reached = TRUE]
      <4>1. row \in Order /\ row.status = t.status /\ row.driver = t.driver
            /\ row.vehicle = t.vehicle /\ row.verified = t.verified
        BY DEF Order
      <4>2. order' = [order EXCEPT ![o] = row]
        BY <1>2, <3>1 DEF Reached
      <4> HIDE DEF row
      <4> QED BY <4>1, <4>2
    <3>2. CASE GenerateOtp(w)
      <4> DEFINE row == [t EXCEPT !.otp = TRUE, !.verified = FALSE]
      <4>1. row \in Order /\ row.status = t.status /\ row.driver = t.driver
            /\ row.vehicle = t.vehicle /\ ~row.verified
        BY DEF Order
      <4>2. order' = [order EXCEPT ![o] = row]
        BY <1>2, <3>2 DEF GenerateOtp
      <4> HIDE DEF row
      <4> QED BY <4>1, <4>2
    <3>3. CASE Verified(w)
      <4> DEFINE row == [t EXCEPT !.verified = TRUE]
      <4>1. row \in Order /\ row.status = t.status /\ row.driver = t.driver
            /\ row.vehicle = t.vehicle
        BY DEF Order
      <4>2. order' = [order EXCEPT ![o] = row]
        BY <1>2, <3>3 DEF Verified
      <4> HIDE DEF row
      <4> QED BY <3>3, <4>1, <4>2
    <3> QED BY <1>5, <3>1, <3>2, <3>3
  <2>2. Gives(row)
    BY <1>5, <2>1
  <2> QED BY <1>1, <1>2, <2>2
<1> QED BY <1>4, <1>5

LEMMA FramedOrder ==
    ASSUME Framed, NEW w \in Requests,
           PlanTx(w) \/ Reached(w) \/ GenerateOtp(w) \/ Verified(w)
    PROVE  Framed'
<1> USE HubOrdersAssumption
<1> DEFINE f == request[w]
           o == f.order
<1> USE DEF PlanTx, Reached, GenerateOtp, Verified
<1>1. f \in Frame /\ Sound(f) /\ f.at \in {"planTx", "reached", "otp", "verified"} /\ o \in Orders
  BY DEF Framed, TypeOK, At, Frame, Sound
<1>2. Continue(w) /\ UNCHANGED <<stockVars, History>>
  OBVIOUS
<1>3. order \in [Orders -> Order] /\ dispatch \in [Orders -> Dispatch]
      /\ availability \in [Drivers -> Availabilities] /\ vehicle \in [Vehicles -> Vehicle]
      /\ f.driver \in DriverOrNone /\ f.vehicle \in VehicleOrNone /\ order[o] \in Order
  BY <1>1 DEF Framed, TypeOK, Frame
<1>4. order' \in [Orders -> Order]
  <2> HIDE DEF PlanTx, Reached, GenerateOtp, Verified
  <2> QED BY <1>1, OrderWrites
<1>5. dispatch' \in [Orders -> Dispatch]
  <2>1. [status |-> "IN_PROGRESS", driver |-> f.driver, vehicle |-> f.vehicle] \in Dispatch
    BY <1>3 DEF Dispatch
  <2>2. CASE PlanTx(w)
    BY <1>1, <1>3, <2>1, <2>2
  <2>3. CASE ~PlanTx(w)
    BY <1>3, <2>3
  <2> QED BY <2>2, <2>3
<1>6. availability' \in [Drivers -> Availabilities] /\ vehicle' \in [Vehicles -> Vehicle]
  <2>1. CASE PlanTx(w)
    <3>1. SetDriver(f.driver, "ON_DELIVERY") /\ SetVehicle(f.vehicle, "OUT_FOR_DELIVERY", o)
      BY <2>1
    <3>2. [status |-> "OUT_FOR_DELIVERY", order |-> o] \in Vehicle
      BY <1>1 DEF Vehicle
    <3>3. "ON_DELIVERY" \in Availabilities
      BY DEF Availabilities
    <3> HIDE DEF f, o, PlanTx
    <3>4. availability' \in [Drivers -> Availabilities]
      BY <1>3, <3>1, <3>3 DEF SetDriver
    <3>5. vehicle' \in [Vehicles -> Vehicle]
      BY <1>3, <3>1, <3>2 DEF SetVehicle
    <3> QED BY <3>4, <3>5
  <2>2. CASE ~PlanTx(w)
    <3>1. UNCHANGED fleetVars
      BY <2>2
    <3> QED BY <1>3, <3>1 DEF fleetVars
  <2> QED BY <2>1, <2>2
<1>7. request' \in [Requests -> Frame] /\ (\A u \in Requests : Sound(request[u]))'
  BY <1>1, <1>2, FramesContinue DEF Framed, TypeOK, History
<1>8. TypeOK'
  BY <1>2, <1>4, <1>5, <1>6, <1>7 DEF Framed, TypeOK, stockVars, History
<1>9. DeliveredWithCode'
  <2>1. Verified(w) => o \in entered
    BY <1>1 DEF Sound, Ending, At
  <2> HIDE DEF PlanTx, Reached, GenerateOtp, Verified
  <2>2. /\ \A p \in Orders \ {o} : order'[p] = order[p]
        /\ order'[o].status \in {order[o].status, "OUT_FOR_DELIVERY"}
        /\ order'[o].verified => order[o].verified \/ o \in entered
    BY <1>1, <2>1, OrderWrites
  <2>3. DeliveredWithCode /\ entered' = entered /\ irregular' = irregular
    BY <1>2 DEF Framed, History
  <2> HIDE DEF o
  <2> QED BY <1>1, <2>2, <2>3 DEF DeliveredWithCode
<1>10. Accounted'
  BY <1>2, AccountStays DEF Framed
<1> QED BY <1>7, <1>8, <1>9, <1>10 DEF Framed

(* The statements that only read. *)
LEMMA FramedReads ==
    ASSUME Framed, NEW w \in Requests, ReadActivity(w) \/ CheckReached(w) \/ Reread(w)
    PROVE  Framed'
<1> USE HubOrdersAssumption
<1> DEFINE f == request[w]
           o == f.order
<1> USE DEF ReadActivity, CheckReached, Reread
<1>1. f \in Frame /\ Sound(f) /\ f.at \in {"readActivity", "checkReached", "reread"}
      /\ o \in Orders
  BY DEF Framed, TypeOK, At, Frame, Sound
<1>2. UNCHANGED <<order, dispatch, fleetVars, stockVars, History>>
  OBVIOUS
<1>3. Rest(f) = [f EXCEPT !.at = After[f.at]] /\ After[f.at] \in {"sync", "reached", "freeDriver"}
      /\ (After[f.at] = "sync" <=> f.at = "readActivity")
  BY <1>1, Following, AfterIs
<1>4. order[o].driver \in DriverOrNone /\ order[o].vehicle \in VehicleOrNone
  BY <1>1 DEF Framed, TypeOK, Order
<1>5. PICK g : /\ request' = [request EXCEPT ![w] = g] /\ g \in Frame
               /\ g.order = None <=> g.at = "idle"
               /\ g.at \in {"idle", "sync", "reached", "freeDriver"}
               /\ g.at = "sync" => g.driver \in Drivers /\ g.next \in Availabilities
               /\ g.at = "freeDriver" => g.order \in entered
  <2> DEFINE Fits(g) ==
               /\ g \in Frame
               /\ g.order = None <=> g.at = "idle"
               /\ g.at \in {"idle", "sync", "reached", "freeDriver"}
               /\ g.at = "sync" => g.driver \in Drivers /\ g.next \in Availabilities
               /\ g.at = "freeDriver" => g.order \in entered
  <2>1. Fits(Idle)
    BY DEF Frame, Idle, DriverOrNone, VehicleOrNone
  <2>2. CASE ReadActivity(w)
    <3> DEFINE g == [Rest(f) EXCEPT !.next = Derived(f.driver)]
    <3>1. f.at = "readActivity" /\ f.driver \in Drivers /\ Derived(f.driver) \in Availabilities
      BY <1>1, <2>2 DEF Sound, At, Derived, Availabilities
    <3>2. Fits(g)
      BY <1>1, <1>3, <3>1, StepsAre DEF Frame
    <3>3. request' = [request EXCEPT ![w] = IF Derived(f.driver) = availability[f.driver]
                                            THEN Idle ELSE g]
      BY <2>2
    <3> HIDE DEF g
    <3> QED BY <2>1, <3>2, <3>3
  <2>3. CASE CheckReached(w)
    <3> DEFINE g == [Rest(f) EXCEPT !.vehicle = order[o].vehicle]
    <3>1. f.at = "checkReached"
      BY <2>3 DEF At
    <3>2. Fits(g)
      <4>1. Rest(f) \in Frame /\ Rest(f).order = o /\ Rest(f).at = After[f.at] /\ o # None
        BY <1>1, <1>3, StepsAre DEF Frame
      <4>2. g \in Frame /\ g.order = o /\ g.at = After[f.at]
        <5> HIDE DEF o
        <5> QED BY <1>4, <4>1 DEF Frame
      <4> HIDE DEF g, o, f
      <4> QED BY <3>1, <4>1, <4>2, AfterIs
    <3>3. \/ request' = [request EXCEPT ![w] = Idle]
          \/ request' = [request EXCEPT ![w] = g]
      BY <2>3
    <3> HIDE DEF g
    <3> QED BY <2>1, <3>2, <3>3
  <2>4. CASE Reread(w)
    <3> DEFINE g == [Rest(f) EXCEPT !.driver = order[o].driver, !.vehicle = order[o].vehicle]
    <3>1. f.at = "reread" /\ o \in entered
      BY <1>1, <2>4 DEF At, Sound, Ending
    <3>2. Fits(g)
      <4>1. Rest(f) \in Frame /\ Rest(f).order = o /\ Rest(f).at = After[f.at] /\ o # None
        BY <1>1, <1>3, StepsAre DEF Frame
      <4>2. g \in Frame /\ g.order = o /\ g.at = After[f.at]
        <5> HIDE DEF o
        <5> QED BY <1>4, <4>1 DEF Frame
      <4> HIDE DEF g, o, f
      <4> QED BY <3>1, <4>1, <4>2, AfterIs
    <3>3. \/ request' = [request EXCEPT ![w] = Idle]
          \/ request' = [request EXCEPT ![w] = g]
      BY <2>4
    <3> HIDE DEF g
    <3> QED BY <2>1, <3>2, <3>3
  <2> QED BY <2>2, <2>3, <2>4
<1>6. Sound(g)
  BY <1>5 DEF Sound, Ending
<1>7. request' \in [Requests -> Frame]
  BY <1>5 DEF Framed, TypeOK
<1>8. (\A u \in Requests : Sound(request[u]))'
  BY <1>2, <1>5, <1>6 DEF Framed, TypeOK, Sound, History
<1>9. TypeOK'
  BY <1>2, <1>7 DEF Framed, TypeOK, fleetVars, stockVars, History
<1>10. DeliveredWithCode'
  BY <1>2 DEF Framed, History, DeliveredWithCode
<1>11. Accounted'
  BY <1>2, AccountStays DEF Framed
<1> QED BY <1>8, <1>9, <1>10, <1>11 DEF Framed

(* The administrator's write. *)
LEMMA FramedAdmin ==
    ASSUME Framed, NEW w \in Requests, AdminWrites(w)
    PROVE  Framed'
<1> USE HubOrdersAssumption
<1> DEFINE f == request[w]
           o == f.order
<1>1. f \in Frame /\ Sound(f) /\ f.at = "admin" /\ o \in Orders
  BY DEF Framed, TypeOK, AdminWrites, At, Frame, Sound
<1>2. f.next \in Statuses /\ o \in irregular
  BY <1>1 DEF Sound
<1>3. order' \in [Orders -> Order]
  BY <1>1, <1>2 DEF Framed, TypeOK, AdminWrites, Order
<1>4. Rest(f) = Idle
  BY <1>1, Following, AfterIs
<1>5. Continue(w) /\ UNCHANGED <<dispatch, fleetVars, stockVars, History>>
  BY <1>4 DEF AdminWrites, Continue, History
<1>6. request' \in [Requests -> Frame] /\ (\A u \in Requests : Sound(request[u]))'
  BY <1>1, <1>5, FramesContinue DEF Framed, TypeOK, History
<1>7. TypeOK'
  BY <1>3, <1>5, <1>6 DEF Framed, TypeOK, fleetVars, stockVars, History
<1>8. DeliveredWithCode'
  BY <1>1, <1>2, <1>5 DEF Framed, TypeOK, AdminWrites, History, DeliveredWithCode, Order
<1>9. Accounted'
  BY <1>5, AccountStays DEF Framed
<1> QED BY <1>6, <1>7, <1>8, <1>9 DEF Framed

(* The writes that need one statement only. *)
LEMMA FramedDirect ==
    ASSUME Framed, NEW o \in Orders, NEW d \in DriverOrNone, NEW v \in VehicleOrNone,
           NEW s \in Statuses,
           \/ v \in Vehicles /\ AssignVehicle(o, v)
           \/ DraftDispatch(o, d, v) \/ UpdateDispatch(o, d, v)
           \/ d \in Drivers /\ AdminAssignDriver(o, d, v)
           \/ WriteStatus(o, s)
    PROVE  Framed'
<1> USE HubOrdersAssumption
<1>1. UNCHANGED <<fleetVars, stockVars, request, entered>>
  BY DEF AssignVehicle, DraftDispatch, UpdateDispatch, AdminAssignDriver, WriteStatus
<1>2. PICK allowed \in BOOLEAN : /\ Call(o, allowed)
                                 /\ DraftDispatch(o, d, v) \/ UpdateDispatch(o, d, v)
                                    \/ AdminAssignDriver(o, d, v) \/ WriteStatus(o, s) => ~allowed
  BY DEF AssignVehicle, DraftDispatch, UpdateDispatch, AdminAssignDriver, WriteStatus
<1>3. /\ irregular \subseteq irregular' /\ irregular' \subseteq Orders
      /\ irregularCalls' \in 0..MaxIrregular
      /\ ~allowed => o \in irregular'
  BY <1>2 DEF Framed, TypeOK, Call
<1>4. order[o] \in Order /\ dispatch[o] \in Dispatch /\ order \in [Orders -> Order]
      /\ dispatch \in [Orders -> Dispatch]
  BY DEF Framed, TypeOK
<1>5. PICK row \in Order : /\ order' = [order EXCEPT ![o] = row]
                           /\ row.verified = order[o].verified
                           /\ row.status = order[o].status \/ ~allowed
  <2>1. CASE v \in Vehicles /\ AssignVehicle(o, v)
    <3>1. [order[o] EXCEPT !.vehicle = v] \in Order
      BY <1>4 DEF Order
    <3>2. /\ [order[o] EXCEPT !.vehicle = v].verified = order[o].verified
          /\ [order[o] EXCEPT !.vehicle = v].status = order[o].status
      BY <1>4 DEF Order
    <3> QED BY <1>4, <2>1, <3>1, <3>2 DEF AssignVehicle
  <2>2. CASE DraftDispatch(o, d, v) \/ UpdateDispatch(o, d, v)
    <3>1. order' = order /\ order' = [order EXCEPT ![o] = order[o]]
      BY <1>4, <2>2 DEF DraftDispatch, UpdateDispatch
    <3> QED BY <1>4, <3>1
  <2>3. CASE d \in Drivers /\ AdminAssignDriver(o, d, v)
    <3> DEFINE row == [order[o] EXCEPT !.status = "DRIVER_ASSIGNED", !.driver = d,
                                       !.vehicle = IF v = None THEN @ ELSE v]
    <3>1. row \in Order /\ row.verified = order[o].verified
      BY <1>4, <2>3 DEF Order, Statuses, DriverOrNone
    <3>2. order' = [order EXCEPT ![o] = row]
      BY <1>4, <2>3 DEF AdminAssignDriver
    <3> HIDE DEF row
    <3> QED BY <1>2, <2>3, <3>1, <3>2
  <2>4. CASE WriteStatus(o, s)
    <3>1. /\ [order[o] EXCEPT !.status = s] \in Order
          /\ [order[o] EXCEPT !.status = s].verified = order[o].verified
      BY <1>4 DEF Order
    <3>2. order' = [order EXCEPT ![o] = [order[o] EXCEPT !.status = s]]
      BY <1>4, <2>4 DEF WriteStatus
    <3> QED BY <1>2, <2>4, <3>1, <3>2
  <2> QED BY <2>1, <2>2, <2>3, <2>4
<1>6. PICK row2 \in Dispatch : dispatch' = [dispatch EXCEPT ![o] = row2]
  <2>1. CASE UNCHANGED dispatch
    BY <1>4, <2>1
  <2>2. CASE DraftDispatch(o, d, v) \/ UpdateDispatch(o, d, v)
    <3> DEFINE row2(s2) == [dispatch[o] EXCEPT !.status = s2,
                                               !.driver = IF d = None THEN @ ELSE d,
                                               !.vehicle = IF v = None THEN @ ELSE v]
    <3>1. row2("PENDING") \in Dispatch /\ row2(dispatch[o].status) \in Dispatch
      BY <1>4 DEF Dispatch
    <3>2. \/ dispatch' = [dispatch EXCEPT ![o] = row2("PENDING")]
          \/ dispatch' = [dispatch EXCEPT ![o] = row2(dispatch[o].status)]
      <4>1. CASE DraftDispatch(o, d, v)
        <5>1. dispatch' = [dispatch EXCEPT ![o] = row2("PENDING")]
          BY <1>4, <4>1 DEF DraftDispatch
        <5> QED BY <5>1
      <4>2. CASE UpdateDispatch(o, d, v)
        <5>1. dispatch[o] = [dispatch[o] EXCEPT !.status = @]
          BY <1>4 DEF Dispatch
        <5>2. dispatch' = [dispatch EXCEPT ![o] = row2(dispatch[o].status)]
          BY <1>4, <4>2, <5>1 DEF UpdateDispatch
        <5> QED BY <5>2
      <4> QED BY <2>2, <4>1, <4>2
    <3> HIDE DEF row2
    <3> QED BY <3>1, <3>2
  <2> QED BY <2>1, <2>2 DEF AssignVehicle, AdminAssignDriver, WriteStatus
<1>7. TypeOK'
  BY <1>1, <1>3, <1>4, <1>5, <1>6 DEF Framed, TypeOK, fleetVars, stockVars
<1>8. (\A u \in Requests : Sound(request[u]))'
  BY <1>1, <1>3 DEF Framed, Sound
<1>9. DeliveredWithCode'
  BY <1>1, <1>3, <1>4, <1>5 DEF Framed, DeliveredWithCode
<1>10. Accounted'
  BY <1>1, AccountStays DEF Framed
<1> QED BY <1>7, <1>8, <1>9, <1>10 DEF Framed

(* A request begins: its frame holds what its first statement needs. *)
LEMMA FramedBegin ==
    ASSUME Framed, NEW w \in Requests, NEW o \in Orders, NEW op \in DOMAIN Start \ {"admin"},
           NEW d \in DriverOrNone, NEW v \in VehicleOrNone, NEW allowed \in BOOLEAN,
           Begin(w, o, op, d, v, allowed),
           entered \subseteq entered', entered' \subseteq Orders,
           op \in {"assignDriver", "plan"} => d \in Drivers,
           op = "plan" => v \in Vehicles,
           op \in {"verify", "complete"} => o \in entered'
    PROVE  Framed'
<1> USE HubOrdersAssumption
<1> DEFINE f == [order |-> o, at |-> Start[op], driver |-> d, vehicle |-> v, next |-> None]
<1>1. request' = [request EXCEPT ![w] = f]
      /\ UNCHANGED <<order, dispatch, fleetVars, stockVars>>
  BY DEF Begin
<1>2. /\ Start[op] \in Steps \ {"idle", "admin"}
      /\ Start[op] \notin {"readActivity", "sync"}
      /\ Start[op] = "DRIVER_ASSIGNED" => op = "assignDriver"
      /\ Start[op] = "planTx" => op = "plan"
      /\ Start[op] \in Ending => op \in {"verify", "complete"}
  BY StepsAre DEF Start, Ending
<1>3. f \in Frame
  BY <1>2 DEF Frame
<1>4. /\ irregular \subseteq irregular' /\ irregular' \subseteq Orders
      /\ irregularCalls' \in 0..MaxIrregular
  BY DEF Framed, TypeOK, Call, Begin
<1>5. Sound(f)'
  BY <1>2 DEF Sound
<1>6. request' \in [Requests -> Frame]
  BY <1>1, <1>3 DEF Framed, TypeOK
<1>7. (\A u \in Requests : Sound(request[u]))'
  <2> SUFFICES ASSUME NEW u \in Requests, NEW g, g = request'[u]
               PROVE  Sound(g)'
    BY DEF Sound
  <2>1. CASE u = w
    BY <1>1, <1>5, <2>1 DEF Framed, TypeOK, Sound
  <2>2. CASE u # w
    <3>1. g = request[u] /\ Sound(g)
      BY <1>1, <2>2 DEF Framed, TypeOK
    <3> QED BY <1>4, <3>1, SoundStays
  <2> QED BY <2>1, <2>2
<1>8. TypeOK'
  BY <1>1, <1>4, <1>6 DEF Framed, TypeOK, fleetVars, stockVars
<1>9. DeliveredWithCode'
  BY <1>1, <1>4 DEF Framed, DeliveredWithCode
<1>10. Accounted'
  BY <1>1, AccountStays DEF Framed
<1> QED BY <1>7, <1>8, <1>9, <1>10 DEF Framed

(* The frame that a call makes. *)
Opened(o, op, d, v) ==
    [order |-> o, at |-> Start[op], driver |-> d, vehicle |-> v, next |-> None]

Opens(w, o, op, d, v, allowed) ==
    /\ Begin(w, o, op, d, v, allowed)
    /\ entered \subseteq entered' /\ entered' \subseteq Orders
    /\ op \in {"assignDriver", "plan"} => d \in Drivers
    /\ op = "plan" => v \in Vehicles
    /\ op \in {"verify", "complete"} => o \in entered'
    /\ allowed => InStage(Opened(o, op, d, v)) /\ Carries(Opened(o, op, d, v))

(* What a handler asks of an order lets its first statement be executed, when *)
(* the status it leads to is one that ORDER_STATUS_TRANSITIONS allows.       *)
LEMMA Openings ==
    ASSUME Framed, NEW w \in Requests, NEW o \in Orders, Arrival(w, o)
    PROVE  \E op \in DOMAIN Start \ {"admin"}, d \in DriverOrNone, v \in VehicleOrNone,
              allowed \in BOOLEAN : Opens(w, o, op, d, v, allowed)
<1> DEFINE Goal == \E op \in DOMAIN Start \ {"admin"}, d \in DriverOrNone,
                      v \in VehicleOrNone, allowed \in BOOLEAN : Opens(w, o, op, d, v, allowed)
           d0 == order[o].driver
           v0 == order[o].vehicle
<1>1. order[o] \in Order /\ d0 \in DriverOrNone /\ v0 \in VehicleOrNone
      /\ entered \subseteq Orders /\ (order[o].verified => o \in entered)
  BY DEF Framed, TypeOK, Order, DeliveredWithCode
<1>2. ASSUME NEW op \in DOMAIN Start \ {"admin", "assignDriver", "plan"}, NEW allowed \in BOOLEAN,
             BeginAsRead(w, o, op, allowed), entered \subseteq entered', entered' \subseteq Orders,
             op \in {"verify", "complete"} => o \in entered',
             allowed => InStage(Opened(o, op, d0, v0))
      PROVE  Goal
  <2>1. Carries(Opened(o, op, d0, v0))
    BY <1>1 DEF Opened, Carries, Start
  <2>2. Opens(w, o, op, d0, v0, allowed)
    BY <1>2, <2>1 DEF Opens, BeginAsRead
  <2> HIDE DEF d0, v0
  <2> QED BY <1>1, <1>2, <2>2
<1> DEFINE s == order[o].status
<1>3. /\ s \in Statuses
      /\ LeadsTo(o, "PICKING") => s \in {"ACCEPTED_BY_HUB", "PROCESSING"}
      /\ LeadsTo(o, "PACKED") => s \in {"ACCEPTED_BY_HUB", "PROCESSING", "PICKING"}
      /\ LeadsTo(o, "CANCELLED") => s \notin Closed
      /\ LeadsTo(o, "DRIVER_ASSIGNED") => s = "PACKED"
      /\ LeadsTo(o, "OUT_FOR_DELIVERY") => s \in {"PACKED", "DRIVER_ASSIGNED"}
      /\ LeadsTo(o, "DELIVERED") => s = "OUT_FOR_DELIVERY"
      /\ \A t \in Statuses : LeadsTo(o, t) \in BOOLEAN
  BY <1>1 DEF Order, LeadsTo, Transitions, Statuses, Closed
<1>4. \A op \in DOMAIN Start : \A d, v :
        Opened(o, op, d, v).order = o /\ Opened(o, op, d, v).at = Start[op]
  BY DEF Opened
<1>5. CASE AcceptOrder(w, o)
  <2>1. BeginAsRead(w, o, "accept", TRUE) /\ TRUE \in BOOLEAN
    BY <1>1, <1>3, <1>5 DEF AcceptOrder, Order, Statuses
  <2>2. TRUE => InStage(Opened(o, "accept", d0, v0))
    <3>1. Opened(o, "accept", d0, v0).order = o /\ Opened(o, "accept", d0, v0).at = "ACCEPTED_BY_HUB"
      BY <1>4, StartIs
    <3> QED BY <1>3, <1>5, <3>1 DEF AcceptOrder, InStage, Closed
  <2>3. entered \subseteq entered' /\ entered' \subseteq Orders
    BY <1>1, <1>5 DEF AcceptOrder
  <2>4. "accept" \in DOMAIN Start
    BY DEF Start
  <2> QED BY <1>2, <2>1, <2>2, <2>3, <2>4
<1>6. CASE MarkPicking(w, o)
  <2>1. BeginAsRead(w, o, "pick", LeadsTo(o, "PICKING")) /\ LeadsTo(o, "PICKING") \in BOOLEAN
    BY <1>1, <1>3, <1>6 DEF MarkPicking, Order, Statuses
  <2>2. LeadsTo(o, "PICKING") => InStage(Opened(o, "pick", d0, v0))
    <3>1. Opened(o, "pick", d0, v0).order = o /\ Opened(o, "pick", d0, v0).at = "PICKING"
      BY <1>4, StartIs
    <3> QED BY <1>3, <1>6, <3>1 DEF MarkPicking, InStage, Closed
  <2>3. entered \subseteq entered' /\ entered' \subseteq Orders
    BY <1>1, <1>6 DEF MarkPicking
  <2>4. "pick" \in DOMAIN Start
    BY DEF Start
  <2> QED BY <1>2, <2>1, <2>2, <2>3, <2>4
<1>7. CASE MarkPacked(w, o)
  <2>1. BeginAsRead(w, o, "pack", LeadsTo(o, "PACKED")) /\ LeadsTo(o, "PACKED") \in BOOLEAN
    BY <1>1, <1>3, <1>7 DEF MarkPacked, Order, Statuses
  <2>2. LeadsTo(o, "PACKED") => InStage(Opened(o, "pack", d0, v0))
    <3>1. Opened(o, "pack", d0, v0).order = o /\ Opened(o, "pack", d0, v0).at = "PACKED"
      BY <1>4, StartIs
    <3> QED BY <1>3, <1>7, <3>1 DEF MarkPacked, InStage, Closed
  <2>3. entered \subseteq entered' /\ entered' \subseteq Orders
    BY <1>1, <1>7 DEF MarkPacked
  <2>4. "pack" \in DOMAIN Start
    BY DEF Start
  <2> QED BY <1>2, <2>1, <2>2, <2>3, <2>4
<1>8. CASE StayAssigned(w, o)
  <2>1. BeginAsRead(w, o, "stay", TRUE) /\ TRUE \in BOOLEAN
    BY <1>1, <1>3, <1>8 DEF StayAssigned, Order, Statuses
  <2>2. TRUE => InStage(Opened(o, "stay", d0, v0))
    <3>1. Opened(o, "stay", d0, v0).order = o /\ Opened(o, "stay", d0, v0).at = "HUB_ASSIGNED"
      BY <1>4, StartIs
    <3> QED BY <1>3, <1>8, <3>1 DEF StayAssigned, InStage, Closed
  <2>3. entered \subseteq entered' /\ entered' \subseteq Orders
    BY <1>1, <1>8 DEF StayAssigned
  <2>4. "stay" \in DOMAIN Start
    BY DEF Start
  <2> QED BY <1>2, <2>1, <2>2, <2>3, <2>4
<1>9. CASE Cancel(w, o)
  <2>1. BeginAsRead(w, o, "cancel", LeadsTo(o, "CANCELLED")) /\ LeadsTo(o, "CANCELLED") \in BOOLEAN
    BY <1>1, <1>3, <1>9 DEF Cancel, Order, Statuses
  <2>2. LeadsTo(o, "CANCELLED") => InStage(Opened(o, "cancel", d0, v0))
    <3>1. Opened(o, "cancel", d0, v0).order = o /\ Opened(o, "cancel", d0, v0).at = "release"
      BY <1>4, StartIs
    <3> QED BY <1>3, <1>9, <3>1 DEF Cancel, InStage, Closed
  <2>3. entered \subseteq entered' /\ entered' \subseteq Orders
    BY <1>1, <1>9 DEF Cancel
  <2>4. "cancel" \in DOMAIN Start
    BY DEF Start
  <2> QED BY <1>2, <2>1, <2>2, <2>3, <2>4
<1>10. CASE CustomerCancel(w, o)
  <2>1. BeginAsRead(w, o, "customerCancel", TRUE) /\ TRUE \in BOOLEAN
    BY <1>1, <1>3, <1>10 DEF CustomerCancel, Order, Statuses
  <2>2. TRUE => InStage(Opened(o, "customerCancel", d0, v0))
    <3>1. Opened(o, "customerCancel", d0, v0).order = o /\ Opened(o, "customerCancel", d0, v0).at = "cancelTx"
      BY <1>4, StartIs
    <3> QED BY <1>3, <1>10, <3>1 DEF CustomerCancel, InStage, Closed
  <2>3. entered \subseteq entered' /\ entered' \subseteq Orders
    BY <1>1, <1>10 DEF CustomerCancel
  <2>4. "customerCancel" \in DOMAIN Start
    BY DEF Start
  <2> QED BY <1>2, <2>1, <2>2, <2>3, <2>4
<1>11. CASE DispatchOrder(w, o)
  <2>1. BeginAsRead(w, o, "dispatch", LeadsTo(o, "OUT_FOR_DELIVERY")) /\ LeadsTo(o, "OUT_FOR_DELIVERY") \in BOOLEAN
    BY <1>1, <1>3, <1>11 DEF DispatchOrder, Order, Statuses
  <2>2. LeadsTo(o, "OUT_FOR_DELIVERY") => InStage(Opened(o, "dispatch", d0, v0))
    <3>1. Opened(o, "dispatch", d0, v0).order = o /\ Opened(o, "dispatch", d0, v0).at = "startDispatch"
      BY <1>4, StartIs
    <3> QED BY <1>3, <1>11, <3>1 DEF DispatchOrder, InStage, Closed
  <2>3. entered \subseteq entered' /\ entered' \subseteq Orders
    BY <1>1, <1>11 DEF DispatchOrder
  <2>4. "dispatch" \in DOMAIN Start
    BY DEF Start
  <2> QED BY <1>2, <2>1, <2>2, <2>3, <2>4
<1>12. CASE MarkDriverReached(w, o)
  <2>1. BeginAsRead(w, o, "reached", TRUE) /\ TRUE \in BOOLEAN
    BY <1>1, <1>3, <1>12 DEF MarkDriverReached, Order, Statuses
  <2>2. TRUE => InStage(Opened(o, "reached", d0, v0))
    <3>1. Opened(o, "reached", d0, v0).order = o /\ Opened(o, "reached", d0, v0).at = "reached"
      BY <1>4, StartIs
    <3> QED BY <1>3, <1>12, <3>1 DEF MarkDriverReached, InStage, Closed
  <2>3. entered \subseteq entered' /\ entered' \subseteq Orders
    BY <1>1, <1>12 DEF MarkDriverReached
  <2>4. "reached" \in DOMAIN Start
    BY DEF Start
  <2> QED BY <1>2, <2>1, <2>2, <2>3, <2>4
<1>13. CASE DispatchReached(w, o)
  <2>1. BeginAsRead(w, o, "dispatchReached", (s = "OUT_FOR_DELIVERY" /\ ~order[o].reached)) /\ (s = "OUT_FOR_DELIVERY" /\ ~order[o].reached) \in BOOLEAN
    BY <1>1, <1>3, <1>13 DEF DispatchReached, Order, Statuses
  <2>2. (s = "OUT_FOR_DELIVERY" /\ ~order[o].reached) => InStage(Opened(o, "dispatchReached", d0, v0))
    <3>1. Opened(o, "dispatchReached", d0, v0).order = o /\ Opened(o, "dispatchReached", d0, v0).at = "reachDispatched"
      BY <1>4, StartIs
    <3> QED BY <1>3, <1>13, <3>1 DEF DispatchReached, InStage, Closed
  <2>3. entered \subseteq entered' /\ entered' \subseteq Orders
    BY <1>1, <1>13 DEF DispatchReached
  <2>4. "dispatchReached" \in DOMAIN Start
    BY DEF Start
  <2> QED BY <1>2, <2>1, <2>2, <2>3, <2>4
<1>14. CASE GenerateDeliveryOtp(w, o)
  <2>1. BeginAsRead(w, o, "otp", TRUE) /\ TRUE \in BOOLEAN
    BY <1>1, <1>3, <1>14 DEF GenerateDeliveryOtp, Order, Statuses
  <2>2. TRUE => InStage(Opened(o, "otp", d0, v0))
    <3>1. Opened(o, "otp", d0, v0).order = o /\ Opened(o, "otp", d0, v0).at = "otp"
      BY <1>4, StartIs
    <3> QED BY <1>3, <1>14, <3>1 DEF GenerateDeliveryOtp, InStage, Closed
  <2>3. entered \subseteq entered' /\ entered' \subseteq Orders
    BY <1>1, <1>14 DEF GenerateDeliveryOtp
  <2>4. "otp" \in DOMAIN Start
    BY DEF Start
  <2> QED BY <1>2, <2>1, <2>2, <2>3, <2>4
<1>15. CASE VerifyDeliveryOtp(w, o)
  <2>1. BeginAsRead(w, o, "verify", TRUE) /\ TRUE \in BOOLEAN
    BY <1>1, <1>3, <1>15 DEF VerifyDeliveryOtp, Order, Statuses
  <2>2. TRUE => InStage(Opened(o, "verify", d0, v0))
    <3>1. Opened(o, "verify", d0, v0).order = o /\ Opened(o, "verify", d0, v0).at = "verified"
      BY <1>4, StartIs
    <3> QED BY <1>3, <1>15, <3>1 DEF VerifyDeliveryOtp, InStage, Closed
  <2>3. entered \subseteq entered' /\ entered' \subseteq Orders /\ o \in entered'
    BY <1>1, <1>15 DEF VerifyDeliveryOtp
  <2>4. "verify" \in DOMAIN Start
    BY DEF Start
  <2> QED BY <1>2, <2>1, <2>2, <2>3, <2>4
<1>16. CASE CompleteDelivery(w, o)
  <2>1. BeginAsRead(w, o, "complete", LeadsTo(o, "DELIVERED")) /\ LeadsTo(o, "DELIVERED") \in BOOLEAN
    BY <1>1, <1>3, <1>16 DEF CompleteDelivery, Order, Statuses
  <2>2. LeadsTo(o, "DELIVERED") => InStage(Opened(o, "complete", d0, v0))
    <3>1. Opened(o, "complete", d0, v0).order = o /\ Opened(o, "complete", d0, v0).at = "reread"
      BY <1>4, StartIs
    <3> QED BY <1>3, <1>16, <3>1 DEF CompleteDelivery, InStage, Closed
  <2>3. entered \subseteq entered' /\ entered' \subseteq Orders /\ o \in entered'
    BY <1>1, <1>16 DEF CompleteDelivery
  <2>4. "complete" \in DOMAIN Start
    BY DEF Start
  <2> QED BY <1>2, <2>1, <2>2, <2>3, <2>4
<1>17. CASE \E d \in Drivers, v \in VehicleOrNone : AssignDriver(w, o, d, v)
  <2>1. PICK d \in Drivers, v \in VehicleOrNone : AssignDriver(w, o, d, v)
    BY <1>17
  <2>2. Begin(w, o, "assignDriver", d, v, LeadsTo(o, "DRIVER_ASSIGNED")) /\ entered' = entered
    BY <2>1 DEF AssignDriver
  <2>3. LeadsTo(o, "DRIVER_ASSIGNED") => InStage(Opened(o, "assignDriver", d, v))
    BY <1>3, <1>4 DEF InStage, Start
  <2>4. Carries(Opened(o, "assignDriver", d, v)) /\ "assignDriver" \in DOMAIN Start
    BY <1>4 DEF Carries, Start
  <2>5. Opens(w, o, "assignDriver", d, v, LeadsTo(o, "DRIVER_ASSIGNED"))
    BY <1>1, <2>2, <2>3, <2>4 DEF Opens
  <2> QED BY <1>3, <2>4, <2>5 DEF DriverOrNone, Statuses
<1>18. CASE \E d \in Drivers, v \in Vehicles : PlanAndDispatch(w, o, d, v)
  <2>1. PICK d \in Drivers, v \in Vehicles : PlanAndDispatch(w, o, d, v)
    BY <1>18
  <2> DEFINE allowed == d0 \in {None, d}
  <2>2. Begin(w, o, "plan", d, v, allowed) /\ entered' = entered
        /\ s \notin Closed \cup {"OUT_FOR_DELIVERY"}
    BY <2>1 DEF PlanAndDispatch, Closed
  <2>3. InStage(Opened(o, "plan", d, v))
    BY <1>4, <2>2 DEF InStage, Start
  <2>4. "plan" \in DOMAIN Start /\ (allowed => Carries(Opened(o, "plan", d, v)))
    BY <1>4 DEF Carries, Start, Opened
  <2>5. Opens(w, o, "plan", d, v, allowed)
    BY <1>1, <2>2, <2>3, <2>4 DEF Opens
  <2> HIDE DEF allowed
  <2>6. (d \in DriverOrNone /\ v \in VehicleOrNone) /\ allowed \in BOOLEAN
    BY DEF DriverOrNone, VehicleOrNone, allowed
  <2> QED BY <2>4, <2>5, <2>6
<1> QED BY <1>5, <1>6, <1>7, <1>8, <1>9, <1>10, <1>11, <1>12, <1>13, <1>14, <1>15, <1>16, <1>17, <1>18 DEF Arrival

(* Every call at the hub keeps the first layer. *)
LEMMA FramedArrival ==
    ASSUME Framed, NEW w \in Requests, NEW o \in Orders, Arrival(w, o)
    PROVE  Framed'
<1>1. PICK op \in DOMAIN Start \ {"admin"}, d \in DriverOrNone, v \in VehicleOrNone,
           allowed \in BOOLEAN : Opens(w, o, op, d, v, allowed)
  BY Openings
<1> QED BY <1>1, FramedBegin DEF Opens

(* The administrator's request begins. *)
LEMMA FramedAdminBegin ==
    ASSUME Framed, NEW w \in Requests, NEW o \in Orders, NEW s \in Statuses,
           AdminUpdateStatus(w, o, s)
    PROVE  Framed'
<1> USE HubOrdersAssumption
<1> DEFINE f == [order |-> o, at |-> "admin", driver |-> None, vehicle |-> None, next |-> s]
<1>1. request' = [request EXCEPT ![w] = f]
      /\ UNCHANGED <<order, dispatch, fleetVars, stockVars, entered>>
  BY DEF AdminUpdateStatus, Start
<1>2. f \in Frame
  BY StepsAre DEF Frame, DriverOrNone, VehicleOrNone
<1>3. /\ irregular \subseteq irregular' /\ irregular' \subseteq Orders /\ o \in irregular'
      /\ irregularCalls' \in 0..MaxIrregular
  BY DEF Framed, TypeOK, Call, AdminUpdateStatus
<1>4. Sound(f)'
  BY <1>3 DEF Sound, Ending
<1>5. request' \in [Requests -> Frame]
  BY <1>1, <1>2 DEF Framed, TypeOK
<1>6. (\A u \in Requests : Sound(request[u]))'
  <2> SUFFICES ASSUME NEW u \in Requests, NEW g, g = request'[u]
               PROVE  Sound(g)'
    BY DEF Sound
  <2>1. CASE u = w
    BY <1>1, <1>4, <2>1 DEF Framed, TypeOK, Sound
  <2>2. CASE u # w
    <3>1. g = request[u] /\ Sound(g)
      BY <1>1, <2>2 DEF Framed, TypeOK
    <3> QED BY <1>1, <1>3, <3>1, SoundStays
  <2> QED BY <2>1, <2>2
<1>7. TypeOK'
  BY <1>1, <1>3, <1>5 DEF Framed, TypeOK, fleetVars, stockVars
<1>8. DeliveredWithCode'
  BY <1>1, <1>3 DEF Framed, DeliveredWithCode
<1>9. Accounted'
  BY <1>1, AccountStays DEF Framed
<1> QED BY <1>6, <1>7, <1>8, <1>9 DEF Framed

(* Every step. *)
LEMMA FramedNext ==
    ASSUME Framed, [Next]_vars
    PROVE  Framed'
<1> USE HubOrdersAssumption
<1>1. CASE UNCHANGED vars
  <2>1. TypeOK' /\ DeliveredWithCode'
    BY <1>1 DEF Framed, TypeOK, DeliveredWithCode, vars, fleetVars, stockVars
  <2>2. Accounted'
    BY <1>1, AccountStays DEF Framed, vars
  <2>3. (\A u \in Requests : Sound(request[u]))'
    BY <1>1 DEF Framed, Sound, vars
  <2> QED BY <2>1, <2>2, <2>3 DEF Framed
<1>2. ASSUME NEW w \in Requests, Step(w)
      PROVE  Framed'
  BY <1>2, FramedTransition, FramedStock, FramedFleet, FramedOrder, FramedReads DEF Step
<1>3. ASSUME NEW w \in Requests, AdminWrites(w)
      PROVE  Framed'
  BY <1>3, FramedAdmin
<1>4. ASSUME NEW w \in Requests, NEW o \in Orders, Arrival(w, o)
      PROVE  Framed'
  BY <1>4, FramedArrival
<1>5. ASSUME NEW o \in Orders, NEW v \in Vehicles, AssignVehicle(o, v)
      PROVE  Framed'
  <2>1. None \in DriverOrNone /\ v \in VehicleOrNone /\ "PACKED" \in Statuses
    BY DEF DriverOrNone, VehicleOrNone, Statuses
  <2> QED BY <1>5, <2>1, FramedDirect
<1>6. ASSUME NEW o \in Orders, NEW d \in DriverOrNone, NEW v \in VehicleOrNone,
             DraftDispatch(o, d, v) \/ UpdateDispatch(o, d, v)
      PROVE  Framed'
  <2>1. "PACKED" \in Statuses
    BY DEF Statuses
  <2> QED BY <1>6, <2>1, FramedDirect
<1>7. ASSUME NEW o \in Orders, NEW d \in Drivers, NEW v \in VehicleOrNone,
             AdminAssignDriver(o, d, v)
      PROVE  Framed'
  <2>1. "PACKED" \in Statuses /\ d \in DriverOrNone
    BY DEF Statuses, DriverOrNone
  <2> QED BY <1>7, <2>1, FramedDirect
<1>8. ASSUME NEW o \in Orders, NEW s \in Statuses, WriteStatus(o, s)
      PROVE  Framed'
  <2>1. None \in DriverOrNone /\ None \in VehicleOrNone
    BY DEF DriverOrNone, VehicleOrNone
  <2> QED BY <1>8, <2>1, FramedDirect
<1>9. ASSUME NEW o \in Orders, NEW s \in Statuses, NEW w \in Requests, AdminUpdateStatus(w, o, s)
      PROVE  Framed'
  BY <1>9, FramedAdminBegin
<1> QED BY <1>1, <1>2, <1>3, <1>4, <1>5, <1>6, <1>7, <1>8, <1>9 DEF Next

(* The first layer holds at the start. *)
LEMMA FramedInit ==
    ASSUME Init
    PROVE  Framed
<1> USE HubOrdersAssumption
<1>1. TypeOK
  <2>1. Cardinality(Orders) \in Nat
    BY FS_CardinalityType
  <2>2. Idle \in Frame
    BY DEF Idle, Frame, DriverOrNone, VehicleOrNone
  <2>3. "HUB_ASSIGNED" \in Statuses /\ "AVAILABLE" \in Availabilities
        /\ None \in DriverOrNone /\ None \in VehicleOrNone
    BY DEF Statuses, Availabilities, DriverOrNone, VehicleOrNone
  <2> QED BY <2>1, <2>2, <2>3 DEF Init, TypeOK, Order, Dispatch, Vehicle
<1>2. \A w \in Requests : Sound(request[w])
  BY DEF Init, Sound, Idle, Ending
<1>3. DeliveredWithCode
  BY DEF Init, DeliveredWithCode
<1>4. Accounted
  <2>1. SumOf(settled, Orders) = 0
    <3> SUFFICES ASSUME NEW f, f = settled
                 PROVE  SumOf(f, Orders) = 0
      OBVIOUS
    <3>1. \A o \in Orders : f[o] = 0
      BY DEF Init
    <3> QED BY <3>1, SumZero
  <2>2. Cardinality(Orders) \in Nat
    BY FS_CardinalityType
  <2> QED BY <2>1, <2>2 DEF Init, Accounted, SumOf
<1> QED BY <1>1, <1>2, <1>3, <1>4 DEF Framed

(* In every reachable state: types, sound frames, no delivery without a code, *)
(* and stock columns that account for every unit.                            *)
THEOREM FramedInvariant == Spec => []Framed
<1>1. Init => Framed
  BY FramedInit
<1>2. Framed /\ [Next]_vars => Framed'
  BY FramedNext
<1> QED BY <1>1, <1>2, PTL DEF Spec

(* No order counts as verified, and none that was handled regularly as       *)
(* delivered, before its customer gave the code, however requests interleave *)
(* and whatever end points are called.                                       *)
THEOREM NotDeliveredWithoutCode == Spec => []DeliveredWithCode
<1>1. Framed => DeliveredWithCode
  BY DEF Framed
<1> QED BY <1>1, FramedInvariant, PTL

-----------------------------------------------------------------------------
(* What the order of a frame has come to depends on that order only. *)
LEMMA StageStays ==
    ASSUME NEW f, InStage(f), Carries(f), order'[f.order] = order[f.order]
    PROVE  InStage(f)' /\ Carries(f)'
<1>1. InStage(f)'
  BY DEF InStage
<1>2. Carries(f)'
  BY DEF Carries
<1> QED BY <1>1, <1>2

(* A statement of w, which has written at most the order of its frame. *)
LEMMA StagedStep ==
    ASSUME Framed, Staged, NEW w \in Requests, NEW g, NEW o \in Orders,
           o = request[w].order,
           request' = [request EXCEPT ![w] = g], g.order \in {o, None},
           \A p \in Orders \ {o} : order'[p] = order[p], irregular' = irregular,
           o \notin irregular /\ g.order = o => InStage(g)' /\ Carries(g)'
    PROVE  Staged'
<1> USE HubOrdersAssumption
<1>1. request \in [Requests -> Frame]
  BY DEF Framed, TypeOK
<1>2. Alone'
  BY <1>1 DEF Staged, Alone
<1>3. ASSUME NEW u \in Requests, NEW h, h = request'[u], h.order \in Orders \ irregular
      PROVE  InStage(h)' /\ Carries(h)'
  <2>1. CASE u = w
    BY <1>1, <1>3, <2>1
  <2>2. CASE u # w
    <3>1. h = request[u] /\ h.order # o
      BY <1>1, <1>3, <2>2 DEF Staged, Alone
    <3>2. InStage(h) /\ Carries(h) /\ order'[h.order] = order[h.order]
      BY <1>3, <3>1 DEF Staged
    <3> QED BY <3>2, StageStays
  <2> QED BY <2>1, <2>2
<1>4. \A u \in Requests : request'[u].order \in Orders \ irregular' =>
          InStage(request[u])' /\ Carries(request[u])'
  <2> SUFFICES ASSUME NEW u \in Requests, NEW h, h = request'[u],
                      h.order \in Orders \ irregular'
               PROVE  InStage(h)' /\ Carries(h)'
    BY DEF InStage, Carries
  <2> QED BY <1>3
<1> QED BY <1>2, <1>4 DEF Staged

(* The statements, but those that open or end a request otherwise, as far as *)
(* the order of the frame goes.                                              *)
LEMMA StagedContinue ==
    ASSUME Framed, Staged, NEW w \in Requests, request[w].at \notin {"idle", "readActivity"},
           Continue(w), NEW o \in Orders, o = request[w].order,
           \A p \in Orders \ {o} : order'[p] = order[p], irregular' = irregular,
           NEW g, g = Rest(request[w]),
           o \notin irregular /\ InStage(request[w]) /\ Carries(request[w]) /\ g.order = o
               => InStage(g)' /\ Carries(g)'
    PROVE  Staged'
<1>1. request' = [request EXCEPT ![w] = g]
  BY DEF Continue
<1>2. request[w] \in Frame /\ Sound(request[w])
  BY DEF Framed, TypeOK
<1>3. g.order \in {o, None}
  BY <1>2, RestSound
<1>4. o \notin irregular => InStage(request[w]) /\ Carries(request[w])
  BY DEF Staged
<1> QED BY <1>1, <1>3, <1>4, StagedStep

(* Where a frame is after a statement. *)
LEMMA RestAt ==
    ASSUME NEW f \in Frame, f.at # "idle", NEW g, g = Rest(f)
    PROVE  /\ f.at \notin DOMAIN After => g = Idle
           /\ f.at \in DOMAIN After => /\ g.order = f.order /\ g.at = After[f.at]
                                       /\ g.driver = f.driver /\ g.vehicle = f.vehicle
                                       /\ g.next = f.next
  BY Following DEF Frame

(* After transitionOrder the order has the status its next statement expects. *)
LEMMA StagedTransition ==
    ASSUME Framed, Staged, NEW w \in Requests, NEW s \in Statuses, Transition(w, s)
    PROVE  Staged'
<1> USE HubOrdersAssumption
<1> SUFFICES ASSUME NEW f, f = request[w], NEW o, o = f.order, NEW g, g = Rest(f)
             PROVE  Staged'
  OBVIOUS
<1>1. f \in Frame /\ Sound(f) /\ f.at = s /\ o \in Orders /\ f.at \notin {"idle", "readActivity"}
  BY DEF Framed, TypeOK, Transition, At, Frame, Sound, Statuses
<1>2. Continue(w) /\ irregular' = irregular /\ \A p \in Orders \ {o} : order'[p] = order[p]
  <2>1. \A p \in Orders \ {o} : order'[p] = order[p]
    BY <1>1, TransitionWrites
  <2>2. Continue(w) /\ irregular' = irregular
    BY DEF Transition, History
  <2> QED BY <2>1, <2>2
<1>3. order'[o].status = s /\ (s = "DRIVER_ASSIGNED" => order'[o].driver = f.driver)
  BY <1>1, TransitionWrites
<1>4. g.order = o => \/ s = "DRIVER_ASSIGNED" /\ g.at = "readActivity" /\ g.driver = f.driver
                     \/ s = "DELIVERED" /\ g.at = "consume"
  BY <1>1, RestAt, AfterIs DEF Idle, Statuses
<1>5. g.order = o => InStage(g)' /\ Carries(g)'
  <2> QED BY <1>3, <1>4 DEF InStage, Carries
<1> QED BY <1>1, <1>2, <1>5, StagedContinue

(* The statements that leave the order alone. *)
LEMMA StagedQuiet ==
    ASSUME Framed, Staged, NEW w \in Requests,
           \/ Release(w) \/ Consume(w) \/ SyncAvailability(w)
           \/ StartDispatch(w) \/ TakeDriver(w) \/ TakeVehicle(w)
           \/ ReachVehicle(w) \/ FreeDriver(w) \/ FreeVehicle(w) \/ EndDispatch(w)
    PROVE  Staged'
<1> USE HubOrdersAssumption
<1> SUFFICES ASSUME NEW f, f = request[w], NEW o, o = f.order, NEW g, g = Rest(f)
             PROVE  Staged'
  OBVIOUS
<1> USE DEF Release, Consume, SyncAvailability, StartDispatch, TakeDriver, TakeVehicle,
            ReachVehicle, FreeDriver, FreeVehicle, EndDispatch
<1>1. f \in Frame /\ Sound(f) /\ o \in Orders
      /\ f.at \in {"release", "consume", "sync", "startDispatch", "takeDriver", "takeVehicle",
                   "reachVehicle", "reachDispatched", "freeDriver", "freeVehicle", "endDispatch"}
  BY DEF Framed, TypeOK, At, Frame, Sound
<1>2. Continue(w) /\ UNCHANGED <<order, History>>
  OBVIOUS
<1> HIDE DEF Release, Consume, SyncAvailability, StartDispatch, TakeDriver, TakeVehicle,
            ReachVehicle, FreeDriver, FreeVehicle, EndDispatch
<1>3. InStage(f) /\ Carries(f) /\ g.order = o => InStage(g)' /\ Carries(g)'
  <2> SUFFICES ASSUME InStage(f), Carries(f), g.order = o
               PROVE  InStage(g)' /\ Carries(g)'
    OBVIOUS
  <2>1. /\ g.at = After[f.at] /\ f.at \in DOMAIN After
        /\ g.driver = f.driver /\ g.vehicle = f.vehicle
    BY <1>1, RestAt DEF Idle
  <2>2. order' = order
    BY <1>2
  <2>3. InStage(g)'
    BY <1>1, <2>1, <2>2, AfterIs, SMTT(30) DEF InStage
  <2>4. Carries(g)'
    BY <1>1, <2>1, <2>2, AfterIs, SMTT(30) DEF Carries
  <2> QED BY <2>3, <2>4
<1>4. f.at \notin {"idle", "readActivity"} /\ irregular' = irregular
      /\ \A p \in Orders \ {o} : order'[p] = order[p]
  BY <1>1, <1>2 DEF History
<1> QED BY <1>1, <1>2, <1>3, <1>4, StagedContinue

(* The statements that write other fields of the order, or end the request. *)
LEMMA StagedOrder ==
    ASSUME Framed, Staged, NEW w \in Requests,
           CancelTx(w) \/ PlanTx(w) \/ Reached(w) \/ GenerateOtp(w) \/ Verified(w) \/ AdminWrites(w)
    PROVE  Staged'
<1> USE HubOrdersAssumption
<1> SUFFICES ASSUME NEW f, f = request[w], NEW o, o = f.order, NEW g, g = Rest(f)
             PROVE  Staged'
  OBVIOUS
<1> USE DEF CancelTx, PlanTx, Reached, GenerateOtp, Verified, AdminWrites
<1>1. f \in Frame /\ Sound(f) /\ o \in Orders
      /\ f.at \in {"cancelTx", "planTx", "reached", "otp", "verified", "admin"}
  BY DEF Framed, TypeOK, At, Frame, Sound
<1>2. g = Idle \/ f.at \in {"reached", "verified"}
  <2>1. f.at \in DOMAIN After => f.at \in {"reached", "verified"}
    BY <1>1, AfterIs
  <2>2. f.at \notin DOMAIN After => g = Idle
    BY <1>1, RestAt
  <2> QED BY <2>1, <2>2
<1>3. Continue(w) /\ irregular' = irregular
  BY <1>1, <1>2 DEF At, Continue, History
<1>4. order \in [Orders -> Order] /\ order[o] \in Order
  BY <1>1 DEF Framed, TypeOK
<1>5. \A p \in Orders \ {o} : order'[p] = order[p]
  BY <1>1, <1>4
<1>6. f.at \in {"reached", "verified"} => order'[o].status = order[o].status
  <2>1. f.at \in {"reached", "verified"} => (Reached(w) \/ Verified(w)) /\ ~PlanTx(w)
    BY DEF At
  <2> HIDE DEF Reached, GenerateOtp, Verified, PlanTx
  <2> QED BY <1>1, <2>1, OrderWrites
<1> HIDE DEF CancelTx, PlanTx, Reached, GenerateOtp, Verified, AdminWrites
<1>7. InStage(f) /\ Carries(f) /\ g.order = o => InStage(g)' /\ Carries(g)'
  <2> SUFFICES ASSUME InStage(f), Carries(f), g.order = o
               PROVE  InStage(g)' /\ Carries(g)'
    OBVIOUS
  <2>1. /\ g.at = After[f.at] /\ f.at \in {"reached", "verified"}
        /\ g.driver = f.driver /\ g.vehicle = f.vehicle
    BY <1>1, <1>2, RestAt, AfterIs DEF Idle
  <2>2. g.at \in {"reachVehicle", "reread"}
    BY <2>1, AfterIs
  <2>3. InStage(g)'
    BY <1>6, <2>1, <2>2 DEF InStage
  <2>4. Carries(g)'
    BY <2>2 DEF Carries
  <2> QED BY <2>3, <2>4
<1>8. f.at \notin {"idle", "readActivity"}
  BY <1>1
<1> QED BY <1>1, <1>3, <1>5, <1>7, <1>8, StagedContinue

(* The statements that only read, and take over what they read. *)
LEMMA StagedReads ==
    ASSUME Framed, Staged, NEW w \in Requests, ReadActivity(w) \/ CheckReached(w) \/ Reread(w)
    PROVE  Staged'
<1> USE HubOrdersAssumption
<1> SUFFICES ASSUME NEW f, f = request[w], NEW o, o = f.order
             PROVE  Staged'
  OBVIOUS
<1> USE DEF ReadActivity, CheckReached, Reread
<1>1. f \in Frame /\ Sound(f) /\ f.at \in {"readActivity", "checkReached", "reread"}
      /\ o \in Orders
  BY DEF Framed, TypeOK, At, Frame, Sound
<1>2. UNCHANGED <<order, History>>
  OBVIOUS
<1>3. Rest(f) \in Frame /\ Rest(f).order = o /\ Rest(f).at = After[f.at]
      /\ Rest(f).driver = f.driver
  BY <1>1, Following, AfterIs, StepsAre, RestAt DEF Frame
<1>4. PICK g : /\ request' = [request EXCEPT ![w] = g]
               /\ \/ g = Idle
                  \/ /\ g.order = o
                     /\ \/ f.at = "readActivity" /\ g.at = "sync" /\ g.driver = f.driver
                        \/ f.at = "checkReached" /\ g.at = "reached"
                        \/ /\ f.at = "reread" /\ g.at = "freeDriver"
                           /\ g.driver = order[o].driver /\ g.vehicle = order[o].vehicle
  <2>1. CASE ReadActivity(w)
    <3> DEFINE g == [Rest(f) EXCEPT !.next = Derived(f.driver)]
    <3>1. f.at = "readActivity"
      BY <2>1 DEF At
    <3>2. g.order = o /\ g.at = "sync" /\ g.driver = f.driver
      BY <1>3, <3>1, AfterIs DEF Frame
    <3>3. \/ request' = [request EXCEPT ![w] = Idle]
          \/ request' = [request EXCEPT ![w] = g]
      BY <2>1
    <3> HIDE DEF g
    <3> QED BY <3>1, <3>2, <3>3
  <2>2. CASE CheckReached(w)
    <3> DEFINE g == [Rest(f) EXCEPT !.vehicle = order[o].vehicle]
    <3>1. f.at = "checkReached"
      BY <2>2 DEF At
    <3>2. g.order = o /\ g.at = "reached"
      BY <1>3, <3>1, AfterIs DEF Frame
    <3>3. \/ request' = [request EXCEPT ![w] = Idle]
          \/ request' = [request EXCEPT ![w] = g]
      BY <2>2
    <3> HIDE DEF g
    <3> QED BY <3>1, <3>2, <3>3
  <2>3. CASE Reread(w)
    <3> DEFINE g == [Rest(f) EXCEPT !.driver = order[o].driver, !.vehicle = order[o].vehicle]
    <3>1. f.at = "reread"
      BY <2>3 DEF At
    <3>2. g.order = o /\ g.at = "freeDriver" /\ g.driver = order[o].driver
          /\ g.vehicle = order[o].vehicle
      BY <1>3, <3>1, AfterIs DEF Frame
    <3>3. \/ request' = [request EXCEPT ![w] = Idle]
          \/ request' = [request EXCEPT ![w] = g]
      BY <2>3
    <3> HIDE DEF g
    <3> QED BY <3>1, <3>2, <3>3
  <2> QED BY <2>1, <2>2, <2>3
<1> HIDE DEF ReadActivity, CheckReached, Reread
<1>5. g.order \in {o, None}
  BY <1>4 DEF Idle
<1>6. ASSUME o \notin irregular, g.order = o
      PROVE  InStage(g)' /\ Carries(g)'
  <2>1. InStage(f) /\ Carries(f)
    BY <1>1, <1>6 DEF Staged
  <2>2. g # Idle
    BY <1>1, <1>6 DEF Idle
  <2>3. InStage(g)'
    BY <1>2, <1>4, <1>6, <2>1, <2>2 DEF InStage
  <2>4. Carries(g)'
    BY <1>2, <1>4, <1>6, <2>1, <2>2 DEF Carries
  <2> QED BY <2>3, <2>4
<1>7. irregular' = irregular /\ \A p \in Orders \ {o} : order'[p] = order[p]
  BY <1>2 DEF History
<1> QED BY <1>1, <1>4, <1>5, <1>6, <1>7, StagedStep

(* A call that leaves its order regular found no other at work on it. *)
LEMMA StagedCall ==
    ASSUME Framed, Staged, NEW w \in Requests, NEW o \in Orders, NEW allowed \in BOOLEAN,
           NEW g, request' = [request EXCEPT ![w] = g], request[w] = Idle, g.order = o,
           Call(o, allowed), order' = order,
           allowed => InStage(g) /\ Carries(g)
    PROVE  Staged'
<1> USE HubOrdersAssumption
<1>1. request \in [Requests -> Frame] /\ request[w].order = None
  BY DEF Framed, TypeOK, Idle
<1>2. irregular \subseteq irregular' /\ (o \in irregular' \/ (allowed /\ ~Busy(o)))
  BY DEF Call
<1>3. ASSUME NEW u \in Requests, u # w
      PROVE  request'[u] = request[u] /\ (request[u].order = o => o \in irregular')
  BY <1>1, <1>2, <1>3 DEF Busy
<1>4. request'[w] = g
  BY <1>1
<1>5. Alone'
  BY <1>1, <1>2, <1>3, <1>4 DEF Staged, Alone
<1>6. ASSUME NEW u \in Requests, NEW h, h = request'[u], h.order \in Orders \ irregular'
      PROVE  InStage(h)' /\ Carries(h)'
  <2>1. InStage(h) /\ Carries(h)
    <3>1. CASE u = w
      BY <1>2, <1>4, <1>6, <3>1
    <3>2. CASE u # w
      BY <1>2, <1>3, <1>6, <3>2 DEF Staged
    <3> QED BY <3>1, <3>2
  <2> QED BY <2>1, StageStays
<1>7. \A u \in Requests : request'[u].order \in Orders \ irregular' =>
          InStage(request[u])' /\ Carries(request[u])'
  <2> SUFFICES ASSUME NEW u \in Requests, NEW h, h = request'[u],
                      h.order \in Orders \ irregular'
               PROVE  InStage(h)' /\ Carries(h)'
    BY DEF InStage, Carries
  <2> QED BY <1>6
<1> QED BY <1>5, <1>7 DEF Staged

(* A call of one statement writes an order that no regular request works on. *)
LEMMA StagedDirect ==
    ASSUME Framed, Staged, NEW o \in Orders, NEW d \in DriverOrNone, NEW v \in VehicleOrNone,
           NEW s \in Statuses,
           \/ AssignVehicle(o, v)
           \/ DraftDispatch(o, d, v) \/ UpdateDispatch(o, d, v)
           \/ AdminAssignDriver(o, d, v) \/ WriteStatus(o, s)
    PROVE  Staged'
<1> USE HubOrdersAssumption
<1>1. request' = request /\ \A p \in Orders \ {o} : order'[p] = order[p]
  BY DEF AssignVehicle, DraftDispatch, UpdateDispatch, AdminAssignDriver, WriteStatus,
         Framed, TypeOK
<1>2. irregular \subseteq irregular' /\ (o \in irregular' \/ ~Busy(o))
  BY DEF AssignVehicle, DraftDispatch, UpdateDispatch, AdminAssignDriver, WriteStatus, Call
<1>3. Alone'
  BY <1>1, <1>2 DEF Staged, Alone
<1>4. ASSUME NEW u \in Requests, NEW h, h = request[u], h.order \in Orders \ irregular'
      PROVE  InStage(h)' /\ Carries(h)'
  <2>1. InStage(h) /\ Carries(h) /\ h.order # o
    BY <1>2, <1>4 DEF Staged, Busy
  <2> QED BY <1>1, <1>4, <2>1, StageStays
<1>5. \A u \in Requests : request'[u].order \in Orders \ irregular' =>
          InStage(request[u])' /\ Carries(request[u])'
  <2> SUFFICES ASSUME NEW u \in Requests, NEW h, h = request[u],
                      h.order \in Orders \ irregular'
               PROVE  InStage(h)' /\ Carries(h)'
    BY <1>1 DEF InStage, Carries
  <2> QED BY <1>4
<1> QED BY <1>3, <1>5 DEF Staged

(* Every step keeps the second layer. *)
LEMMA StagedNext ==
    ASSUME Framed, Staged, [Next]_vars
    PROVE  Staged'
<1> USE HubOrdersAssumption
<1>1. CASE UNCHANGED vars
  BY <1>1 DEF Staged, Alone, InStage, Carries, vars
<1>2. ASSUME NEW w \in Requests, Step(w) \/ AdminWrites(w)
      PROVE  Staged'
  BY <1>2, StagedTransition, StagedQuiet, StagedOrder, StagedReads DEF Step
<1>3. ASSUME NEW w \in Requests, NEW o \in Orders, Arrival(w, o)
      PROVE  Staged'
  <2>1. PICK op \in DOMAIN Start \ {"admin"}, d \in DriverOrNone, v \in VehicleOrNone,
             allowed \in BOOLEAN : Opens(w, o, op, d, v, allowed)
    BY <1>3, Openings
  <2>2. PICK g : g = Opened(o, op, d, v)
    OBVIOUS
  <2>3. request' = [request EXCEPT ![w] = g] /\ request[w] = Idle /\ order' = order
        /\ Call(o, allowed) /\ g.order = o
    BY <2>1, <2>2 DEF Opens, Begin, Opened
  <2>4. allowed => InStage(g) /\ Carries(g)
    BY <2>1, <2>2 DEF Opens
  <2> QED BY <2>3, <2>4, StagedCall
<1>4. ASSUME NEW o \in Orders, NEW v \in Vehicles, AssignVehicle(o, v)
      PROVE  Staged'
  <2>1. None \in DriverOrNone /\ v \in VehicleOrNone /\ "PACKED" \in Statuses
    BY DEF DriverOrNone, VehicleOrNone, Statuses
  <2> QED BY <1>4, <2>1, StagedDirect
<1>5. ASSUME NEW o \in Orders, NEW d \in DriverOrNone, NEW v \in VehicleOrNone,
             DraftDispatch(o, d, v) \/ UpdateDispatch(o, d, v)
      PROVE  Staged'
  <2>1. "PACKED" \in Statuses
    BY DEF Statuses
  <2> QED BY <1>5, <2>1, StagedDirect
<1>6. ASSUME NEW o \in Orders, NEW d \in Drivers, NEW v \in VehicleOrNone,
             AdminAssignDriver(o, d, v)
      PROVE  Staged'
  <2>1. "PACKED" \in Statuses /\ d \in DriverOrNone
    BY DEF Statuses, DriverOrNone
  <2> QED BY <1>6, <2>1, StagedDirect
<1>7. ASSUME NEW o \in Orders, NEW s \in Statuses, WriteStatus(o, s)
      PROVE  Staged'
  <2>1. None \in DriverOrNone /\ None \in VehicleOrNone
    BY DEF DriverOrNone, VehicleOrNone
  <2> QED BY <1>7, <2>1, StagedDirect
<1>8. ASSUME NEW o \in Orders, NEW s \in Statuses, NEW w \in Requests, AdminUpdateStatus(w, o, s)
      PROVE  Staged'
  <2>1. PICK g : g = [order |-> o, at |-> "admin", driver |-> None, vehicle |-> None, next |-> s]
    OBVIOUS
  <2>2. request' = [request EXCEPT ![w] = g] /\ request[w] = Idle /\ order' = order
        /\ Call(o, FALSE) /\ g.order = o
    BY <1>8, <2>1 DEF AdminUpdateStatus, Start
  <2> QED BY <2>2, StagedCall
<1> QED BY <1>1, <1>2, <1>3, <1>4, <1>5, <1>6, <1>7, <1>8 DEF Next

(* No request is at work at the start. *)
LEMMA StagedInit ==
    ASSUME Init
    PROVE  Staged
  BY HubOrdersAssumption DEF Init, Staged, Alone, Idle

-----------------------------------------------------------------------------
(* What a frame says of the settlement of its order. *)
Due(at) == IF at = "CANCELLED" THEN 1 ELSE 0

(* While all are handled regularly, an order is settled at most once, and enough *)
(* is reserved for one that is not.                                          *)
LEMMA SettledSoFar ==
    ASSUME Framed, Staged, SettledOnce, irregular = {}
    PROVE  /\ \A w \in Requests : request[w].order \in Orders =>
                settled[request[w].order] = Due(request[w].at)
           /\ \A o \in Orders : settled[o] \in 0..1
           /\ \A o \in Orders : settled[o] = 0 => reservedQty >= 1
<1> USE HubOrdersAssumption
<1>1. \A w \in Requests : request[w].order \in Orders => request[w].at \in Steps
  BY DEF Framed, TypeOK, Frame, Sound
<1>2. \A w \in Requests : request[w].order \in Orders =>
          settled[request[w].order] = Due(request[w].at)
  BY <1>1 DEF SettledOnce, AtWork, Due
<1>3. \A o \in Orders : settled[o] \in 0..1
  BY <1>2 DEF SettledOnce, Busy, Due
<1>4. ASSUME NEW o \in Orders, settled[o] = 0
      PROVE  reservedQty >= 1
  <2>1. SumOf(settled, Orders) = settled[o] + SumOf(settled, Orders \ {o})
        /\ SumOf(settled, Orders \ {o}) \in Int
    <3> SUFFICES ASSUME NEW f, f = settled
                 PROVE  /\ SumOf(f, Orders) = f[o] + SumOf(f, Orders \ {o})
                        /\ SumOf(f, Orders \ {o}) \in Int
      OBVIOUS
    <3>1. \A p \in Orders : f[p] \in Int
      BY <1>3
    <3>2. IsFiniteSet(Orders \ {o}) /\ \A p \in Orders \ {o} : f[p] \in Int
      BY <3>1, FS_RemoveElement
    <3> QED BY <3>1, <3>2, SumRemove
  <2>2. SumOf(settled, Orders \ {o}) <= Cardinality(Orders \ {o})
    <3> SUFFICES ASSUME NEW f, f = settled
                 PROVE  SumOf(f, Orders \ {o}) <= Cardinality(Orders \ {o})
      OBVIOUS
    <3>1. IsFiniteSet(Orders \ {o}) /\ \A p \in Orders \ {o} : f[p] \in 0..1
      BY <1>3, FS_RemoveElement
    <3> QED BY <3>1, SumOfOnes
  <2>3. Cardinality(Orders \ {o}) = Cardinality(Orders) - 1 /\ Cardinality(Orders) \in Nat
    BY FS_RemoveElement, FS_CardinalityType
  <2>4. reservedQty = Cardinality(Orders) - SumOf(settled, Orders)
    BY DEF Framed, Accounted, SumOf
  <2> QED BY <1>4, <2>1, <2>2, <2>3, <2>4
<1> QED BY <1>2, <1>3, <1>4

(* A statement of w settles at most the order of its frame. *)
LEMMA SettledStep ==
    ASSUME Framed, Staged, SettledOnce, NEW w \in Requests, NEW g, NEW o \in Orders,
           o = request[w].order, g.order \in {o, None},
           request' = [request EXCEPT ![w] = g], irregular' = irregular,
           \A p \in Orders \ {o} : order'[p] = order[p] /\ settled'[p] = settled[p],
           irregular = {} =>
             /\ g.order = o => settled'[o] = Due(g.at) /\ g.at \in Steps
             /\ g.order = None =>
                  settled'[o] = IF order'[o].status \in Closed THEN 1 ELSE 0
    PROVE  SettledOnce'
<1> USE HubOrdersAssumption
<1> SUFFICES ASSUME irregular = {}, NEW p \in Orders
             PROVE  /\ ~Busy(p)' => settled'[p] = IF order'[p].status \in Closed THEN 1 ELSE 0
                    /\ AtWork(p, {"CANCELLED"})' => settled'[p] = 1
                    /\ AtWork(p, Steps \ {"CANCELLED"})' => settled'[p] = 0
  BY DEF SettledOnce
<1>1. request'[w] = g /\ \A u \in Requests \ {w} : request'[u] = request[u]
  BY DEF Framed, TypeOK
<1>2. CASE p # o
  <2>1. \A u \in Requests : request'[u].order = p <=> request[u].order = p
    BY <1>1, <1>2
  <2>2. \A u \in Requests : request[u].order = p => request'[u] = request[u]
    BY <1>1, <1>2
  <2> QED BY <1>2, <2>1, <2>2 DEF SettledOnce, Busy, AtWork
<1>3. CASE p = o
  <2>1. \A u \in Requests \ {w} : request'[u].order # o
    BY <1>1 DEF Staged, Alone
  <2>2. \A u \in Requests : request'[u].order = o => u = w /\ g.order = o
    BY <1>1, <2>1
  <2>3. CASE g.order = o
    BY <1>1, <1>3, <2>2, <2>3 DEF Busy, AtWork, Due
  <2>4. CASE g.order = None
    BY <1>1, <1>3, <2>2, <2>4 DEF Busy, AtWork
  <2> QED BY <2>3, <2>4
<1> QED BY <1>2, <1>3

(* transitionOrder closes an order when its material has been released, and  *)
(* delivers it before it is consumed.                                        *)
LEMMA SettledTransition ==
    ASSUME Framed, Staged, SettledOnce, NEW w \in Requests, NEW s \in Statuses, Transition(w, s)
    PROVE  SettledOnce'
<1> USE HubOrdersAssumption
<1> SUFFICES ASSUME NEW f, f = request[w], NEW o, o = f.order, NEW g, g = Rest(f)
             PROVE  SettledOnce'
  OBVIOUS
<1>1. f \in Frame /\ Sound(f) /\ f.at = s /\ o \in Orders /\ f.at \notin {"idle", "readActivity"}
  BY DEF Framed, TypeOK, Transition, At, Frame, Sound, Statuses
<1>2. /\ irregular' = irregular /\ settled' = settled
      /\ request' = [request EXCEPT ![w] = g]
      /\ \A p \in Orders \ {o} : order'[p] = order[p]
      /\ order'[o].status = s
  <2>1. (\A p \in Orders \ {o} : order'[p] = order[p]) /\ order'[o].status = s
    BY <1>1, TransitionWrites
  <2>2. irregular' = irregular /\ settled' = settled /\ Continue(w)
    BY DEF Transition, History, stockVars
  <2> QED BY <2>1, <2>2 DEF Continue
<1>3. g.order \in {o, None}
  BY <1>1, RestSound
<1>4. g.order = o => g.at \in {"readActivity", "consume"} /\ s \in {"DRIVER_ASSIGNED", "DELIVERED"}
  BY <1>1, RestAt, AfterIs DEF Idle, Statuses
<1>5. g.order = None => s \notin {"DRIVER_ASSIGNED", "DELIVERED"}
  BY <1>1, RestAt, AfterIs
<1>6. irregular = {} => settled[o] = Due(s)
  BY <1>1, SettledSoFar
<1>7. irregular = {} =>
        /\ g.order = o => settled'[o] = Due(g.at) /\ g.at \in Steps
        /\ g.order = None => settled'[o] = IF order'[o].status \in Closed THEN 1 ELSE 0
  BY <1>2, <1>4, <1>5, <1>6, StepsAre DEF Due, Closed
<1> QED BY <1>1, <1>2, <1>3, <1>7, SettledStep

\* The order of a frame and what is settled, when a statement settles nothing.
LEMMA SettledUnchanged ==
    ASSUME Framed, Staged, SettledOnce, NEW w \in Requests, NEW g,
           NEW f, f = request[w], NEW o \in Orders, o = f.order, g.order \in {o, None},
           request' = [request EXCEPT ![w] = g], irregular' = irregular, settled' = settled,
           \A p \in Orders : order'[p].status = order[p].status,
           \A p \in Orders \ {o} : order'[p] = order[p],
           g.order = o => g.at \in Steps \ {"CANCELLED"}, f.at \notin {"CANCELLED", "consume"}
    PROVE  SettledOnce'
<1> USE HubOrdersAssumption
<1>1. f \in Frame /\ Sound(f) /\ f.at \in Steps
  BY DEF Framed, TypeOK, Frame, Sound
<1>2. irregular = {} => settled[o] = 0
  BY SettledSoFar DEF Due
<1>3. irregular = {} => order[o].status \notin Closed
  <2> SUFFICES ASSUME irregular = {}
               PROVE  order[o].status \notin Closed
    OBVIOUS
  <2>1. InStage(f)
    BY DEF Staged
  <2>2. f.at # "admin"
    BY <1>1 DEF Sound
  <2> QED BY <1>1, <2>1, <2>2, StepsAre DEF InStage, Closed
<1>4. irregular = {} =>
        /\ g.order = o => settled'[o] = Due(g.at) /\ g.at \in Steps
        /\ g.order = None => settled'[o] = IF order'[o].status \in Closed THEN 1 ELSE 0
  BY <1>2, <1>3 DEF Due
<1> QED BY <1>4, SettledStep

(* The statements about drivers, vehicles, dispatch and code settle nothing. *)
LEMMA SettledQuiet ==
    ASSUME Framed, Staged, SettledOnce, NEW w \in Requests,
           \/ SyncAvailability(w)
           \/ StartDispatch(w) \/ TakeDriver(w) \/ TakeVehicle(w)
           \/ ReachVehicle(w) \/ FreeDriver(w) \/ FreeVehicle(w) \/ EndDispatch(w)
           \/ Reached(w) \/ GenerateOtp(w) \/ Verified(w)
    PROVE  SettledOnce'
<1> USE HubOrdersAssumption
<1> SUFFICES ASSUME NEW f, f = request[w], NEW o, o = f.order, NEW g, g = Rest(f)
             PROVE  SettledOnce'
  OBVIOUS
<1> USE DEF SyncAvailability, StartDispatch, TakeDriver, TakeVehicle,
            ReachVehicle, FreeDriver, FreeVehicle, EndDispatch, Reached, GenerateOtp, Verified
<1>1. f \in Frame /\ Sound(f) /\ o \in Orders
      /\ f.at \in {"sync", "startDispatch", "takeDriver", "takeVehicle", "reached", "otp", "verified",
                   "reachVehicle", "reachDispatched", "freeDriver", "freeVehicle", "endDispatch"}
  BY DEF Framed, TypeOK, At, Frame, Sound
<1>2. Continue(w) /\ irregular' = irregular /\ settled' = settled
  BY DEF stockVars, History
<1>3. /\ \A p \in Orders \ {o} : order'[p] = order[p]
      /\ \A p \in Orders : order'[p].status = order[p].status
  <2>1. CASE Reached(w) \/ GenerateOtp(w) \/ Verified(w)
    <3>1. ~PlanTx(w)
      BY <2>1 DEF PlanTx, At
    <3> HIDE DEF Reached, GenerateOtp, Verified
    <3> QED BY <1>1, <2>1, <3>1, OrderWrites
  <2>2. CASE order' = order
    BY <2>2
  <2> QED BY <2>1, <2>2
<1> HIDE DEF SyncAvailability, StartDispatch, TakeDriver, TakeVehicle,
            ReachVehicle, FreeDriver, FreeVehicle, EndDispatch, Reached, GenerateOtp, Verified
<1>4. g.order \in {o, None} /\ (g.order = o => g.at \in Steps \ {"CANCELLED"})
  BY <1>1, RestAt, AfterIs, StepsAre DEF Idle
<1>5. request' = [request EXCEPT ![w] = g] /\ f.at \notin {"CANCELLED", "consume"}
  BY <1>1, <1>2 DEF Continue
<1> QED BY <1>1, <1>2, <1>3, <1>4, <1>5, SettledUnchanged

(* Nor do those that only read. *)
LEMMA SettledReads ==
    ASSUME Framed, Staged, SettledOnce, NEW w \in Requests,
           ReadActivity(w) \/ CheckReached(w) \/ Reread(w)
    PROVE  SettledOnce'
<1> USE HubOrdersAssumption
<1> SUFFICES ASSUME NEW f, f = request[w], NEW o, o = f.order
             PROVE  SettledOnce'
  OBVIOUS
<1> USE DEF ReadActivity, CheckReached, Reread
<1>1. f \in Frame /\ Sound(f) /\ o \in Orders /\ f.at \in {"readActivity", "checkReached", "reread"}
  BY DEF Framed, TypeOK, At, Frame, Sound
<1>2. irregular' = irregular /\ settled' = settled /\ order' = order
  BY DEF stockVars, History
<1>3. Rest(f) \in Frame /\ Rest(f).order = o /\ Rest(f).at \in Steps \ {"CANCELLED"}
  BY <1>1, Following, AfterIs, StepsAre, RestAt DEF Frame
<1> DEFINE Fits(h) == h.order \in {o, None} /\ (h.order = o => h.at \in Steps \ {"CANCELLED"})
<1>4. Fits(Idle) /\ \A to, d, v : /\ Fits([Rest(f) EXCEPT !.next = to])
                                  /\ Fits([Rest(f) EXCEPT !.vehicle = v])
                                  /\ Fits([Rest(f) EXCEPT !.driver = d, !.vehicle = v])
  BY <1>1, <1>3 DEF Idle, Frame
<1>5. PICK h : request' = [request EXCEPT ![w] = h] /\ Fits(h)
  <2>1. CASE ReadActivity(w)
    <3>1. \/ request' = [request EXCEPT ![w] = Idle]
          \/ request' = [request EXCEPT ![w] = [Rest(f) EXCEPT !.next = Derived(f.driver)]]
      BY <2>1
    <3> HIDE DEF Fits
    <3> QED BY <1>4, <3>1
  <2>2. CASE CheckReached(w)
    <3>1. \/ request' = [request EXCEPT ![w] = Idle]
          \/ request' = [request EXCEPT ![w] = [Rest(f) EXCEPT !.vehicle = order[o].vehicle]]
      BY <2>2
    <3> HIDE DEF Fits
    <3> QED BY <1>4, <3>1
  <2>3. CASE Reread(w)
    <3> DEFINE h == [Rest(f) EXCEPT !.driver = order[o].driver, !.vehicle = order[o].vehicle]
    <3>1. request' = [request EXCEPT ![w] = Idle] \/ request' = [request EXCEPT ![w] = h]
      BY <2>3
    <3>2. Fits(Idle) /\ Fits(h)
      BY <1>4
    <3> HIDE DEF Fits, h, Reread
    <3> QED BY <3>1, <3>2
  <2> HIDE DEF ReadActivity, CheckReached, Reread, Fits
  <2> QED BY <2>1, <2>2, <2>3
<1>6. f.at \notin {"CANCELLED", "consume"}
  BY <1>1
<1> QED BY <1>1, <1>2, <1>5, <1>6, SettledUnchanged

\* A release, a cancellation and a consumption settle what is due.
LEMMA SettledStock ==
    ASSUME Framed, Staged, SettledOnce, NEW w \in Requests, Release(w) \/ CancelTx(w) \/ Consume(w)
    PROVE  SettledOnce'
<1> USE HubOrdersAssumption
<1> SUFFICES ASSUME NEW f, f = request[w], NEW o, o = f.order, NEW g, g = Rest(f)
             PROVE  SettledOnce'
  OBVIOUS
<1> USE DEF Release, CancelTx, Consume
<1>1. f \in Frame /\ Sound(f) /\ o \in Orders /\ f.at \in {"release", "cancelTx", "consume"}
  BY DEF Framed, TypeOK, At, Frame, Sound
<1>2. irregular' = irregular /\ request' = [request EXCEPT ![w] = g]
  BY DEF History, Continue
<1>3. order \in [Orders -> Order] /\ settled \in [Orders -> Nat]
  BY DEF Framed, TypeOK
<1>4. /\ \A p \in Orders \ {o} : order'[p] = order[p] /\ settled'[p] = settled[p]
      /\ f.at = "cancelTx" => order'[o].status = "CANCELLED"
      /\ f.at = "consume" => order'[o] = order[o]
      /\ reservedQty >= 1 => settled'[o] = settled[o] + 1
  BY <1>1, <1>3 DEF At, Order, ReleaseStock, Settle, stockVars
<1> HIDE DEF Release, CancelTx, Consume
<1>5. irregular = {} => settled'[o] = 1
  <2> SUFFICES ASSUME irregular = {}
               PROVE  settled'[o] = 1
    OBVIOUS
  <2>1. settled[o] = 0
    BY <1>1, SettledSoFar DEF Due
  <2>2. reservedQty >= 1
    BY <1>1, <2>1, SettledSoFar
  <2> QED BY <1>4, <2>1, <2>2
<1>6. irregular = {} /\ f.at = "consume" => order[o].status = "DELIVERED"
  BY <1>1 DEF Staged, InStage
<1>7. /\ f.at = "release" => g.order = o /\ g.at = "CANCELLED"
      /\ f.at # "release" => g = Idle
  BY <1>1, RestAt, AfterIs
<1>8. g.order \in {o, None} /\ Idle.order = None
  BY <1>7 DEF Idle
<1>9. irregular = {} =>
        /\ g.order = o => settled'[o] = Due(g.at) /\ g.at \in Steps
        /\ g.order = None => settled'[o] = IF order'[o].status \in Closed THEN 1 ELSE 0
  BY <1>1, <1>4, <1>5, <1>6, <1>7, <1>8, StepsAre DEF Due, Closed
<1> QED BY <1>1, <1>2, <1>4, <1>8, <1>9, SettledStep

(* Nor does planAndDispatch. *)
LEMMA SettledPlan ==
    ASSUME Framed, Staged, SettledOnce, NEW w \in Requests, PlanTx(w)
    PROVE  SettledOnce'
<1> USE HubOrdersAssumption
<1> SUFFICES ASSUME NEW f, f = request[w], NEW o, o = f.order, NEW g, g = Rest(f)
             PROVE  SettledOnce'
  OBVIOUS
<1>1. f \in Frame /\ Sound(f) /\ o \in Orders /\ f.at = "planTx"
  BY DEF Framed, TypeOK, At, Frame, Sound, PlanTx
<1>2. irregular' = irregular /\ request' = [request EXCEPT ![w] = g] /\ settled' = settled
  BY DEF History, Continue, PlanTx, stockVars
<1>3. /\ \A p \in Orders \ {o} : order'[p] = order[p]
      /\ order'[o].status = "OUT_FOR_DELIVERY"
  BY <1>1 DEF Framed, TypeOK, Order, PlanTx
<1>4. g = Idle /\ g.order = None
  BY <1>1, RestAt, AfterIs DEF Idle
<1>5. irregular = {} => settled[o] = 0
  BY <1>1, SettledSoFar DEF Due
<1> QED BY <1>1, <1>2, <1>3, <1>4, <1>5, SettledStep DEF Closed

\* A call settles nothing; it opens a frame, or writes an order that is irregular then.
LEMMA SettledCall ==
    ASSUME Framed, Staged, SettledOnce, NEW w \in Requests, NEW o \in Orders,
           NEW op \in DOMAIN Start, NEW d, NEW v, NEW allowed, Begin(w, o, op, d, v, allowed),
           allowed => InStage(Opened(o, op, d, v)), op # "admin"
    PROVE  SettledOnce'
<1> USE HubOrdersAssumption
<1>1. PICK g : g = Opened(o, op, d, v)
  OBVIOUS
<1>2. g.order = o /\ g.at \in Steps \ {"CANCELLED", "consume", "admin"}
      /\ request' = [request EXCEPT ![w] = g] /\ order' = order /\ settled' = settled
  BY <1>1, StepsAre DEF Opened, Start, Begin, stockVars
<1> SUFFICES ASSUME irregular' = {}, NEW p \in Orders
             PROVE  /\ ~Busy(p)' => settled'[p] = IF order'[p].status \in Closed THEN 1 ELSE 0
                    /\ AtWork(p, {"CANCELLED"})' => settled'[p] = 1
                    /\ AtWork(p, Steps \ {"CANCELLED"})' => settled'[p] = 0
  BY DEF SettledOnce
<1>3. irregular = {} /\ ~Busy(o) /\ allowed
  BY DEF Begin, Call
<1>4. request'[w] = g /\ request[w].order = None /\ \A u \in Requests \ {w} : request'[u] = request[u]
  BY <1>2 DEF Framed, TypeOK, Begin, Idle
<1>5. CASE p # o
  <2>1. \A u \in Requests : request'[u].order = p <=> request[u].order = p
    BY <1>2, <1>4, <1>5
  <2>2. \A u \in Requests : request[u].order = p => request'[u] = request[u]
    BY <1>2, <1>4, <1>5
  <2> QED BY <1>2, <1>3, <2>1, <2>2 DEF SettledOnce, Busy, AtWork
<1>6. CASE p = o
  <2>1. order[o].status \notin Closed
    BY <1>1, <1>2, <1>3, StepsAre DEF InStage, Closed
  <2>2. settled[o] = 0
    BY <1>3, <2>1 DEF SettledOnce
  <2>3. \A u \in Requests : request'[u].order = o => u = w
    BY <1>3, <1>4 DEF Busy
  <2> QED BY <1>2, <1>4, <1>6, <2>2, <2>3 DEF Busy, AtWork
<1> QED BY <1>5, <1>6

(* Every step keeps the third layer. *)
LEMMA SettledNext ==
    ASSUME Framed, Staged, SettledOnce, [Next]_vars
    PROVE  SettledOnce'
<1> USE HubOrdersAssumption
<1>1. CASE UNCHANGED vars
  BY <1>1 DEF SettledOnce, Busy, AtWork, vars, stockVars
<1>2. ASSUME NEW w \in Requests, Step(w)
      PROVE  SettledOnce'
  BY <1>2, SettledTransition, SettledQuiet, SettledReads, SettledStock, SettledPlan DEF Step
<1>3. ASSUME NEW w \in Requests, NEW o \in Orders, Arrival(w, o)
      PROVE  SettledOnce'
  <2>1. PICK op \in DOMAIN Start \ {"admin"}, d \in DriverOrNone, v \in VehicleOrNone,
             allowed \in BOOLEAN : Opens(w, o, op, d, v, allowed)
    BY <1>3, Openings
  <2> QED BY <2>1, SettledCall DEF Opens
<1>4. ASSUME NEW o \in Orders, NEW v \in Vehicles, AssignVehicle(o, v)
      PROVE  SettledOnce'
  BY <1>4 DEF AssignVehicle, Call, SettledOnce, Busy, AtWork, stockVars, Framed, TypeOK, Order
<1>5. ASSUME irregular' # {}
      PROVE  SettledOnce'
  BY <1>5 DEF SettledOnce
<1>6. ASSUME NEW w \in Requests, AdminWrites(w)
      PROVE  SettledOnce'
  <2>1. request[w].order \in irregular
    BY <1>6 DEF AdminWrites, At, Framed, Sound
  <2> QED BY <1>5, <1>6, <2>1 DEF AdminWrites
<1>7. ASSUME NEW o, NEW d, NEW v, NEW s, NEW w,
             DraftDispatch(o, d, v) \/ UpdateDispatch(o, d, v) \/ AdminAssignDriver(o, d, v)
             \/ WriteStatus(o, s) \/ AdminUpdateStatus(w, o, s)
      PROVE  SettledOnce'
  <2>1. irregular' # {}
    BY <1>7 DEF DraftDispatch, UpdateDispatch, AdminAssignDriver, WriteStatus, AdminUpdateStatus, Call
  <2> QED BY <1>5, <2>1
<1> QED BY <1>1, <1>2, <1>3, <1>4, <1>6, <1>7 DEF Next

-----------------------------------------------------------------------------
FleetOut == DispatchEnds /\ VehicleOut /\ DriverOut

(* The same, for an order whose row and frame are given: what its dispatch,  *)
(* a vehicle that is out for it, and a driver whose errand it is must be.    *)
DispatchFits(row, f, trip) ==
    row.status = "DELIVERED" \/ f.at = "DELIVERED" => trip.status \in {"none", "COMPLETED"}

VehicleFits(v, row, f) ==
    /\ v = row.vehicle
    /\ \/ row.status \in {"OUT_FOR_DELIVERY", "CANCELLED"} /\ f.at \notin {"endDispatch", "DELIVERED"}
       \/ f.at = "OUT_FOR_DELIVERY"

DriverFits(d, row, f) ==
    /\ row.driver = d
    /\ \/ row.status \in {"OUT_FOR_DELIVERY", "DRIVER_ASSIGNED", "CANCELLED"}
          /\ f.at \notin {"freeVehicle", "endDispatch", "DELIVERED"}
       \/ f.at \in {"takeVehicle", "OUT_FOR_DELIVERY"}

(* What is out for the order of a frame, told from the frame. *)
LEMMA FleetSoFar ==
    ASSUME Framed, Staged, FleetOut, NEW w \in Requests, NEW o \in Orders, o = request[w].order,
           o \notin irregular
    PROVE  /\ DispatchFits(order[o], request[w], dispatch[o])
           /\ \A v \in Vehicles : vehicle[v].order = o => VehicleFits(v, order[o], request[w])
           /\ \A d : Errand(d, o) <=> DriverFits(d, order[o], request[w])
<1>1. \A S : AtWork(o, S) <=> request[w].at \in S
  BY DEF Staged, Alone, AtWork
<1>2. DispatchFits(order[o], request[w], dispatch[o])
  BY <1>1 DEF FleetOut, DispatchEnds, DispatchFits
<1>3. \A v \in Vehicles : vehicle[v].order = o => VehicleFits(v, order[o], request[w])
  BY <1>1 DEF FleetOut, VehicleOut, VehicleFits
<1>4. \A d : Errand(d, o) <=> DriverFits(d, order[o], request[w])
  BY <1>1 DEF Errand, DriverFits
<1> QED BY <1>2, <1>3, <1>4

(* A statement of w concerns the order o of its frame, one vehicle and one   *)
(* driver, and leaves the frame g, the order's row and its dispatch trip.    *)
Leaves(w, o, g, row, trip) ==
    /\ o = request[w].order /\ (g.order = o \/ (g.order = None /\ g.at = "idle"))
    /\ request' = [request EXCEPT ![w] = g]
    /\ irregular' = irregular
    /\ row = order'[o] /\ trip = dispatch'[o]
    /\ \A p \in Orders \ {o} : order'[p] = order[p] /\ dispatch'[p] = dispatch[p]
    /\ \A v \in Vehicles : vehicle'[v].order \in {vehicle[v].order, None, o}
    /\ o \notin irregular =>
          /\ DispatchFits(row, g, trip)
          /\ \A v \in Vehicles : vehicle'[v].order = o => VehicleFits(v, row, g)
    /\ irregular = {} =>
          \A d \in Drivers : availability'[d] = "ON_DELIVERY" =>
              \/ DriverFits(d, row, g)
              \/ availability[d] = "ON_DELIVERY" /\ ~DriverFits(d, order[o], request[w])

(* Such a statement keeps the fourth layer. *)
LEMMA FleetStep ==
    ASSUME Framed, Staged, FleetOut, NEW w \in Requests, NEW o \in Orders, NEW g,
           NEW row, NEW trip, Leaves(w, o, g, row, trip)
    PROVE  FleetOut'
<1> USE DEF Leaves
<1> DEFINE f == request[w]
<1> USE HubOrdersAssumption
<1>1. request'[w] = g /\ \A u \in Requests \ {w} : request'[u] = request[u]
  BY DEF Framed, TypeOK
<1>2. ASSUME NEW p \in Orders \ {o}, NEW S
      PROVE  AtWork(p, S)' <=> AtWork(p, S)
  <2>1. \A u \in Requests : request'[u].order = p <=> request[u].order = p
    BY <1>1
  <2>2. \A u \in Requests : request[u].order = p => request'[u] = request[u]
    BY <1>1
  <2> QED BY <2>1, <2>2 DEF AtWork
<1>3. ASSUME o \notin irregular, NEW S, "idle" \notin S
      PROVE  AtWork(o, S)' <=> g.at \in S
  <2>1. \A u \in Requests \ {w} : request'[u].order # o
    BY <1>1, <1>3 DEF Staged, Alone
  <2> QED BY <1>1, <1>3, <2>1 DEF AtWork
<1>4. DispatchEnds'
  <2> SUFFICES ASSUME NEW p \in Orders \ irregular,
                      order'[p].status = "DELIVERED" \/ AtWork(p, {"DELIVERED"})'
               PROVE  dispatch'[p].status \in {"none", "COMPLETED"}
    BY DEF DispatchEnds
  <2>1. CASE p = o
    BY <1>3, <2>1 DEF DispatchFits
  <2>2. CASE p # o
    BY <1>2, <2>2 DEF FleetOut, DispatchEnds
  <2> QED BY <2>1, <2>2
<1>5. VehicleOut'
  <2> SUFFICES ASSUME NEW p \in Orders \ irregular, NEW v \in Vehicles, vehicle'[v].order = p
               PROVE  /\ v = order'[p].vehicle
                      /\ \/ order'[p].status \in {"OUT_FOR_DELIVERY", "CANCELLED"}
                            /\ ~AtWork(p, {"endDispatch", "DELIVERED"})'
                         \/ AtWork(p, {"OUT_FOR_DELIVERY"})'
    BY DEF VehicleOut
  <2>1. CASE p = o
    <3>1. VehicleFits(v, row, g)
      BY <2>1
    <3>2. /\ AtWork(o, {"endDispatch", "DELIVERED"})' <=> g.at \in {"endDispatch", "DELIVERED"}
          /\ AtWork(o, {"OUT_FOR_DELIVERY"})' <=> g.at \in {"OUT_FOR_DELIVERY"}
      BY <1>3, <2>1
    <3> QED BY <2>1, <3>1, <3>2 DEF VehicleFits
  <2>2. CASE p # o
    <3>1. vehicle[v].order = p
      BY <2>2
    <3>2. /\ AtWork(p, {"endDispatch", "DELIVERED"})' <=> AtWork(p, {"endDispatch", "DELIVERED"})
          /\ AtWork(p, {"OUT_FOR_DELIVERY"})' <=> AtWork(p, {"OUT_FOR_DELIVERY"})
      BY <1>2, <2>2
    <3> QED BY <2>2, <3>1, <3>2 DEF FleetOut, VehicleOut
  <2> QED BY <2>1, <2>2
<1>6. DriverOut'
  <2> SUFFICES ASSUME irregular = {}, NEW d \in Drivers, availability'[d] = "ON_DELIVERY"
               PROVE  \E p \in Orders : Errand(d, p)'
    BY DEF DriverOut
  <2>1. CASE DriverFits(d, row, g)
    <3>1. Errand(d, o)'
      <4>1. /\ AtWork(o, {"freeVehicle", "endDispatch", "DELIVERED"})'
                 <=> g.at \in {"freeVehicle", "endDispatch", "DELIVERED"}
            /\ AtWork(o, {"takeVehicle", "OUT_FOR_DELIVERY"})'
                 <=> g.at \in {"takeVehicle", "OUT_FOR_DELIVERY"}
        BY <1>3
      <4> QED BY <2>1, <4>1 DEF DriverFits, Errand
    <3> QED BY <3>1
  <2>2. CASE availability[d] = "ON_DELIVERY" /\ ~DriverFits(d, order[o], f)
    <3>1. PICK p \in Orders : Errand(d, p)
      BY <2>2 DEF FleetOut, DriverOut
    <3>2. p # o
      BY <2>2, <3>1, FleetSoFar
    <3>3. Errand(d, p)'
      <4>1. /\ AtWork(p, {"freeVehicle", "endDispatch", "DELIVERED"})'
                 <=> AtWork(p, {"freeVehicle", "endDispatch", "DELIVERED"})
            /\ AtWork(p, {"takeVehicle", "OUT_FOR_DELIVERY"})'
                 <=> AtWork(p, {"takeVehicle", "OUT_FOR_DELIVERY"})
        BY <1>2, <3>2
      <4> QED BY <3>1, <3>2, <4>1 DEF Errand
    <3> QED BY <3>3
  <2> QED BY <2>1, <2>2
<1> QED BY <1>4, <1>5, <1>6 DEF FleetOut

(* transitionOrder sends out what has been taken, and delivers what is freed. *)
LEMMA FleetTransition ==
    ASSUME Framed, Staged, FleetOut, NEW w \in Requests, NEW s \in Statuses, Transition(w, s)
    PROVE  FleetOut'
<1> USE HubOrdersAssumption
<1> SUFFICES ASSUME NEW f, f = request[w], NEW o, o = f.order, NEW g, g = Rest(f),
                    NEW row, row = order'[o], NEW trip, trip = dispatch'[o]
             PROVE  FleetOut'
  OBVIOUS
<1>1. f \in Frame /\ Sound(f) /\ f.at = s /\ o \in Orders /\ f.at \notin {"idle", "readActivity"}
  BY DEF Framed, TypeOK, Transition, At, Frame, Sound, Statuses
<1>2. /\ irregular' = irregular /\ dispatch' = dispatch /\ availability' = availability
      /\ vehicle' = vehicle /\ request' = [request EXCEPT ![w] = g]
      /\ \A p \in Orders \ {o} : order'[p] = order[p]
  <2>1. \A p \in Orders \ {o} : order'[p] = order[p]
    BY <1>1, TransitionWrites
  <2>2. /\ irregular' = irregular /\ dispatch' = dispatch /\ availability' = availability
        /\ vehicle' = vehicle /\ Continue(w)
    BY DEF Transition, History, fleetVars
  <2> QED BY <2>1, <2>2 DEF Continue
<1>3. /\ row.status = s
      /\ s # "DRIVER_ASSIGNED" => row.driver = order[o].driver /\ row.vehicle = order[o].vehicle
  BY <1>1, TransitionWrites
<1>4. /\ g.order = o \/ (g.order = None /\ g.at = "idle")
      /\ g.at \in {"idle", "readActivity", "consume"}
  BY <1>1, RestAt, AfterIs DEF Idle, Statuses
<1>5. o \notin irregular =>
        /\ DispatchFits(order[o], f, dispatch[o])
        /\ \A v \in Vehicles : vehicle[v].order = o => VehicleFits(v, order[o], f)
        /\ InStage(f)
  BY <1>1, FleetSoFar DEF Staged
<1>6. s \in Steps
  BY <1>1 DEF Frame, Statuses
<1>7. ASSUME o \notin irregular
      PROVE  /\ DispatchFits(row, g, trip)
             /\ \A v \in Vehicles : vehicle'[v].order = o => VehicleFits(v, row, g)
  <2>1. DispatchFits(row, g, trip)
    BY <1>1, <1>2, <1>3, <1>4, <1>5, <1>7 DEF DispatchFits
  <2>2. ASSUME NEW v \in Vehicles, vehicle[v].order = o
        PROVE  VehicleFits(v, row, g)
    <3>1. VehicleFits(v, order[o], f) /\ InStage(f)
      BY <1>5, <1>7, <2>2
    <3>2. s \in {"CANCELLED", "OUT_FOR_DELIVERY"}
      BY <1>1, <1>6, <3>1, StepsAre DEF VehicleFits, InStage, Statuses, Closed
    <3> QED BY <1>3, <1>4, <3>1, <3>2 DEF VehicleFits
  <2> QED BY <1>2, <2>1, <2>2
<1>8. ASSUME irregular = {}, NEW d \in Drivers, DriverFits(d, order[o], f)
      PROVE  DriverFits(d, row, g)
  <2>1. InStage(f)
    BY <1>1, <1>5, <1>8
  <2>2. s \in {"CANCELLED", "OUT_FOR_DELIVERY"}
    BY <1>1, <1>6, <1>8, <2>1, StepsAre DEF DriverFits, InStage, Statuses, Closed
  <2> QED BY <1>3, <1>4, <1>8, <2>2 DEF DriverFits
<1>9. /\ \A v \in Vehicles : vehicle'[v].order \in {vehicle[v].order, None, o}
      /\ \A p \in Orders \ {o} : order'[p] = order[p] /\ dispatch'[p] = dispatch[p]
      /\ \A d \in Drivers : availability'[d] = availability[d]
  BY <1>2
<1>10. Leaves(w, o, g, row, trip)
  BY <1>1, <1>2, <1>4, <1>7, <1>8, <1>9 DEF Leaves
<1> QED BY <1>10, <1>1, FleetStep

\* A statement after which the order, its dispatch, and who is out are the same.
LEMMA FleetSame ==
    ASSUME Framed, Staged, FleetOut, NEW w \in Requests, NEW f, f = request[w],
           NEW o \in Orders, o = f.order, NEW g, g.order = o \/ (g.order = None /\ g.at = "idle"),
           request' = [request EXCEPT ![w] = g], irregular' = irregular,
           \A p \in Orders \ {o} : order'[p] = order[p],
           dispatch' = dispatch, availability' = availability,
           \A v \in Vehicles : vehicle'[v].order = vehicle[v].order,
           order'[o].status = order[o].status, order'[o].driver = order[o].driver,
           order'[o].vehicle = order[o].vehicle,
           f.at \notin {"takeVehicle", "OUT_FOR_DELIVERY"},
           g.at \notin {"freeVehicle", "endDispatch", "DELIVERED"}
    PROVE  FleetOut'
<1> SUFFICES ASSUME NEW row, row = order'[o], NEW trip, trip = dispatch'[o]
             PROVE  FleetOut'
  OBVIOUS
<1>1. ASSUME o \notin irregular
      PROVE  /\ DispatchFits(row, g, trip)
             /\ \A v \in Vehicles : vehicle'[v].order = o => VehicleFits(v, row, g)
  <2>1. /\ DispatchFits(order[o], f, dispatch[o])
        /\ \A v \in Vehicles : vehicle[v].order = o => VehicleFits(v, order[o], f)
    BY <1>1, FleetSoFar
  <2>2. DispatchFits(row, g, trip)
    BY <2>1 DEF DispatchFits
  <2>3. \A v \in Vehicles : vehicle[v].order = o => VehicleFits(v, row, g)
    BY <2>1 DEF VehicleFits
  <2> QED BY <2>2, <2>3
<1>2. \A d : DriverFits(d, order[o], f) => DriverFits(d, row, g)
  BY DEF DriverFits
<1>3. \A v \in Vehicles : vehicle'[v].order \in {vehicle[v].order, None, o}
  OBVIOUS
<1>4. o \notin irregular =>
        /\ DispatchFits(row, g, trip)
        /\ \A v \in Vehicles : vehicle'[v].order = o => VehicleFits(v, row, g)
  BY <1>1
<1>5. irregular = {} =>
        \A d \in Drivers : availability'[d] = "ON_DELIVERY" =>
            \/ DriverFits(d, row, g)
            \/ availability[d] = "ON_DELIVERY" /\ ~DriverFits(d, order[o], f)
  BY <1>2
<1>6. \A p \in Orders \ {o} : order'[p] = order[p] /\ dispatch'[p] = dispatch[p]
  OBVIOUS
<1>7. Leaves(w, o, g, row, trip)
  BY <1>3, <1>4, <1>5, <1>6 DEF Leaves
<1> QED BY <1>7, <1>1, FleetStep

(* The statements about stock, code and arrival free nobody. *)
LEMMA FleetQuiet ==
    ASSUME Framed, Staged, FleetOut, NEW w \in Requests,
           \/ Release(w) \/ Consume(w) \/ Reached(w) \/ GenerateOtp(w) \/ Verified(w)
           \/ ReachVehicle(w)
    PROVE  FleetOut'
<1> USE HubOrdersAssumption
<1> SUFFICES ASSUME NEW f, f = request[w], NEW o, o = f.order, NEW g, g = Rest(f)
             PROVE  FleetOut'
  OBVIOUS
<1> USE DEF Release, Consume, Reached, GenerateOtp, Verified, ReachVehicle
<1>1. f \in Frame /\ Sound(f) /\ o \in Orders
      /\ f.at \in {"release", "consume", "reached", "otp", "verified", "reachVehicle", "reachDispatched"}
  BY DEF Framed, TypeOK, At, Frame, Sound
<1>2. /\ irregular' = irregular /\ dispatch' = dispatch /\ availability' = availability
      /\ request' = [request EXCEPT ![w] = g]
  BY DEF History, fleetVars, Continue
<1>3. /\ \A p \in Orders \ {o} : order'[p] = order[p]
      /\ order'[o].status = order[o].status /\ order'[o].driver = order[o].driver
      /\ order'[o].vehicle = order[o].vehicle
  BY <1>1 DEF Framed, TypeOK, Order
<1>4. \A v \in Vehicles : vehicle'[v].order = vehicle[v].order
  <2>1. CASE UNCHANGED vehicle
    BY <2>1
  <2>2. CASE ReachVehicle(w)
    <3>1. PICK v : Reach(v)
      BY <2>2
    <3> QED BY <3>1 DEF Reach, Framed, TypeOK, Vehicle
  <2> QED BY <2>1, <2>2 DEF fleetVars
<1> HIDE DEF Release, Consume, Reached, GenerateOtp, Verified, ReachVehicle
<1>5. /\ g.order = o \/ (g.order = None /\ g.at = "idle")
      /\ g.at \notin {"freeVehicle", "endDispatch", "DELIVERED"}
  BY <1>1, RestAt, AfterIs DEF Idle
<1>6. f.at \notin {"takeVehicle", "OUT_FOR_DELIVERY"}
  BY <1>1
<1> QED BY <1>1, <1>2, <1>3, <1>4, <1>5, <1>6, FleetSame

(* Nor do those that only read. *)
LEMMA FleetReads ==
    ASSUME Framed, Staged, FleetOut, NEW w \in Requests,
           ReadActivity(w) \/ CheckReached(w) \/ Reread(w)
    PROVE  FleetOut'
<1> USE HubOrdersAssumption
<1> SUFFICES ASSUME NEW f, f = request[w], NEW o, o = f.order
             PROVE  FleetOut'
  OBVIOUS
<1> USE DEF ReadActivity, CheckReached, Reread
<1>1. f \in Frame /\ Sound(f) /\ o \in Orders /\ f.at \in {"readActivity", "checkReached", "reread"}
  BY DEF Framed, TypeOK, At, Frame, Sound
<1>2. irregular' = irregular /\ dispatch' = dispatch /\ availability' = availability
      /\ order' = order /\ vehicle' = vehicle
  BY DEF fleetVars, History
<1>3. Rest(f) \in Frame /\ Rest(f).order = o /\ Rest(f).at \in {"sync", "reached", "freeDriver"}
  BY <1>1, Following, AfterIs, StepsAre, RestAt DEF Frame
<1> DEFINE Fits(h) == h.order \in {o, None} /\ (h.order = None => h.at = "idle")
                      /\ h.at \notin {"freeVehicle", "endDispatch", "DELIVERED"}
<1>4. Fits(Idle) /\ \A to, d, v : /\ Fits([Rest(f) EXCEPT !.next = to])
                                  /\ Fits([Rest(f) EXCEPT !.vehicle = v])
                                  /\ Fits([Rest(f) EXCEPT !.driver = d, !.vehicle = v])
  BY <1>1, <1>3 DEF Idle, Frame
<1>5. PICK h : request' = [request EXCEPT ![w] = h] /\ Fits(h)
  <2>1. CASE ReadActivity(w)
    <3> DEFINE h == [Rest(f) EXCEPT !.next = Derived(f.driver)]
    <3>1. request' = [request EXCEPT ![w] = Idle] \/ request' = [request EXCEPT ![w] = h]
      BY <2>1
    <3>2. Fits(Idle) /\ Fits(h)
      BY <1>4
    <3> HIDE DEF Fits, h, ReadActivity
    <3> QED BY <3>1, <3>2
  <2>2. CASE CheckReached(w)
    <3> DEFINE h == [Rest(f) EXCEPT !.vehicle = order[o].vehicle]
    <3>1. request' = [request EXCEPT ![w] = Idle] \/ request' = [request EXCEPT ![w] = h]
      BY <2>2
    <3>2. Fits(Idle) /\ Fits(h)
      BY <1>4
    <3> HIDE DEF Fits, h, CheckReached
    <3> QED BY <3>1, <3>2
  <2>3. CASE Reread(w)
    <3> DEFINE h == [Rest(f) EXCEPT !.driver = order[o].driver, !.vehicle = order[o].vehicle]
    <3>1. request' = [request EXCEPT ![w] = Idle] \/ request' = [request EXCEPT ![w] = h]
      BY <2>3
    <3>2. Fits(Idle) /\ Fits(h)
      BY <1>4
    <3> HIDE DEF Fits, h, Reread
    <3> QED BY <3>1, <3>2
  <2> HIDE DEF ReadActivity, CheckReached, Reread, Fits
  <2> QED BY <2>1, <2>2, <2>3
<1>6. f.at \notin {"takeVehicle", "OUT_FOR_DELIVERY"}
  BY <1>1
<1> HIDE DEF ReadActivity, CheckReached, Reread
<1> QED BY <1>1, <1>2, <1>5, <1>6, FleetSame

\* The customer's cancellation: nothing was out for the order yet.
LEMMA FleetCancelTx ==
    ASSUME Framed, Staged, FleetOut, NEW w \in Requests, CancelTx(w)
    PROVE  FleetOut'
<1> USE HubOrdersAssumption
<1> SUFFICES ASSUME NEW f, f = request[w], NEW o, o = f.order, NEW g, g = Rest(f),
                    NEW row, row = order'[o], NEW trip, trip = dispatch'[o]
             PROVE  FleetOut'
  OBVIOUS
<1>1. f \in Frame /\ Sound(f) /\ f.at = "cancelTx" /\ o \in Orders
  BY DEF Framed, TypeOK, CancelTx, At, Frame, Sound
<1>2. /\ irregular' = irregular /\ dispatch' = dispatch /\ availability' = availability
      /\ vehicle' = vehicle /\ request' = [request EXCEPT ![w] = g]
      /\ \A p \in Orders \ {o} : order'[p] = order[p]
      /\ row.status = "CANCELLED"
  BY <1>1 DEF CancelTx, History, Framed, TypeOK, fleetVars, Continue, Order
<1>3. g.order = None /\ g.at = "idle"
  BY <1>1, RestAt, AfterIs DEF Idle
<1>4. o \notin irregular =>
        /\ order[o].status = "HUB_ASSIGNED"
        /\ \A v \in Vehicles : vehicle[v].order = o => VehicleFits(v, order[o], f)
  BY <1>1, FleetSoFar DEF Staged, InStage
<1>5. o \notin irregular => \A v \in Vehicles : vehicle[v].order # o
  BY <1>1, <1>4 DEF VehicleFits
<1>6. DispatchFits(row, g, trip)
  BY <1>2, <1>3 DEF DispatchFits
<1>7. irregular = {} => \A d : ~DriverFits(d, order[o], f)
  BY <1>1, <1>4 DEF DriverFits
<1>8. /\ \A v \in Vehicles : vehicle'[v].order \in {vehicle[v].order, None, o}
      /\ \A p \in Orders \ {o} : order'[p] = order[p] /\ dispatch'[p] = dispatch[p]
      /\ \A d \in Drivers : availability'[d] = availability[d]
  BY <1>2
<1>9. o \notin irregular => \A v \in Vehicles : vehicle'[v].order = o => VehicleFits(v, row, g)
  BY <1>2, <1>5
<1>10. Leaves(w, o, g, row, trip)
  BY <1>1, <1>2, <1>3, <1>6, <1>7, <1>8, <1>9 DEF Leaves
<1> QED BY <1>10, <1>1, FleetStep

(* syncAvailability writes for the driver of an order that waits for him. *)
LEMMA FleetSync ==
    ASSUME Framed, Staged, FleetOut, NEW w \in Requests, SyncAvailability(w)
    PROVE  FleetOut'
<1> USE HubOrdersAssumption
<1> SUFFICES ASSUME NEW f, f = request[w], NEW o, o = f.order, NEW g, g = Rest(f),
                    NEW row, row = order'[o], NEW trip, trip = dispatch'[o]
             PROVE  FleetOut'
  OBVIOUS
<1>1. f \in Frame /\ Sound(f) /\ f.at = "sync" /\ o \in Orders
  BY DEF Framed, TypeOK, SyncAvailability, At, Frame, Sound
<1>2. /\ irregular' = irregular /\ dispatch' = dispatch /\ order' = order
      /\ availability' = [availability EXCEPT ![f.driver] = f.next]
      /\ vehicle' = vehicle /\ request' = [request EXCEPT ![w] = g]
  BY DEF SyncAvailability, History, Continue
<1>3. g.order = None /\ g.at = "idle"
  BY <1>1, RestAt, AfterIs DEF Idle
<1>4. ASSUME o \notin irregular
      PROVE  /\ order[o].status = "DRIVER_ASSIGNED" /\ order[o].driver = f.driver
             /\ DispatchFits(order[o], f, dispatch[o])
             /\ \A v \in Vehicles : vehicle[v].order = o => VehicleFits(v, order[o], f)
  <2>1. InStage(f) /\ Carries(f)
    BY <1>1, <1>4 DEF Staged
  <2> QED BY <1>1, <1>4, <2>1, FleetSoFar DEF InStage, Carries
<1>5. o \notin irregular =>
        /\ DispatchFits(row, g, trip)
        /\ \A v \in Vehicles : vehicle'[v].order = o => VehicleFits(v, row, g)
  BY <1>1, <1>2, <1>3, <1>4 DEF DispatchFits, VehicleFits
<1>6. ASSUME irregular = {}, NEW d \in Drivers, availability'[d] = "ON_DELIVERY"
      PROVE  \/ DriverFits(d, row, g)
             \/ availability[d] = "ON_DELIVERY" /\ ~DriverFits(d, order[o], f)
  BY <1>1, <1>2, <1>3, <1>4, <1>6 DEF DriverFits, Framed, TypeOK
<1>7. /\ \A v \in Vehicles : vehicle'[v].order \in {vehicle[v].order, None, o}
      /\ \A p \in Orders \ {o} : order'[p] = order[p] /\ dispatch'[p] = dispatch[p]
  BY <1>2
<1>8. Leaves(w, o, g, row, trip)
  BY <1>1, <1>2, <1>3, <1>5, <1>6, <1>7 DEF Leaves
<1> QED BY <1>8, <1>1, FleetStep

(* The dispatch starts before driver and vehicle are taken. *)
LEMMA FleetStart ==
    ASSUME Framed, Staged, FleetOut, NEW w \in Requests, StartDispatch(w)
    PROVE  FleetOut'
<1> USE HubOrdersAssumption
<1> SUFFICES ASSUME NEW f, f = request[w], NEW o, o = f.order, NEW g, g = Rest(f),
                    NEW row, row = order'[o], NEW trip, trip = dispatch'[o]
             PROVE  FleetOut'
  OBVIOUS
<1>1. f \in Frame /\ Sound(f) /\ f.at = "startDispatch" /\ o \in Orders
  BY DEF Framed, TypeOK, StartDispatch, At, Frame, Sound
<1>2. irregular' = irregular /\ request' = [request EXCEPT ![w] = g]
  BY DEF StartDispatch, History, Continue
<1>3. g.order = o /\ g.at = "takeDriver"
  BY <1>1, RestAt, AfterIs
<1>4. ASSUME o \notin irregular
      PROVE  /\ DispatchFits(order[o], f, dispatch[o])
             /\ \A v \in Vehicles : vehicle[v].order = o => VehicleFits(v, order[o], f)
             /\ InStage(f) /\ Carries(f)
  BY <1>1, <1>4, FleetSoFar DEF Staged
<1>5. /\ order' = order /\ availability' = availability /\ vehicle' = vehicle
      /\ \A p \in Orders \ {o} : dispatch'[p] = dispatch[p]
  BY <1>1 DEF StartDispatch, Framed, TypeOK, fleetVars
<1>6. o \notin irregular =>
        /\ DispatchFits(row, g, trip)
        /\ \A v \in Vehicles : vehicle'[v].order = o => VehicleFits(v, row, g)
  BY <1>1, <1>3, <1>4, <1>5 DEF DispatchFits, VehicleFits, InStage
<1>7. \A d : DriverFits(d, order[o], f) => DriverFits(d, row, g)
  BY <1>1, <1>3, <1>5 DEF DriverFits
<1>8. Leaves(w, o, g, row, trip)
  BY <1>1, <1>2, <1>3, <1>5, <1>6, <1>7 DEF Leaves
<1> QED BY <1>8, <1>1, FleetStep

\* The driver goes out for the order.
LEMMA FleetTakeDriver ==
    ASSUME Framed, Staged, FleetOut, NEW w \in Requests, TakeDriver(w)
    PROVE  FleetOut'
<1> USE HubOrdersAssumption
<1> SUFFICES ASSUME NEW f, f = request[w], NEW o, o = f.order, NEW g, g = Rest(f),
                    NEW row, row = order'[o], NEW trip, trip = dispatch'[o]
             PROVE  FleetOut'
  OBVIOUS
<1>1. f \in Frame /\ Sound(f) /\ f.at = "takeDriver" /\ o \in Orders
  BY DEF Framed, TypeOK, TakeDriver, At, Frame, Sound
<1>2. irregular' = irregular /\ request' = [request EXCEPT ![w] = g]
  BY DEF TakeDriver, History, Continue
<1>3. g.order = o /\ g.at = "takeVehicle"
  BY <1>1, RestAt, AfterIs
<1>4. ASSUME o \notin irregular
      PROVE  /\ DispatchFits(order[o], f, dispatch[o])
             /\ \A v \in Vehicles : vehicle[v].order = o => VehicleFits(v, order[o], f)
             /\ InStage(f) /\ Carries(f)
  BY <1>1, <1>4, FleetSoFar DEF Staged
<1>5. /\ order' = order /\ dispatch' = dispatch /\ vehicle' = vehicle
      /\ SetDriver(f.driver, "ON_DELIVERY")
  BY DEF TakeDriver
<1>6. o \notin irregular =>
        /\ DispatchFits(row, g, trip)
        /\ \A v \in Vehicles : vehicle'[v].order = o => VehicleFits(v, row, g)
  BY <1>1, <1>3, <1>4, <1>5 DEF DispatchFits, VehicleFits, InStage
<1>7. ASSUME irregular = {}, NEW d \in Drivers, availability'[d] = "ON_DELIVERY"
      PROVE  \/ DriverFits(d, row, g)
             \/ availability[d] = "ON_DELIVERY" /\ ~DriverFits(d, order[o], f)
  <2>1. f.driver = order[o].driver
    BY <1>1, <1>4, <1>7 DEF Carries
  <2>2. d = f.driver \/ availability'[d] = availability[d]
    BY <1>5 DEF SetDriver, Framed, TypeOK
  <2> QED BY <1>3, <1>5, <1>7, <2>1, <2>2 DEF DriverFits
<1>8. Leaves(w, o, g, row, trip)
  BY <1>1, <1>2, <1>3, <1>5, <1>6, <1>7 DEF Leaves
<1> QED BY <1>8, <1>1, FleetStep

\* The vehicle goes out for the order.
LEMMA FleetTakeVehicle ==
    ASSUME Framed, Staged, FleetOut, NEW w \in Requests, TakeVehicle(w)
    PROVE  FleetOut'
<1> USE HubOrdersAssumption
<1> SUFFICES ASSUME NEW f, f = request[w], NEW o, o = f.order, NEW g, g = Rest(f),
                    NEW row, row = order'[o], NEW trip, trip = dispatch'[o]
             PROVE  FleetOut'
  OBVIOUS
<1>1. f \in Frame /\ Sound(f) /\ f.at = "takeVehicle" /\ o \in Orders
  BY DEF Framed, TypeOK, TakeVehicle, At, Frame, Sound
<1>2. irregular' = irregular /\ request' = [request EXCEPT ![w] = g]
  BY DEF TakeVehicle, History, Continue
<1>3. g.order = o /\ g.at = "OUT_FOR_DELIVERY"
  BY <1>1, RestAt, AfterIs
<1>4. ASSUME o \notin irregular
      PROVE  /\ DispatchFits(order[o], f, dispatch[o])
             /\ \A v \in Vehicles : vehicle[v].order = o => VehicleFits(v, order[o], f)
             /\ InStage(f) /\ Carries(f)
  BY <1>1, <1>4, FleetSoFar DEF Staged
<1>5. /\ order' = order /\ dispatch' = dispatch /\ availability' = availability
      /\ SetVehicle(f.vehicle, "OUT_FOR_DELIVERY", o)
  BY DEF TakeVehicle
<1>6. /\ o \notin irregular =>
           /\ DispatchFits(row, g, trip)
           /\ \A v \in Vehicles : vehicle'[v].order = o => VehicleFits(v, row, g)
      /\ \A v \in Vehicles : vehicle'[v].order \in {vehicle[v].order, None, o}
  <2>1. \A v \in Vehicles : \/ v = f.vehicle /\ vehicle'[v].order = o
                            \/ vehicle'[v] = vehicle[v]
    BY <1>5 DEF SetVehicle, Framed, TypeOK
  <2>2. o \notin irregular => DispatchFits(row, g, trip)
    BY <1>1, <1>3, <1>4, <1>5 DEF DispatchFits, InStage
  <2>3. o \notin irregular => f.vehicle = order[o].vehicle
    BY <1>1, <1>4 DEF Carries
  <2>4. o \notin irregular => \A v \in Vehicles : vehicle'[v].order = o => VehicleFits(v, row, g)
    BY <1>3, <1>4, <1>5, <2>1, <2>3 DEF VehicleFits
  <2> QED BY <2>1, <2>2, <2>4
<1>7. \A d : DriverFits(d, order[o], f) => DriverFits(d, row, g)
  BY <1>1, <1>3, <1>5 DEF DriverFits
<1>8. Leaves(w, o, g, row, trip)
  BY <1>1, <1>2, <1>3, <1>5, <1>6, <1>7 DEF Leaves
<1> QED BY <1>8, <1>1, FleetStep

\* The driver has come back from the order.
LEMMA FleetFreeDriver ==
    ASSUME Framed, Staged, FleetOut, NEW w \in Requests, FreeDriver(w)
    PROVE  FleetOut'
<1> USE HubOrdersAssumption
<1> SUFFICES ASSUME NEW f, f = request[w], NEW o, o = f.order, NEW g, g = Rest(f),
                    NEW row, row = order'[o], NEW trip, trip = dispatch'[o]
             PROVE  FleetOut'
  OBVIOUS
<1>1. f \in Frame /\ Sound(f) /\ f.at = "freeDriver" /\ o \in Orders
  BY DEF Framed, TypeOK, FreeDriver, At, Frame, Sound
<1>2. irregular' = irregular /\ request' = [request EXCEPT ![w] = g]
  BY DEF FreeDriver, History, Continue
<1>3. g.order = o /\ g.at = "freeVehicle"
  BY <1>1, RestAt, AfterIs
<1>4. ASSUME o \notin irregular
      PROVE  /\ DispatchFits(order[o], f, dispatch[o])
             /\ \A v \in Vehicles : vehicle[v].order = o => VehicleFits(v, order[o], f)
             /\ InStage(f) /\ Carries(f)
  BY <1>1, <1>4, FleetSoFar DEF Staged
<1>5. /\ order' = order /\ dispatch' = dispatch /\ vehicle' = vehicle
      /\ SetDriver(f.driver, "AVAILABLE")
  BY DEF FreeDriver
<1>6. o \notin irregular =>
        /\ DispatchFits(row, g, trip)
        /\ \A v \in Vehicles : vehicle'[v].order = o => VehicleFits(v, row, g)
  BY <1>1, <1>3, <1>4, <1>5 DEF DispatchFits, VehicleFits, InStage
<1>7. ASSUME irregular = {}, NEW d \in Drivers, availability'[d] = "ON_DELIVERY"
      PROVE  \/ DriverFits(d, row, g)
             \/ availability[d] = "ON_DELIVERY" /\ ~DriverFits(d, order[o], f)
  <2>1. f.driver = order[o].driver
    BY <1>1, <1>4, <1>7 DEF Carries
  <2>2. d # f.driver /\ availability'[d] = availability[d]
    BY <1>5, <1>7 DEF SetDriver, Framed, TypeOK
  <2> QED BY <1>7, <2>1, <2>2 DEF DriverFits
<1>8. Leaves(w, o, g, row, trip)
  BY <1>1, <1>2, <1>3, <1>5, <1>6, <1>7 DEF Leaves
<1> QED BY <1>8, <1>1, FleetStep

\* The vehicle has come back from the order.
LEMMA FleetFreeVehicle ==
    ASSUME Framed, Staged, FleetOut, NEW w \in Requests, FreeVehicle(w)
    PROVE  FleetOut'
<1> USE HubOrdersAssumption
<1> SUFFICES ASSUME NEW f, f = request[w], NEW o, o = f.order, NEW g, g = Rest(f),
                    NEW row, row = order'[o], NEW trip, trip = dispatch'[o]
             PROVE  FleetOut'
  OBVIOUS
<1>1. f \in Frame /\ Sound(f) /\ f.at = "freeVehicle" /\ o \in Orders
  BY DEF Framed, TypeOK, FreeVehicle, At, Frame, Sound
<1>2. irregular' = irregular /\ request' = [request EXCEPT ![w] = g]
  BY DEF FreeVehicle, History, Continue
<1>3. g.order = o /\ g.at = "endDispatch"
  BY <1>1, RestAt, AfterIs
<1>4. ASSUME o \notin irregular
      PROVE  /\ DispatchFits(order[o], f, dispatch[o])
             /\ \A v \in Vehicles : vehicle[v].order = o => VehicleFits(v, order[o], f)
             /\ InStage(f) /\ Carries(f)
  BY <1>1, <1>4, FleetSoFar DEF Staged
<1>5. /\ order' = order /\ dispatch' = dispatch /\ availability' = availability
      /\ SetVehicle(f.vehicle, "AVAILABLE", None)
  BY DEF FreeVehicle
<1>6. /\ o \notin irregular =>
           /\ DispatchFits(row, g, trip)
           /\ \A v \in Vehicles : vehicle'[v].order = o => VehicleFits(v, row, g)
      /\ \A v \in Vehicles : vehicle'[v].order \in {vehicle[v].order, None, o}
  <2>1. \A v \in Vehicles : \/ v = f.vehicle /\ vehicle'[v].order = None
                            \/ v # f.vehicle /\ vehicle'[v] = vehicle[v]
    BY <1>5 DEF SetVehicle, Framed, TypeOK
  <2>2. o \notin irregular => DispatchFits(row, g, trip)
    BY <1>1, <1>3, <1>4, <1>5 DEF DispatchFits, InStage
  <2>3. o \notin irregular => f.vehicle = order[o].vehicle
    BY <1>1, <1>4 DEF Carries
  <2>4. o \notin irregular => \A v \in Vehicles : vehicle'[v].order # o
    BY <1>1, <1>4, <2>1, <2>3 DEF VehicleFits
  <2> QED BY <2>1, <2>2, <2>4
<1>7. \A d : ~DriverFits(d, order[o], f)
  BY <1>1 DEF DriverFits
<1>8. Leaves(w, o, g, row, trip)
  BY <1>1, <1>2, <1>3, <1>5, <1>6, <1>7 DEF Leaves
<1> QED BY <1>8, <1>1, FleetStep

(* The dispatch ends before the order is delivered. *)
LEMMA FleetEnd ==
    ASSUME Framed, Staged, FleetOut, NEW w \in Requests, EndDispatch(w)
    PROVE  FleetOut'
<1> USE HubOrdersAssumption
<1> SUFFICES ASSUME NEW f, f = request[w], NEW o, o = f.order, NEW g, g = Rest(f),
                    NEW row, row = order'[o], NEW trip, trip = dispatch'[o]
             PROVE  FleetOut'
  OBVIOUS
<1>1. f \in Frame /\ Sound(f) /\ f.at = "endDispatch" /\ o \in Orders
  BY DEF Framed, TypeOK, EndDispatch, At, Frame, Sound
<1>2. irregular' = irregular /\ request' = [request EXCEPT ![w] = g]
  BY DEF EndDispatch, History, Continue
<1>3. g.order = o /\ g.at = "DELIVERED"
  BY <1>1, RestAt, AfterIs
<1>4. ASSUME o \notin irregular
      PROVE  /\ DispatchFits(order[o], f, dispatch[o])
             /\ \A v \in Vehicles : vehicle[v].order = o => VehicleFits(v, order[o], f)
             /\ InStage(f) /\ Carries(f)
  BY <1>1, <1>4, FleetSoFar DEF Staged
<1>5. /\ order' = order /\ availability' = availability /\ vehicle' = vehicle
      /\ \A p \in Orders \ {o} : dispatch'[p] = dispatch[p]
      /\ trip.status \in {"none", "COMPLETED"}
  BY <1>1 DEF EndDispatch, Framed, TypeOK, fleetVars, Dispatch
<1>6. o \notin irregular =>
        /\ DispatchFits(row, g, trip)
        /\ \A v \in Vehicles : vehicle'[v].order = o => VehicleFits(v, row, g)
  BY <1>1, <1>3, <1>4, <1>5 DEF DispatchFits, VehicleFits
<1>7. \A d : ~DriverFits(d, order[o], f)
  BY <1>1 DEF DriverFits
<1>8. Leaves(w, o, g, row, trip)
  BY <1>1, <1>2, <1>3, <1>5, <1>6, <1>7 DEF Leaves
<1> QED BY <1>8, <1>1, FleetStep

\* planAndDispatch sends the order, its driver and its vehicle out at once.
LEMMA FleetPlan ==
    ASSUME Framed, Staged, FleetOut, NEW w \in Requests, PlanTx(w)
    PROVE  FleetOut'
<1> USE HubOrdersAssumption
<1> SUFFICES ASSUME NEW f, f = request[w], NEW o, o = f.order, NEW g, g = Rest(f),
                    NEW row, row = order'[o], NEW trip, trip = dispatch'[o]
             PROVE  FleetOut'
  OBVIOUS
<1>1. f \in Frame /\ Sound(f) /\ f.at = "planTx" /\ o \in Orders
  BY DEF Framed, TypeOK, PlanTx, At, Frame, Sound
<1>2. irregular' = irregular /\ request' = [request EXCEPT ![w] = g]
  BY DEF PlanTx, History, Continue
<1>3. g.order = None /\ g.at = "idle"
  BY <1>1, RestAt, AfterIs DEF Idle
<1>4. ASSUME o \notin irregular
      PROVE  /\ DispatchFits(order[o], f, dispatch[o])
             /\ \A v \in Vehicles : vehicle[v].order = o => VehicleFits(v, order[o], f)
             /\ InStage(f) /\ Carries(f)
  BY <1>1, <1>4, FleetSoFar DEF Staged
<1>5. /\ \A p \in Orders \ {o} : order'[p] = order[p] /\ dispatch'[p] = dispatch[p]
      /\ row.status = "OUT_FOR_DELIVERY" /\ row.driver = f.driver /\ row.vehicle = f.vehicle
  BY <1>1 DEF PlanTx, Framed, TypeOK, Order
<1>6. /\ o \notin irregular =>
           /\ DispatchFits(row, g, trip)
           /\ \A v \in Vehicles : vehicle'[v].order = o => VehicleFits(v, row, g)
      /\ \A v \in Vehicles : vehicle'[v].order \in {vehicle[v].order, None, o}
  <2>1. SetVehicle(f.vehicle, "OUT_FOR_DELIVERY", o)
    BY DEF PlanTx
  <2>2. \A v \in Vehicles : \/ v = f.vehicle /\ vehicle'[v].order = o
                            \/ v # f.vehicle /\ vehicle'[v] = vehicle[v]
    BY <2>1 DEF SetVehicle, Framed, TypeOK
  <2>3. DispatchFits(row, g, trip)
    BY <1>3, <1>5 DEF DispatchFits
  <2>4. o \notin irregular => \A v \in Vehicles : vehicle[v].order # o
    BY <1>1, <1>4 DEF VehicleFits, InStage, Closed
  <2>5. o \notin irregular => \A v \in Vehicles : vehicle'[v].order = o => VehicleFits(v, row, g)
    BY <1>3, <1>5, <2>2, <2>4 DEF VehicleFits
  <2> QED BY <2>2, <2>3, <2>5
<1>7. ASSUME irregular = {}, NEW d \in Drivers, availability'[d] = "ON_DELIVERY"
      PROVE  \/ DriverFits(d, row, g)
             \/ availability[d] = "ON_DELIVERY" /\ ~DriverFits(d, order[o], f)
  <2>1. SetDriver(f.driver, "ON_DELIVERY")
    BY DEF PlanTx
  <2>2. d = f.driver \/ availability'[d] = availability[d]
    BY <2>1 DEF SetDriver, Framed, TypeOK
  <2>3. order[o].driver \in {None, f.driver}
    BY <1>1, <1>4, <1>7 DEF Carries
  <2> QED BY <1>3, <1>5, <1>7, <2>2, <2>3 DEF DriverFits
<1>8. Leaves(w, o, g, row, trip)
  BY <1>1, <1>2, <1>3, <1>5, <1>6, <1>7 DEF Leaves
<1> QED BY <1>8, <1>1, FleetStep

\* A call that opens a frame sends nobody out and frees nobody.
LEMMA FleetCall ==
    ASSUME Framed, FleetOut, NEW w \in Requests, NEW g, request[w] = Idle,
           g.at \notin {"takeVehicle", "OUT_FOR_DELIVERY", "freeVehicle", "endDispatch", "DELIVERED"},
           request' = [request EXCEPT ![w] = g], irregular \subseteq irregular',
           UNCHANGED <<order, dispatch, fleetVars>>
    PROVE  FleetOut'
<1> DEFINE Telling == {"takeVehicle", "OUT_FOR_DELIVERY", "freeVehicle", "endDispatch", "DELIVERED"}
<1>1. request'[w] = g /\ request[w].at = "idle" /\ \A u \in Requests \ {w} : request'[u] = request[u]
  BY DEF Framed, TypeOK, Idle
<1>2. ASSUME NEW p, NEW S, S \subseteq Telling
      PROVE  AtWork(p, S)' <=> AtWork(p, S)
  BY <1>1, <1>2 DEF AtWork
<1>3. UNCHANGED <<order, dispatch, availability, vehicle>>
  BY DEF fleetVars
<1> HIDE DEF Telling
<1>4. /\ {"DELIVERED"} \subseteq Telling /\ {"endDispatch", "DELIVERED"} \subseteq Telling
      /\ {"OUT_FOR_DELIVERY"} \subseteq Telling
      /\ {"freeVehicle", "endDispatch", "DELIVERED"} \subseteq Telling
      /\ {"takeVehicle", "OUT_FOR_DELIVERY"} \subseteq Telling
  BY DEF Telling
<1>5. \A p : /\ AtWork(p, {"DELIVERED"})' <=> AtWork(p, {"DELIVERED"})
             /\ AtWork(p, {"endDispatch", "DELIVERED"})' <=> AtWork(p, {"endDispatch", "DELIVERED"})
             /\ AtWork(p, {"OUT_FOR_DELIVERY"})' <=> AtWork(p, {"OUT_FOR_DELIVERY"})
             /\ AtWork(p, {"freeVehicle", "endDispatch", "DELIVERED"})'
                    <=> AtWork(p, {"freeVehicle", "endDispatch", "DELIVERED"})
             /\ AtWork(p, {"takeVehicle", "OUT_FOR_DELIVERY"})'
                    <=> AtWork(p, {"takeVehicle", "OUT_FOR_DELIVERY"})
  BY <1>2, <1>4
<1>6. DispatchEnds'
  BY <1>3, <1>5 DEF FleetOut, DispatchEnds
<1>7. VehicleOut'
  BY <1>3, <1>5 DEF FleetOut, VehicleOut
<1>8. DriverOut'
  <2>1. \A d, p : Errand(d, p)' <=> Errand(d, p)
    BY <1>3, <1>5 DEF Errand
  <2>2. irregular' = {} => irregular = {}
    OBVIOUS
  <2> QED BY <1>3, <2>1, <2>2 DEF FleetOut, DriverOut
<1> QED BY <1>6, <1>7, <1>8 DEF FleetOut

\* A call of one statement writes an irregular order, or a vehicle that stands still.
LEMMA FleetDirect ==
    ASSUME Framed, FleetOut, NEW o \in Orders, NEW d, NEW v, NEW s,
           \/ AssignVehicle(o, v)
           \/ DraftDispatch(o, d, v) \/ UpdateDispatch(o, d, v)
           \/ AdminAssignDriver(o, d, v) \/ WriteStatus(o, s)
    PROVE  FleetOut'
<1>1. UNCHANGED <<request, availability, vehicle>>
  BY DEF AssignVehicle, DraftDispatch, UpdateDispatch, AdminAssignDriver, WriteStatus, fleetVars
<1>2. \A p \in Orders \ {o} : order'[p] = order[p] /\ dispatch'[p] = dispatch[p]
  BY DEF AssignVehicle, DraftDispatch, UpdateDispatch, AdminAssignDriver, WriteStatus,
         Framed, TypeOK
<1>3. irregular \subseteq irregular'
  BY DEF AssignVehicle, DraftDispatch, UpdateDispatch, AdminAssignDriver, WriteStatus, Call
<1>4. o \notin irregular' =>
        /\ ~Busy(o) /\ order[o].status \notin Closed \cup {"OUT_FOR_DELIVERY"}
        /\ order'[o].status = order[o].status /\ order'[o].driver = order[o].driver
        /\ dispatch'[o] = dispatch[o]
  BY DEF AssignVehicle, DraftDispatch, UpdateDispatch, AdminAssignDriver, WriteStatus, Call,
         Framed, TypeOK, Order
<1>5. \A p, S : AtWork(p, S)' <=> AtWork(p, S)
  BY <1>1 DEF AtWork
<1>6. DispatchEnds'
  <2> SUFFICES ASSUME NEW p \in Orders \ irregular',
                      order'[p].status = "DELIVERED" \/ AtWork(p, {"DELIVERED"})'
               PROVE  dispatch'[p].status \in {"none", "COMPLETED"}
    BY DEF DispatchEnds
  <2>1. order'[p].status = order[p].status /\ dispatch'[p] = dispatch[p]
    BY <1>2, <1>4
  <2> QED BY <1>3, <1>5, <2>1 DEF FleetOut, DispatchEnds
<1>7. VehicleOut'
  <2> SUFFICES ASSUME NEW p \in Orders \ irregular', NEW u \in Vehicles, vehicle'[u].order = p
               PROVE  /\ u = order'[p].vehicle
                      /\ \/ order'[p].status \in {"OUT_FOR_DELIVERY", "CANCELLED"}
                            /\ ~AtWork(p, {"endDispatch", "DELIVERED"})'
                         \/ AtWork(p, {"OUT_FOR_DELIVERY"})'
    BY DEF VehicleOut
  <2>1. /\ u = order[p].vehicle
        /\ \/ order[p].status \in {"OUT_FOR_DELIVERY", "CANCELLED"}
              /\ ~AtWork(p, {"endDispatch", "DELIVERED"})
           \/ AtWork(p, {"OUT_FOR_DELIVERY"})
    BY <1>1, <1>3 DEF FleetOut, VehicleOut
  <2>2. p # o
    BY <1>4, <2>1 DEF Closed, AtWork, Busy
  <2> QED BY <1>2, <1>5, <2>1, <2>2
<1>8. DriverOut'
  <2> SUFFICES ASSUME irregular' = {}, NEW e \in Drivers, availability'[e] = "ON_DELIVERY"
               PROVE  \E p \in Orders : Errand(e, p)'
    BY DEF DriverOut
  <2>1. PICK p \in Orders : Errand(e, p)
    BY <1>1, <1>3 DEF FleetOut, DriverOut
  <2>2. order'[p].status = order[p].status /\ order'[p].driver = order[p].driver
    BY <1>2, <1>4
  <2>3. Errand(e, p)'
    BY <1>5, <2>1, <2>2 DEF Errand
  <2> QED BY <2>3
<1> QED BY <1>6, <1>7, <1>8 DEF FleetOut

(* Every step keeps the fourth layer. *)
LEMMA FleetNext ==
    ASSUME Framed, Staged, FleetOut, [Next]_vars
    PROVE  FleetOut'
<1> USE HubOrdersAssumption
<1>1. CASE UNCHANGED vars
  BY <1>1 DEF FleetOut, DispatchEnds, VehicleOut, DriverOut, Errand, AtWork, vars, fleetVars
<1>2. ASSUME NEW w \in Requests, Step(w)
      PROVE  FleetOut'
  <2>1. CASE \E s \in Statuses : Transition(w, s)
    BY <2>1, FleetTransition
  <2>2. CASE Release(w) \/ Consume(w) \/ Reached(w) \/ GenerateOtp(w) \/ Verified(w) \/ ReachVehicle(w)
    BY <2>2, FleetQuiet
  <2>3. CASE ReadActivity(w) \/ CheckReached(w) \/ Reread(w)
    BY <2>3, FleetReads
  <2>4. CASE CancelTx(w) \/ SyncAvailability(w) \/ PlanTx(w)
    BY <2>4, FleetCancelTx, FleetSync, FleetPlan
  <2>5. CASE StartDispatch(w) \/ TakeDriver(w) \/ TakeVehicle(w)
    BY <2>5, FleetStart, FleetTakeDriver, FleetTakeVehicle
  <2>6. CASE FreeDriver(w) \/ FreeVehicle(w) \/ EndDispatch(w)
    BY <2>6, FleetFreeDriver, FleetFreeVehicle, FleetEnd
  <2> QED BY <1>2, <2>1, <2>2, <2>3, <2>4, <2>5, <2>6 DEF Step
<1>3. ASSUME NEW w \in Requests, NEW o \in Orders, Arrival(w, o)
      PROVE  FleetOut'
  <2>1. PICK op \in DOMAIN Start \ {"admin"}, d \in DriverOrNone, v \in VehicleOrNone,
             allowed \in BOOLEAN : Opens(w, o, op, d, v, allowed)
    BY <1>3, Openings
  <2>2. PICK g : g = Opened(o, op, d, v)
    OBVIOUS
  <2>3. request' = [request EXCEPT ![w] = g] /\ request[w] = Idle
        /\ UNCHANGED <<order, dispatch, fleetVars>> /\ irregular \subseteq irregular'
    BY <2>1, <2>2 DEF Opens, Begin, Opened, Call
  <2>4. g.at \notin {"takeVehicle", "OUT_FOR_DELIVERY", "freeVehicle", "endDispatch", "DELIVERED"}
    BY <2>2 DEF Opened, Start
  <2> QED BY <2>3, <2>4, FleetCall
<1>4. ASSUME NEW o \in Orders, NEW d, NEW v, NEW s,
             \/ AssignVehicle(o, v)
             \/ DraftDispatch(o, d, v) \/ UpdateDispatch(o, d, v)
             \/ AdminAssignDriver(o, d, v) \/ WriteStatus(o, s)
      PROVE  FleetOut'
  BY <1>4, FleetDirect
<1>5. ASSUME NEW w \in Requests, NEW o \in Orders, NEW s \in Statuses, AdminUpdateStatus(w, o, s)
      PROVE  FleetOut'
  <2>1. PICK g : g = [order |-> o, at |-> "admin", driver |-> None, vehicle |-> None, next |-> s]
    OBVIOUS
  <2>2. request' = [request EXCEPT ![w] = g] /\ request[w] = Idle /\ g.at = "admin"
        /\ UNCHANGED <<order, dispatch, fleetVars>> /\ irregular \subseteq irregular'
    BY <1>5, <2>1 DEF AdminUpdateStatus, Start, Call
  <2> QED BY <2>2, FleetCall
<1>6. ASSUME NEW w \in Requests, AdminWrites(w)
      PROVE  FleetOut'
  <2> SUFFICES ASSUME NEW f, f = request[w], NEW o, o = f.order, NEW g, g = Idle,
                      NEW row, row = order'[o], NEW trip, trip = dispatch'[o]
               PROVE  FleetOut'
    OBVIOUS
  <2>1. f \in Frame /\ Sound(f) /\ f.at = "admin" /\ o \in Orders /\ o \in irregular
    BY <1>6 DEF Framed, TypeOK, AdminWrites, At, Frame, Sound
  <2>2. /\ irregular' = irregular /\ request' = [request EXCEPT ![w] = g]
        /\ UNCHANGED <<dispatch, availability, vehicle>>
        /\ \A p \in Orders \ {o} : order'[p] = order[p]
    BY <1>6, <2>1 DEF AdminWrites, fleetVars, Framed, TypeOK
  <2>3. g.order = None /\ g.at = "idle"
    BY DEF Idle
  <2>4. Leaves(w, o, g, row, trip)
    BY <2>1, <2>2, <2>3 DEF Leaves
  <2> QED BY <2>1, <2>4, FleetStep
<1> QED BY <1>1, <1>2, <1>3, <1>4, <1>5, <1>6 DEF Next

(* The invariant holds at the start. *)
LEMMA WellRunInit ==
    ASSUME Init
    PROVE  WellRun
<1> USE HubOrdersAssumption
<1>1. Framed /\ Staged
  BY FramedInit, StagedInit
<1>2. \A o : ~Busy(o) \/ o = None
  BY DEF Init, Busy, Idle
<1>3. \A o \in Orders : \A S : ~AtWork(o, S) /\ ~Busy(o)
  BY <1>2 DEF AtWork, Busy
<1>4. SettledOnce
  BY <1>3 DEF Init, SettledOnce, Closed
<1>5. DispatchEnds /\ VehicleOut /\ DriverOut
  BY DEF Init, DispatchEnds, VehicleOut, DriverOut
<1> QED BY <1>1, <1>4, <1>5 DEF WellRun

(* Every step keeps it. *)
LEMMA WellRunNext ==
    ASSUME WellRun, [Next]_vars
    PROVE  WellRun'
<1>1. Framed /\ Staged /\ SettledOnce /\ FleetOut
  BY DEF WellRun, FleetOut
<1>2. Framed' /\ Staged' /\ SettledOnce' /\ FleetOut'
  BY <1>1, FramedNext, StagedNext, SettledNext, FleetNext
<1> QED BY <1>2 DEF WellRun, FleetOut

(* Between any two statements of any requests the hub is well run: what a    *)
(* handler of hub-orders.service.ts checked still holds of an order that was *)
(* handled regularly when its next statement is executed.                    *)
THEOREM WellRunInvariant == Spec => []WellRun
<1>1. Init => WellRun
  BY WellRunInit
<1>2. WellRun /\ [Next]_vars => WellRun'
  BY WellRunNext
<1> QED BY <1>1, <1>2, PTL DEF Spec

(* The stock columns account for every unit: releaseReservedStock and        *)
(* consumeReservedStock never take what is not there, and while all orders   *)
(* are handled regularly each order's material is settled exactly once, and  *)
(* has been by the time its request ends.                                    *)
THEOREM StockAccounted == Spec => []StockFollowsOrders
<1>1. WellRun => StockFollowsOrders
  <2> SUFFICES ASSUME WellRun
               PROVE  StockFollowsOrders
    OBVIOUS
  <2>1. TypeOK /\ Accounted /\ Framed /\ Staged /\ SettledOnce
    BY DEF WellRun, Framed
  <2>2. irregular = {} => \A o \in Orders : settled[o] \in 0..1
    BY <2>1, SettledSoFar
  <2>3. irregular = {} => \A o \in Orders :
          ~Busy(o) => (settled[o] = 1 <=> order[o].status \in Closed)
    BY <2>1 DEF SettledOnce
  <2>4. irregular = {} => \A o \in Orders :
          /\ settled[o] <= 1
          /\ ~Busy(o) => (settled[o] = 1 <=> order[o].status \in Closed)
    BY <2>2, <2>3
  <2> QED BY <2>1, <2>4 DEF StockFollowsOrders, Accounted
<1> QED BY <1>1, WellRunInvariant, PTL

(* planAndDispatch, dispatch and finalizeDelivery between them leave nobody  *)
(* out for nothing: what has been delivered is freed, and while all orders   *)
(* are handled regularly a vehicle that is out, or a driver ON_DELIVERY, has *)
(* an order that is the reason.                                              *)
THEOREM NobodyOutForNothing == Spec => []OutForAReason
<1>1. WellRun => OutForAReason
  <2> SUFFICES ASSUME WellRun
               PROVE  OutForAReason
    OBVIOUS
  <2>1. TypeOK /\ DispatchEnds /\ VehicleOut /\ DriverOut
    BY DEF WellRun, Framed
  <2>2. FreedWhenDelivered
    BY <2>1 DEF FreedWhenDelivered, DispatchEnds, VehicleOut, AtWork, Busy
  <2>3. ASSUME irregular = {}, NEW d \in Drivers, availability[d] = "ON_DELIVERY",
               \A w \in Requests : request[w] = Idle
        PROVE  Active(d, {"OUT_FOR_DELIVERY", "DRIVER_ASSIGNED", "CANCELLED"})
    <3>1. PICK o \in Orders : Errand(d, o)
      BY <2>1, <2>3 DEF DriverOut
    <3>2. ~AtWork(o, {"takeVehicle", "OUT_FOR_DELIVERY"})
      BY <2>3 DEF AtWork, Idle
    <3> QED BY <3>1, <3>2 DEF Errand, Active
  <2>4. ASSUME irregular = {}, NEW v \in Vehicles, vehicle[v].order # None,
               \A w \in Requests : request[w] = Idle
        PROVE  order[vehicle[v].order].status \in {"OUT_FOR_DELIVERY", "CANCELLED"}
    <3>1. vehicle[v].order \in Orders
      BY <2>1, <2>4 DEF TypeOK, Vehicle
    <3>2. ~AtWork(vehicle[v].order, {"OUT_FOR_DELIVERY"})
      BY <2>4 DEF AtWork, Idle
    <3> QED BY <2>1, <2>4, <3>1, <3>2 DEF VehicleOut
  <2> QED BY <2>2, <2>3, <2>4 DEF OutForAReason
<1> QED BY <1>1, WellRunInvariant, PTL
====
