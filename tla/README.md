# Verification project for Vikram-Backend

TLA+ models of the payment, order, delivery, loyalty, hub, stock, requisition,
bulk-enquiry, push-campaign, cart and support code of the Bajriwala e-commerce
backend (NestJS, Prisma on PostgreSQL, Redis, Socket.IO, Razorpay), the TLC runs
that check them and the TLAPS proofs about them. `m/` abbreviates `src/modules/`
of the repository; line numbers are of `m/payments/payments.service.ts` or
`m/orders/orders.service.ts` unless a file is named. PROJECT.json holds the same
inventory in machine-readable form, the map from definitions to source lines, the
hazards and the mutants.

    tlc -workers 2 -config Placement_stock.cfg MC_OrderPlacement.tla
    tlapm OrderPlacementProofs.tla

## 1. The system

Every HTTP request, webhook and timer tick is an async function on a Node event
loop, and several processes may run. Between two `await`s of one of them any other
may run. All shared state is in PostgreSQL under READ COMMITTED, so that what is
atomic is one Prisma statement, or a `$transaction` as far as the rows it locks go.
That is the unit of a step in the models: **one step per awaited statement,
transaction or external call**, and what a request has read is kept in a *frame* of
its own (`request[w]`), which goes stale as the program's local variables do.

### 1.1 Components, state, operations

| Component | State | Operations that change it | Made hard by | Correct when |
|---|---|---|---|---|
| Online payments `m/payments` | `Payment`, `PaymentWebhookEvent`, the order's `orderStatus` and `paymentStatus` | createCheckout, verifyCheckoutPayment, handleWebhook, getStatus, cancelCheckout, reconcile timer | ten handlers race on one order; Razorpay answers late, twice or never; rows are updated from stale reads | paid only with matching money; decided once and at last; never revived; refunds flagged when due |
| Orders `m/orders` | `Order`, `OrderItem`, timeline, `OrderNumberSequence` | placeOrder, confirmPaidOrder, releaseUnpaidOnlineOrder, cancel | one transaction over ten tables, checks before and compensations after it | no overselling, one order per key, everything returned once |
| Delivery benefit `m/delivery` | `CustomerDeliveryBenefit`, `DeliveryBenefitUsage` | consume, restore | restore is three statements outside a transaction | counter equals the orders that hold a free delivery |
| Delivery slots `m/delivery` | `DeliverySlot.reservedCapacity`, `DeliverySlotReservation` | hold, confirm, release, expire, reschedule | counter and rows are kept in step by hand; time | counter equals live reservations; never above capacity |
| Loyalty `m/loyalty` | `LoyaltyAccount`, `LoyaltyTransaction` with lots | earn, redeem, refund, reverse, adjust, expire | balance, lots and ledger are three views of one sum | balance = sum of lots = sum of the ledger; one entry per reference |
| Hub orders `hub/orders` | `Order.orderStatus`, `HubInventory.reservedQty`, OTP, driver | accept, reject, picking ... completeDelivery, cancel | status is read, checked and overwritten later; stock moves by separate statements | status follows the table; stock leaves once |
| Hub inventory `hub/inventory` | `HubInventory` | receive, adjust, transfer | absolute writes race placements | no lost update |
| Requisitions `m/requisitions` | `Requisition`, both hubs' inventory | submit, approve, allocate, dispatch, receive | status checked outside the transaction | stock is conserved between the hubs |
| Drivers, vehicles `m/drivers`, `m/vehicles` | availability, status | assign, sync from orders | follows orders by recomputation | available iff no open order |
| Push campaigns `m/push` | `PushCampaign`, deliveries | claim, send, finish | claim may repeat while sending | one delivery per device |
| Delivery pricing `m/delivery/delivery-pricing.service.ts` | `DeliveryPricingRule`, `DeliveryPricingHistory` | create, update, delete rules; price of a distance | check, write and history are separate statements | slabs nest; each has the price last asked for |
| Delivery engine `m/delivery/engine` | `DeliveryVehicleConfig`, settings | load of a cart, selection of a vehicle, edits | dimensions that are missing on either side; selected twice per checkout | the vehicle carries the load; price and arrival are of one vehicle |
| Delivery windows `m/delivery/delivery-slot.logic.ts` | operating hours, a copy per process | windows offered, found again, validated; edits | time passes, hours change, two definitions of a boundary | what was offered is accepted, or refused for a reason |
| Bulk enquiries `m/bulk`, `admin/bulk` | `BulkEnquiry`, `BulkQuotation` | submit, assign, quote, cancel, reject, convert | status and order are checked outside the transaction | one order per enquiry |
| Cart `m/cart` | `CartItem`, a copy per process (`common/cache`) | add, update, remove, clear, read; checkout and order | look up, write and clear the copy are separate statements; no unique line | what was put in is in the cart, taken out or ordered; a write is seen by its answer |
| Support `m/support`, `admin/support` | `SupportTicket` with two counters, `SupportMessage` | message, note, mark read, assign, status, reopen | status decided on an earlier read; counter reset apart from the rows | counters count the newest unread messages; times fit the status; closed stays closed |
| Authentication `src/auth` | OTP records, refresh tokens | send, verify, rotate, revoke | check and count in separate statements | a code or token is used once |
| Background jobs `m/scheduler` | expiry of points and memberships, reports | cron jobs over BullMQ | disabled by `REDIS_BULLMQ_ENABLED = false` | - |

The checkout's arithmetic, invoices, memberships and offers,
content, catalogue, search, the administration and the hub's reading
screens make up the rest (PROJECT.json lists each with the reason it is not
modelled): per-customer data, sequential calculations, reports and I/O.

### 1.2 How the components interact

* `placeOrder` reads cart, prices, benefit, slots and hub stock through
  `CheckoutService`, then writes all of them in one transaction. A cash order first
  *calls* `releaseUnpaidOnlineOrder` for the customer's open online orders.
* Payments never write stock or points: they call `confirmPaidOrder` and
  `releaseUnpaidOnlineOrder`, and share the order's two status columns with them.
* release and cancel call the slots inside their transaction, and loyalty and the
  delivery benefit **after** it has committed.
* Hub, administration and customer write `Order.orderStatus` side by side.
* Placements, hub screens and requisitions write the same `HubInventory` rows.
* Events (Socket.IO, push) are emitted after the commit and decide nothing.

## 2. The modules

| Module | Models |
|---|---|
| `GatewayStatus` | the status sets and the transition table of a payment row, the priority of Razorpay's statuses (`razorpay.crypto.ts`) |
| `AttemptChoice` | the loop of `pickAuthoritativePayment` against its reference definition `Authoritative` |
| `PaymentPromise` | abstract specification: what a customer is promised about an online order |
| `OnlinePayment` | one order that is paid online and all handlers that race for it |
| `OnlinePaymentProofs` | its inductive invariant, safety theorems, the refinement of `PaymentPromise`, and the theorem about `AttemptChoice` |
| `OrderPlacement` | several customers placing, releasing and cancelling orders at one hub |
| `OrderPlacementProofs` | its inductive invariants and safety theorems |
| `SumLaws` | lemmas for the proofs: induction over finite sets and numbers, sums over sets of rows |
| `AccountBook` | abstract specification: what a points account promises |
| `LoyaltyLedger` | one customer's points account, its ledger and lots, and all that book on it |
| `LoyaltyLedgerProofs` | its inductive invariant, safety theorems and the refinement of `AccountBook` |
| `DeliverySlots` | places held, confirmed, expired and released in delivery slots, and rescheduling |
| `DeliverySlotsProofs` | its inductive invariant and safety theorems |
| `Requisitions` | requisitions from a hub to the warehouse, with the stock of both |
| `HubInventory` | every other writer of a hub's stock columns |
| `RequisitionsProofs` | the inductive invariants of both parts of `MC_Requisitions` and their safety theorems |
| `HubOrders` | orders at a hub with their stock, delivery code, driver, vehicle and dispatch |
| `HubOrdersProofs` | its inductive invariant and safety theorems |
| `PushCampaign` | a push campaign, the queues and workers of several processes, FCM |
| `DeliveryPricing` | the slabs of one price list under concurrent edits, and the price of a distance |
| `VehicleSelection` | the load of a cart and the vehicle chosen for it, for the price and for the arrival |
| `DeliveryWindows` | operating hours, the windows cut from them, offer, and validation at placing |
| `BulkEnquiries` | a bulk enquiry, its quotations and its conversion into an order |
| `CartLines` | one customer's cart, its cached copies, and the order that empties it |
| `SupportTickets` | one support ticket, its messages and counters of unread ones |
| `DeliveryPartsProofs` | inductive invariants and safety theorems of the seven modules `BulkEnquiries`, `SupportTickets`, `DeliveryPricing`, `CartLines`, `PushCampaign`, `VehicleSelection`, `DeliveryWindows` |
| `MC_...` | constants for TLC; `MC_PaymentAttempts`, `MC_Requisitions` and `MC_DeliverySlots` put several instances in one run |

`LoyaltyLedger` implements `AccountBook` and `OnlinePayment` implements
`PaymentPromise` (`INSTANCE` with a refinement mapping). The other modules stand
beside each other: where one component calls another, the caller's module has the
call as an action or leaves it out, as listed below, and the callee's module has all
callers.

### 2.1 OnlinePayment

State: `orderStatus` and `paymentStatus` are the order's columns; `status`,
`providerPaymentId`, `refundRequired` are the `Payment` rows (one per Razorpay order;
a row not yet created is `"NONE"`); `event` the webhook rows by dedupe key; `attempt`
what Razorpay knows of each payment; `expired` whether the payment window has passed;
`returned` what the statements after a cancellation have given back.

Actions follow the code statement by statement. `verifyCheckoutPayment` is
`VerifyBegin`, `RecordPayment`, `MarkPending`, `FetchPayment`, and then the shared
tail: `ReadMismatch`/`MarkMismatch` (assertRemoteMatches), `Apply`, `Ensure`,
`Capture`, `MarkCaptured` (ensureCaptured), `ConfirmPayment`, `ConfirmOrder`,
`ConfirmTx`, `FlagRefund`, or `MarkFailed`, `FailOrder`. A webhook runs
`Webhook`, `CreateEvent`, `ProcessEvent` and the same tail, then `EventProcessed` or
`EventFailed`. The timer, the status poll and three other handlers run
`SyncRead`, `SyncNext` per row, `SyncDecide`, `ReleaseTx`, `ReturnPoints`,
`ReturnBenefit`. `Transition` is transitionPayment: it consults the table for the
status the *caller* has read and then writes by id. `GatewayFails` is a call that
fails, `Capture` includes the captured payment whose answer is lost, and `Crash` a
server that dies between any two steps. Customers and Razorpay are the environment.

Abstracted: amounts (`Mismatched` holds the attempts of a wrong amount, currency or
order), signatures (a callback is good or rejected), stock and slots (in
`OrderPlacement`), notifications and caches.

### 2.2 OrderPlacement

State: `availableQty`, `reservedQty` (HubInventory of one hub), `stock`, `inStock`
(one variant per product), `orderStatus`, `hubAssigned`, `cartFull`, the benefit's
`usedCount` and `usage`, and `lockedBy`: the transaction that holds the row of
`orderNumberSequence`.

`placeOrder` is `PlaceOrder` (lookup by key, list of orders to release), `ReleaseTx`
... `ReleasesDone`, `Prepare` (checkout and routing read without locks), then the
transaction: `NextOrderNumber`, `TakeStock` per item, `TakeVariant` per item,
`Commit` or `Abort`. Inside the transaction reads see the last committed tables; the
writes are kept in the frame and applied by `Commit`. This is exact as long as no
other transaction waits for one of its row locks with a stale value in hand: placements
are kept apart by `lockedBy`, and releases and cancellations update stock with
relative, guarded statements, which commute with a placement's decrement.
`ReleaseTx` and `CancelTx` are one step each: `ReleaseTx` runs under the lock of the
order row it updates first, `CancelTx` has no condition of its own.
`FindUsage`, `DeleteUsage`, `RestoreCount` are the three unprotected statements of
`restoreFreeBikeDelivery`. `ConfirmPaidOrder` is what `OnlinePayment` models in full.

The central observation: placeOrder checks stock with a plain `findUnique`, decrements
it blindly and writes variants as absolute numbers. Nothing in those lines protects
them; what does is that `nextOrderNumber` updates one row per year *first*. The
mutant of `NextOrderNumber` (a number drawn from a sequence, which locks nothing)
oversells within a few steps, and the proofs rest on `OneAtATime`. Not modelled: the turn of the
year, when two placements may lock different rows.

Variants are not given back when an order is cancelled; `VariantsAddUp` states what
the code does (stock = beginning - every order ever placed).

### 2.3 LoyaltyLedger and AccountBook

State: the columns of `LoyaltyAccount` (`availablePoints`, `currentPoints`,
`redeemedPoints`); `ledger`, the rows of `LoyaltyTransaction` in the order they were
booked, each with its reference, opening and closing balance and, if it was a credit,
what `remaining` of it as a lot; `lapsed`, how many of the oldest lots have run out.

`recordEntryInTx` is `LockAccount` (SELECT ... FOR UPDATE), `WriteEntry` (balance,
lots, ledger row and columns, committed together) or `Abort` (reference known, balance
too small). The callers are actions that end in it: `PlaceOrder` and `RedeemForOrder`
with the balance read at checkout, `EarnForDeliveredOrder`, `Cancel` followed by
`RefundRedemption` and `ReverseEarnedPoints`, `CreditWelcomeBonus` and the
administrator's `AdjustPoints`, `RewardPoints`, `RedeemPoints`. `Crash` ends a request
anywhere. `AccountBook` is what remains when lots and columns are hidden: a balance,
never negative, and a list of references, none twice.

### 2.4 DeliverySlots

State: `reservedCapacity` per slot, `rows` (`DeliverySlotReservation`; the timer of a
row is `running`, `out` or `null`), the order's status, `scheduledSlot` and
`proposedSlot`, and `lockedBy`, the open transaction that has updated a slot's row.

`expireStaleReservations` is `Mark`, `Decrement`, `Clamp`, and precedes `holdSlot`
(`FindOwnHold`, `ExtendHold`, `TakePlace`, `CreateHold`) and `confirmReservation`
(`FindHold`, `CommitOrder`) as in the code. In a transaction its writes become visible
at `CommitOrder`. `CancelByCustomer` releases inside its transaction, `CancelByHub`
after it (`FindPlace`), `RejectByHub` not at all. `RequestReschedule`, `WriteProposal`,
`AcceptReschedule` and `DeclineReschedule` are `delivery-schedule.service.ts`.
`slips` counts, per slot, the writes that went by id over a row that had changed since
it was read; the properties of the counter are stated up to them. Placements wait for
each other (`PlaceScheduled` starts when no other is at work), because each has the row
of the order number before it comes to the slots; acceptances of a reschedule do not.

### 2.5 Requisitions and HubInventory

`Requisitions`: `status` and the one line (`item`: requested, approved, allocated,
dispatched, received, with an edition that `update` raises) of each requisition, the
warehouse's `availableQty` and `reservedQty`, the hub's `hubQty` and the sums of the
stock ledger. Each handler is an arrival that reads and decides (`Arrival`, the status
checks of the code) and a `Commit` that writes; `receive`, which locks its row first,
is one step. `overtaken` marks requisitions over whose later state a handler has
written, `unreserved` those that were dispatched without an allocated quantity.

`HubInventory`: the two columns of one product at several hubs. Increments and
decrements are one step (`Receive`, `ReturnStock`, `ConsumeReservedStock`, ...);
writers that compute from a read are two (`AdjustRead`/`Adjust`,
`AdjustInventoryRead`/`AdjustInventory`, `TransferRead`/`Transfer`,
`TakeStockRead`/`TakeStock`). `inFlow` keeps the books beside them and is given up
(`None`) once a stale number has been written; `raced` is the set of hubs that were
taken from after their check had become stale. Its assumptions are the operator
`ConstantsFit`, which `MC_Requisitions` assumes of the instance it checks; the constants of
that instance are its own, which the theorems leave open.

### 2.6 HubOrders

State: `order` (status, driver, vehicle, delivery code), `dispatch`, `availability` of
drivers, `vehicle`, the two stock columns. A handler is an `Arrival`, which reads and
checks, and leaves in its frame `at`, the statement it executes next; `Step` executes
it and goes on to `After(f)`, the statement that follows it in that handler (`Start`
gives each handler's first). So the order of the code's awaits is the order of `After`,
and any two handlers interleave at each of them. `planAndDispatch` and the
customer's cancellation write in one transaction and are one step. The administrator's
screens (`AdminUpdateStatus`, `AdminAssignDriver`, `WriteStatus` of the emergency and
bulk services, `AssignVehicle`, `DraftDispatch`, `UpdateDispatch`) write what they are
told. A call that the regular course of an order does not contain (a second cancel, a
status written by hand, a dispatch edited on the road) is counted in `irregular`. So is
a plan that gives an order which has a driver already another one: the code replaces the
driver and leaves the first ON_DELIVERY.

Left out: loading records and the loader, which no handler reads; a driver's own
vehicle; what a cancellation or delivery does to points, benefits and slots; statuses
that no code reaches any more.

### 2.7 PushCampaign

State: the campaign's `status`, whether it is `due`, `delivery` per device, `inbox` per
customer, and per process the in-memory queue (`enqueued`) and its worker's frame. The
administrator's requests read (`SendDraftRead`, `CancelRead`) and write (`SendDraft`,
`Cancel`). `ProcessDueScheduled` is the scheduler; `Claim`, `ResolveRecipients`,
`CreateInboxRows`, `FindTokens`, `CreateDeliveries`, `FindPending`, `SendChunk`,
`DeactivateTokens`, `RecordResult`, `Finish` the worker, statement by statement.
`SendFails` is a call of FCM that throws with any part of its batch delivered, `Throw`
any other statement that fails, `Restart` a process that comes back with an empty
queue. `excuses` counts the pushes nobody wrote down, `overlapped` says that two
workers were at the campaign at once.

### 2.8 DeliveryPricing, VehicleSelection, DeliveryWindows

`DeliveryPricing`: an edit is `CreateRule` or `ReadRule`, then `AssertNoCrossingOverlap`,
`WriteRule`, `WriteHistory`, with `Restart` between any two. `ResolveListPrice` is the
set of rules that `resolveListPrice` may take for a distance: of those that cover it the
ones that end first. `wrote` notes for each rule when it was written and what its check
had seen, `asked` the price somebody last asked for, `raced` the rules that were written
over a version nobody had read.

`VehicleSelection`: `AddLine` sums the cart up line by line as `calculateOrderLoadPure`
does, with the dimensions it has (`weighed`, `measured`), the vehicles all lines allow
and the kinds of material. Then two calculations, `"price"` and `"estimate"`, each read
the settings (`GetEngineConfig`) and the vehicles (`ListVehicleConfigs`) and choose:
`SelectVehicleForLoad` is the set of results, since vehicles of equal priority come in
any order. Administrators edit both tables in between. `Sound` is the reference: it is
stated about the cart's lines and never mentions the sum. A capacity of zero, which
`delivery-pricing.dto.ts` allows (`@Min(0)`), counts there as none, as it does in
`requiredVehicleCount`.

`DeliveryWindows`: `GetConfig` is the operating hours out of the process's copy or the
row, `Keeps` what it keeps, which is only what it has read (`fetched`): kept hours do not
get a new time by being used. `Windows` is the windows of all offered days, cut from the hours
in which hub and operation meet. A customer is offered them (`AskForOptions`,
`BuildOptions`), and places an order for one: `PlaceOrder` and `FindSlot` cut them again
and look for it, `ReadHours` and `Validate` are the second check of `placeOrder`.
`Tick` is time, `UpdateConfig` an administrator who clears only the copy of his process.

### 2.9 BulkEnquiries

State: the enquiry's `status` and `converted` order, `quotation` by number, `orders` in
the order they were made. The customer cancels, staff write statuses and quotations, and
`ConvertToOrderRead` and `ConvertToOrder` are the two halves of the conversion.
`NextQuotationNumber` reads the last number; what keeps two quotations from sharing one
is the unique index, at which the second `CreateQuotation` ends.

### 2.10 CartLines and SupportTickets

`CartLines`: `line` in the order of creation (quantity 0 once deleted), `cache` per
process. `addItem` is `AddItem` (stock), `FindCartLine`, `CreateLine` or `AddToLine`;
`updateItem` and `removeItem` read and write likewise; all end in `InvalidateCart` and
`getCart` (`LookUp`, `Keep`, `Answer`). `PrepareCheckout` reads past the copy, `PlaceOrder`
deletes what is there when its transaction reaches the cart; the rest of an order is in
`OrderPlacement`. `owed` keeps the books of what the customer has put in; `raced` names
the products where a write or an order met lines it had not read. The copy is that of the
memory cache (Redis is disabled); with Redis there would be one process.

`SupportTickets`: the ticket's `status`, which of its times are set, `unread` per party,
`message` (internal notes, which no counter includes, are left out). Handlers read (`SendMessageRead`, `AssignExecutiveRead`, `UpdateStatusRead`,
`ReopenRead`) and write in a transaction. `MarkRead` is the first statement of
`markMessagesRead`, `MarkMessagesRead` the second with the commit; staff run it after
every one of their requests. `stale` in a frame says that the status was written since
the frame was read, `patched` that a stale assignment put one back.

## 3. Runs

Every property of a passing run has a mutant of the code that breaks it under the
run's own configuration.

| Run | Instance | Shows |
|---|---|---|
| `Attempts` | three parts: two Razorpay orders with one payment each; two payments of one Razorpay order, the first of a wrong amount; lists of up to 4 attempts with 4 statuses and 3 time stamps | `PaidImpliesMoneyMoved`, `StatusesAgree`, `BestIsAuthoritative` |
| `OP_crashes` | timer and one request at a time out of 7 handlers, 1 row, crashes | `RefundOnlyWhenDue`, `IInv` (of the proofs), `KeepsPromise` (refinement) |
| `OP_requests` | two requests and no crash, 5 handlers, two payments, one of a wrong amount, order without hub | `CancelledIsReturned` |
| `OP_decided` | fair timer and server, 7 handlers | `Decided` |
| `OP_flag` | violation | a late capture that is flagged by nobody (finding 1) |
| `OP_doubletap` | violation | two taps, two Razorpay orders (finding 2) |
| `Placement_stock` | 3 requests, 4 orders, 2 customers, 2 products | `NotOversold`, `VariantsAddUp`, `VariantWriteIsFresh`, `KeyOrdersOnce`, `FreeDeliveriesAddUp`, `IInv` (of the proofs, types included) |
| `Placement_release` | 2 requests, 3 orders, crashes, fairness | `ReservedCoversOrders`, `PlacementsEnd` |
| `Loyalty` | 2 requests with crashes, 2 orders, 4 ledger entries | `BalanceAgrees`, `OldestFirst`, `ReturnsWhatWasTaken`, `KeepsBooks` (refinement of `AccountBook`) |
| `Slots` | nine parts: slots and reschedules; a campaign with 2 processes and 1 device; a campaign with 1 process and 2 devices; a price list; carts and vehicles; windows; a bulk enquiry; a cart; 2 requests at a support ticket | `HeldIsCounted`, `NotOverbooked`, `KeepsItsPlace`, `CancelledGivesBack`, `ScheduleIsFinal`; `EachDeviceOnce`, `CancelledStaysQuiet`; `PriceListHolds`; `SelectedCarries`; `OfferedIsAccepted`; `OrderedOnce`; `CartHolds`; `TicketHolds` |
| `Requisitions` | two parts: two requisitions; the stock of a hub and the warehouse | `StockIsLedgered`, `AllocatedIsReserved`, `ReceivedWasDispatched`; `StockHolds` (`StockAddsUp` and `NotOverdrawn`) |
| `HubOrders` | 2 requests, 2 orders, 1 vehicle; two parts: one driver and one irregular call, or two drivers and none | `DeliveredWithCode`, `StockFollowsOrders`, `OutForAReason` (with `FreedWhenDelivered`) |

**Parts.** A run with several parts holds independent instances: its initial predicate
chooses one, the others stay at rest. The state spaces add up and do not multiply, and
each property is about the variables of one part. In `MC_DeliverySlots` every part has
variables and constants of its own, so that theorems can be stated of each for every
value; the run has 2.2 million distinct states, all parts together. Two parts are about the campaign: `Bounded` keeps the one to `FewDevices` and the other to
`FewServers`, here one of each, since two processes with two devices exceed the time of a
run. The theorems hold for any `FewDevices` and `FewServers`, so also for all of both.
The type invariants are conjuncts: of `IInv` in payments and placement, elsewhere of
`HeldIsCounted`, `BalanceAgrees`, `StockIsLedgered`, `StockFollowsOrders` and of each
property of the parts added last.

**Bounds and why they are enough.** In the payment model the bounds are `MaxRows`,
`MaxAttempts` and the number of requests. Any conflict there is between a request that
has read and one that writes in between: one HTTP request and the timer suffice for
each, a second request only matters for what two HTTP requests do to each other
(`OP_requests`). A second attempt or row matters only for code that chooses among
them. The proofs hold without these bounds. In the placement model two
customers ask for 1 and 2 of a product with 2 in stock, so that any two placements
compete for the last; Asha's two placements share a key; her one free delivery is
wanted twice; one product's variant keeps count of its stock (3, more than the hub
has) and the other's does not, so that both tests of `KeepsCount` matter; an order may
find the hub unable to fulfil and be placed without one. Three requests let a
release or a cancellation run beside two placements. Each order is placed once;
nothing else is bounded by a guard.

In the other models two requests at once show every conflict between a read and a
write, and a third adds none: each handler writes from at most one read. The rest of
the bounds lets each conflict matter:

* `Loyalty`: one order is paid with 2 points of 3, a tap redeems 1, so that two
  redemptions compete for the last point and a redemption spans lots. `MaxEntries = 4`:
  welcome, redemption, earning or refund, and one more.
* `Slots`: one place per slot, so that every second taker competes; two slots for
  rescheduling, but pages hold places in one (`HoldSlots`), and it is to that one, where
  others compete, that the hub moves orders (`ProposedAreHeld`); two customers, one of whom
  orders; `MaxRows = 2` reservations are enough for a place to be given to another
  while the first one's owner confirms.
* `Requisitions`: 2 in stock, each requisition asks for 2, approved and allocated in
  full or by 1 less, so that lines are short of what was asked and two requisitions
  compete. `MaxOvertaken` and `MaxEdition` bound by how many writes over a later write,
  and by how many `update`s, a behaviour may go; every reading handler still meets
  every other. In the inventory part hub and warehouse have 1 each of at most 2.
* `HubOrders`: two orders compete for one vehicle and one driver. `MaxIrregular = 1` bounds
  the irregular calls of a behaviour; each kind occurs, with one driver. With two drivers
  all calls are regular, since both together exceed the time of a run; the proofs have
  neither bound. Requests, orders and drivers are alike (symmetry).
* `PushCampaign`: `FCM_MAX_ATTEMPTS = 2` (3 in the code): one retry shows what a
  device that is asked again may suffer.
* `DeliveryPricing`: two rules over distances 0 to 3 that cross (0-2, 1-3) or, after an
  update, coincide (0-2) or nest (1-2 in 0-2); `MaxWrites = 3` is two creations and an
  update, or two updates of one rule.
* `VehicleSelection`: every cart of two lines over five products: one with a weight, one
  with both dimensions and a kind, ready-mix, one without dimensions but with vehicles of
  its own, one that cannot be carried; a vehicle that is not measured, one that is not
  configured, a mixer, and a row an edit may write with a capacity of zero. All modes of
  the result occur.
* `DeliveryWindows`: days of five minutes, hours 1-5 in windows of two and 2-5 in windows
  of one with a closed day, hubs that open in the middle of a window or pass midnight,
  a lead of 2; the hours are kept for two minutes, so that a copy runs out within a
  behaviour; one edit of the hours; time goes to minute five, so that midnight passes. All four results occur.
* `CartLines`: one product, as lines of different products never meet; 1 or 2 of at most
  2, so that a sum may exceed the limit; 3 writes and 3 lines: two racing writes and one
  that finds what they left. One process, since processes share only the lines.
* `SupportTickets`: 3 messages with the description; statuses by hand are RESOLVED and
  CLOSED, the two that the code treats apart, the rest come from messages, assignments
  and reopening.
* `BulkEnquiries`: one enquiry, two quotations, two orders: the second of each is what
  can go wrong.

`CHECK_DEADLOCK FALSE` throughout: customers may stop asking, and then the system
rests. That requests do not wait for each other for ever is `Decided` and
`PlacementsEnd`.

**Fairness.** `OnlinePayment`: weak for each worker's local steps (the event loop runs a
resolved promise at last), for the timer (`setInterval`) and for the passing of the
payment window; strong for calls to Razorpay, which may fail any number of times but
are answered at last if repeated for ever. `OrderPlacement`: weak for a request's
statements, strong for `NextOrderNumber`, because PostgreSQL queues the waiters for a
row lock. The time limit on a wait for that row (`GiveUpWaiting`) has no fairness: the
row must be handed on because its holder ends, not because the waiters lose patience.
Customers, Razorpay's webhooks and crashes have no fairness. `Decided` is checked
without crashes and with one order: with more orders than `RECONCILE_BATCH_SIZE`, always
ordered by age, it would also need the oldest ones to leave the batch.

**Findings** (runs expected to fail):

1. `OP_flag`: when the release of an order commits between the read and the
   transaction of `confirmPaidOrder`, the guarded update matches no row and the method
   answers `ALREADY_CONFIRMED` (line 913) though the order is cancelled; the caller
   flags refunds only for `ORDER_CANCELLED`. The test at `payments.service.spec.ts:471`
   says "capture after the order was released is flagged for refund, not revived".
2. `OP_doubletap`: `createCheckout` looks for a reusable row (line 149), awaits
   Razorpay, then creates one, and nothing makes it unique. The test at
   `payments.service.spec.ts:493` says "double tap: the same idempotency key reuses
   the order and Razorpay order"; it taps one after the other.

**Observations.** What the models let happen and the code's comments do not always
say; the properties that hold are stated around them (`slips`, `overtaken`,
`irregular`, `raced`, `overlapped` name the behaviours they exclude, and are themselves
part of the model, set by the code's unprotected writes only).

* Slots. A hold that runs out while its order is being confirmed is expired by another
  request and confirmed over it: the place is given away and used. `RejectByHub`
  releases no place. An order that has a slot can never have a reschedule accepted:
  its first reservation keeps the unique `orderId` (`ScheduleIsFinal`) - unless a write
  went over a changed row of that slot: of one customer's two orders, one that accepts a
  reschedule and one that is placed may confirm the same hold, the later takes it over,
  and the other is then free to move. The proof does not go through without that case, and TLC finds it.
  `requestReschedule` and `declineReschedule` write the status by id and can bring a
  cancelled order back.
* Requisitions. An `update` that has read its requisition before the dispatch replaces
  the lines after it; the hub may then receive more than was dispatched. An allocation
  that names no line still sets ALLOCATED, and its dispatch takes what was reserved for
  another requisition, contrary to the comment beside the dispatch's stock update. A
  `reject` from a stale read leaves allocated stock reserved. Two allocations or two
  dispatches of one requisition may both pass their check.
* Hub inventory. `adjust` and `adjustInventory` lose what commits between their read
  and their write; `transfer` and placements may overdraw for the same reason.
* Hub orders. dispatch, cancel, reject and ready at the hub check no status; a second
  cancel releases the stock again. Cancelling an order on the road frees neither
  driver, vehicle nor dispatch. Generating the delivery code again may overwrite that
  it was verified. Two `planAndDispatch` at once may book one driver and vehicle twice,
  although each is one transaction (the comment there says it locks the resources). A plan
  for an order that has a driver replaces him and nothing sets him AVAILABLE again, which
  a run with one driver cannot show and the proof of `OutForAReason` did.
  `assignVehicle` on the road leaves the old vehicle out. An acceptance that races the
  customer's cancellation revives the order. `syncAvailabilityFromOrders` racing the
  end of a delivery leaves a driver ON_DELIVERY. The screens of administrators,
  emergencies and bulk orders write the status without stock or code.
* Loyalty. The points of a delivery that is recorded after the order's reversal stay.
* Push. A QUEUED campaign is lost on a restart (the queue is in memory and the
  scheduler looks at SCHEDULED only), and a SENDING one is not picked up again by the
  scheduler. Two processes' schedulers both enqueue a due campaign and may push twice.
  A `sendDraft` that has read DRAFT revives a campaign cancelled since; `finish`
  overwrites a cancellation; recording a result overwrites OPENED.
* Prices. `updateRule` writes every column: an update that is silent about the price puts
  back the one it read. Slabs may cross if the two were checked before either was written.
* Vehicles. A split counts trips by the dimensions the vehicle has a capacity for, and
  ignores the others. A line without weight or volume counts as nothing beside lines that
  have them. A capacity of zero is passed over like one that is not set when trips are
  counted, but no single vehicle is chosen with it: of a van with no weight capacity
  trips may be counted by volume alone. The fallback by quantity may name a vehicle that is inactive or not
  configured. With equal priorities the price and the arrival may be of two vehicles.
* Windows. Windows are cut from where hub and operation both open, and validated as if cut
  from where the operation opens: a hub that opens in the middle of a window has every
  offered window refused at placing. Hub hours that do not meet the operating hours, or
  pass midnight, are ignored. Before the hours open, a window that starts within the lead is still
  offered. Midnight between offer and order refuses a TODAY or TOMORROW choice. A process
  accepts by hours that were given up as long ago as it keeps them.
* Bulk enquiries. `convertToOrder` accepts enquiries that are cancelled or rejected, the
  staff's writes ask for no status, and two conversions that both read first make two
  orders.

* Cart. Two racing additions of a product may make two lines of it, or the later sum
  drops the other's. What is put in while an order is being placed is deleted with the
  cart and not ordered. An update of a line that is gone throws and leaves the copy as it
  is; the copies in other processes are stale until their time runs out.
* Support. A message that arrives while its reader is marking is dropped from the counter
  but stays unread. A stale assignment puts back a status without the times that belong
  to it. A reply or status change that has read the ticket before it was closed takes it
  out of CLOSED.

## 4. Proofs

All leaves are checked by TLAPS (SMT, Zenon, LS4), for every value of the constants
that satisfies the module's named assumption: `ConstantsAssumption` (payments,
placement, loyalty), `SlotsAssumption`, `RequisitionsAssumption`, `HubOrdersAssumption`,
`ListAssumption` (the list of attempts), and `ConstantsFit` of `HubInventory`, `BulkEnquiries`,
`SupportTickets`, `DeliveryPricing`, `CartLines`, `VehicleSelection` and `DeliveryWindows`, assumed of their instances. TLC evaluates each on the runs. They say what
belongs to which set and that `None` is none of it; sets that are summed over are
finite. Two theorems assume more, and say so in their statement: `ReservedIsHeld` and
`NothingIsKept`. None of the invariants below is inductive by its property alone; each
strengthening was first checked by TLC, completely or as far as some million states go.

What all have in common: a request writes from what it read before an `await`, so the
invariant must say which of it **still holds** when it writes. What guarantees this
differs from component to component, and is what the proofs are about.

| Component | What a request has read still holds because |
|---|---|
| payments | money that moved stays moved, a cancelled order stays cancelled; the rest need not hold |
| placement | one request at a time holds the row of the order number |
| loyalty | the account's row is locked from the read to the write |
| slots, requisitions, hub inventory | it need not; a write over a changed row is counted, and the property speaks of what was not hit |
| hub orders | a regular order has one request at work on it |
| bulk enquiries, price list | it need not; versions and order numbers only grow, and who wrote over which is told from them |
| tickets | what was counted while a reader marks is remembered on the message |
| cart | lines only grow; a write over another's is noted at the product |
| vehicles | it need not; the choice is judged by the rows it read, and two choices are compared when they read the same |
| windows | it need not; the hours used were in force no longer ago than they are kept, and edits only add to what was in force |
| push campaigns | a campaign is claimed by one worker at a time; when it is not, `overlapped` says so |

`OnlinePaymentProofs`: `IInv` = types, `RowsBacked` (a row in flight has matching
money at Razorpay), the safety properties, and `FrameSound` for each worker: the facts
of a frame that others cannot invalidate are two (`Forward`).
There is one lemma per handler step; `Invariance` gives `TypeCorrect`, `PaidIsBacked`,
`ColumnsAgree` and `RefundsAreDue`. `Refinement` shows that each step changes the columns
in one of four ways (`ColumnStep`), each a step of `PaymentPromise` or a stutter.
`NothingIsKept` is `CancelledIsReturned` for a server that does not die
(`~Crashes`; with crashes the code loses the points): while something is not yet
returned, a request stands at the statement that returns it (`ReturnsUnderWay`), and
all others are a `Bystander`.
`BestAttemptDecides` is about `AttemptChoice`, the loop over the attempts Razorpay lists:
for a list of any length the best one so far (`ChoiceSound`) is one that `Authoritative`
allows, and stays so when the test of the loop replaces or keeps it (`ReplacesByRank`).

`OrderPlacementProofs`: `IInv` = types, `OneAtATime` (inside the transaction iff
holding the row), `FrameSound` (stock that was checked has not shrunk, variants that
were read have not changed; outside the transaction nothing has been read yet),
`NotOversold`, `KeyOrdersOnce`. Releases and cancellations only raise `availableQty`
and leave variants alone (`Undisturbed`), a commit happens while all others are
outside (`CommitStep`). Consequences: `TypeCorrect`, `StockIsNotOversold`,
`KeysAreOnce`, and `WritesAreFresh`, that the absolute write of a variant is at commit
the same as a decrement of its current stock. The sums need `Books` = `IInv`,
`FramesFit` (no two requests place one order; a request that is at its variants has
taken the stock of all items of the order, or of none), `VariantsSound`, `BenefitSound`
(the restores under way are finitely many). From it `VariantsCount` and
`FreeDeliveriesCount`. `ReservedIsHeld` adds `HoldingSound` and assumes that
customers do not cancel: `cancel` checks the status before its transaction, and two
cancellations at once return the stock twice.

`LoyaltyLedgerProofs`: `Account` = `BalanceAgrees` and, of every request, that it
writes iff it holds the lock and what it has read is so (`FrameGood`). It gives
`BooksBalance`, `OldestLotsFirst` (by what `Consumed` takes from each lot) and
`PromiseKept`, the refinement of `AccountBook`: a step books at most one entry (`OnlyBookings`).
`Returns` follows an order's points from checkout through frames and ledger to its
cancellation, and gives `PointsComeBack`.

`DeliverySlotsProofs`: `Inv` = `FramesSound` (types; a frame's rows are in its slot;
a hold belongs to no order), `Counted`, `Scheduled`, `Returning`. `Counted` is the heart:
`reservedCapacity + slips` covers the rows that hold a place *and the debt*, the places a
request has counted and not yet created or taken off the rows and not yet off the
counter; the debt can be read off the frames (`Dues`). `Follows` is all that any step may
do to rows, and keeps the frames of the others. Requests need not be finite: only
finitely many are in debt. `HoldsAreCounted`, `SlotsAreNotOverbooked`,
`OrdersKeepTheirPlace`, `CancelledGivePlacesBack`, `SchedulesAreFinal` follow.

`RequisitionsProofs`: `StockLedgered` is inductive by itself. `ReservedForAllocated` and
`NoMoreThanDispatched` need `Orderly`: a frame that is not stale says what the row says,
in a status from which its handler may go on (`Fresh`), and a requisition no stale write
has hit agrees with its ledger (`Settled`).

The inventory part is proved in the same module: `Sound` = types, `StockHolds`, and what a
frame that is not stale knows of its hub's row (`Knows`). `StockIsConserved` follows. Both
parts speak of `PartsSpec`, the specification TLC runs, of any number of hubs, requests,
amounts and any stock to begin with.

`DeliveryPartsProofs`: seven invariants, each of which holds while its part moves.

* `BulkSound`: whatever orders the enquiry has when a request is about to convert it were
  made after that request had read it (`Unordered`), for it found none. `OneOrder` says
  the same of orders that were made. `EnquiryOrderedOnce` follows.
* `TicketSound`: the property itself, in terms of `Newest`, the newest messages of a reader,
  of which there is one more when a message is sent (`Counted`); and `KnowsTicket`: what a
  frame that is not stale knows of the status, and that whatever was sent after a reader's
  first statement, and so survives the reset of his counter, says so. `TicketCounts` follows.
* `PriceSound`: the history lists new and previous prices and may be written late or not at
  all, so it does not determine what the price was. The invariant says there *is* a table
  of the price of each rule at each version (`Tells(told)`) which rows, frames and history
  agree with; a write extends it. With `KnowsOld` (a rule that was read is the row as long
  as the version is), `OwnId` (nobody else has the id of a rule being created) and `Unseen`
  (what the check of the slabs has not seen was written after it began),
  `PriceListIsSound` follows.
* `CartSound`: `NothingIsLost` is about sums over lines of changing number and quantity;
  `Total` is that sum, and has one lemma for each kind of write. `KnowsLine`: who is about
  to create a line has seen all lines before it. `KnowsCopy` and `KeepsNewer` order copies
  by the writes they show, for the cache as for those who are about to fill it.
  `CartIsSound` follows.
* `PushSound`: unless workers overlapped, one is at work (`OneAtWork`) and has before him
  all that is PENDING (`HasAll`); a device that is not written down, in a frame or in the
  table, has been reached only as often as there are `excuses` (`PushedOnce`);
  `FrameFits` says what a frame has sent and not yet sent. In any case, a campaign that is
  `quiet` is CANCELLED, no worker is at it and no request is about to send it
  (`QuietIsCancelled`). `NoDeviceTwice` and the action property `CancelledForGood` follow.
* `VehiclesSound`: the sum so far is that of the lines so far (`LoadIs`), in every field,
  the vehicles all of them allow included; and a frame that is done has what
  `selectVehicleForLoad` makes of the rows it holds (`KnowsChoice`). That each branch of it
  is sound for a whole load (`SelectedCarry`) and that two choices over the same rows agree
  (`Agreement`) are lemmas about operators. `SelectedVehicleCarries` follows. The first
  attempt at the proof failed at `RequiredVehicleCount`, at a capacity of zero; TLC found
  the case once a row had one, and the property now says what the code does with it.
* `WindowsSound`: hours a process keeps were in force when it asked for them, and a frame's
  hours no longer than `CacheTtl` before (`KnowsHours`); a window that was found again was
  cut from the hours it was looked for in (`Had`). `IsWindow` describes a window without the sets it is
  built from, and makes an offer comparable with what is cut later. `OffersAlwaysFit` is
  about the cutting alone. `OfferedWindowsKept` follows. The proof attempt showed
  that the model let a process keep hours it had not read, which the code does not do.

`HubOrdersProofs`: `WellRun`, in layers that are proved one upon the other: `Framed`
(types, what each frame carries, `DeliveredWithCode`, `Accounted`: reserved stock is the
number of orders less those settled), `Staged` (a regular order has one request at work
and the status its next statement expects), `SettledOnce`, and `FleetOut`
(`DispatchEnds`, `VehicleOut`, `DriverOut`: what is out belongs to an order that left,
and what is delivered is freed). `FramesContinue`, `StagedStep`, `SettledStep` and
`FleetStep` carry each layer over the statements that write other orders. They give
`NotDeliveredWithoutCode`, `StockAccounted` and `NobodyOutForNothing`.

`SumLaws`: sums and cardinalities over rows. Induction is a theorem about a predicate,
which the provers cannot instantiate; stated for a *set* `G` of subsets (or of numbers)
it can be, with `G` the set of those for which the claim holds (`SubsetInduction`,
`NumberInduction`). From that: `MapThenSumSet` over a set with an element added, removed
or changed, split in two, or of constants.

**Only model-checked.** Liveness (`Decided`, `PlacementsEnd`), which the provers do not
do. Every other property of a passing run, invariant or action property or refinement, is
also stated by a theorem.

## 5. What is left

**Composition.** Placement with slots and ledger in one model, so that "everything is
returned once" covers stock, free delivery, points and place together; today each
module has the others' calls as actions of its own.

**Not modelled**, with the reason:

* The checkout's arithmetic, membership, offers and promotions: sequential calculations
  over one customer's rows. A model would restate the arithmetic; they are candidates for functions checked against a reference.
* Emergency orders and callbacks, profiles, sites, wishlist,
  reviews: single-row writes or a workflow of one actor at a time. What emergency and
  bulk screens write to orders is in `HubOrders`.
* Authentication: short handlers over one token or code row.
* Invoices: rendering is I/O; the number is drawn as the order's number is.
* Finance, reports, dashboards, customer executives, hub managers, logistics,
  catalogue, content, coverage, geocoding, search: reads, and edits of single rows.
* Payment screens of the administrator (refund, collection): single-row edits on rows
  that `OnlinePayment` regards as final.
* Background jobs: their queues are disabled (`REDIS_BULLMQ_ENABLED = false`).
* PostgreSQL, Redis, Razorpay, FCM and object storage appear only through what the
  code sees of them.

Most of the repository's lines are of these kinds, which is why the map covers a small
share of them; it covers the services in which several actors write the same rows.

Hazards without a property, each with its note in PROJECT.json: the points lost when a
server dies between a release and its compensations, rows of payments that go back in
status, a reconciling batch that is full of failing orders, the turn of the year, the
reversal that comes before the earning.
