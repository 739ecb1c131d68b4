--------------------------- MODULE OnlinePayment ---------------------------
(***************************************************************************)
(* One order that its customer pays online, and everything that races for  *)
(* it: the checkout callback (verify), Razorpay's webhooks, the status     *)
(* poll and the reconcile timer (sync), the closed checkout                *)
(* (cancelCheckout), the retried checkout (createCheckout on the same      *)
(* order), a newer checkout or a cash order that replaces it, and the      *)
(* customer's cancellation.  src/modules/payments/payments.service.ts and  *)
(* the three order operations they share with orders.service.ts.           *)
(*                                                                         *)
(* Every request keeps what it has read in a frame of its own and runs one *)
(* step per awaited statement: a query or an update that commits on its    *)
(* own, a $transaction (which updates the order row first, and so runs     *)
(* under that row's lock), or a call to Razorpay.  Requests interleave     *)
(* between any two steps.                                                  *)
(*                                                                         *)
(* Left out: the amounts (an attempt whose amount, currency or order id    *)
(* differs from the row's is in Mismatched), stock, slot, invoice,         *)
(* notifications and caches (the release and the cancellation give them    *)
(* back inside their transaction), and the hub's work on a confirmed order.*)
(***************************************************************************)
EXTENDS GatewayStatus, FiniteSets

CONSTANTS
    Requests,     \* HTTP requests that may be running at the same time
    Timer,        \* the reconcile timer, which never overlaps itself
    MaxRows,      \* bound: Payment rows (Razorpay orders) of the order
    MaxAttempts,  \* bound: payments the customer attempts at Razorpay
    RowOf,        \* the row whose Razorpay order an attempt pays
    Mismatched,   \* attempts that do not match their row
    HasHub,       \* whether a hub was assigned when the order was placed
    Handlers,     \* the handlers this instance runs
    Crashes       \* whether the server may die between two steps

Rows     == 1 .. MaxRows
Attempts == 1 .. MaxAttempts
Workers  == Requests \cup {Timer}

AllHandlers == {"verify", "badVerify", "webhook", "poll", "reconcile",
                "cancelCheckout", "createCheckout", "supersede", "payCash",
                "customerCancel"}

ASSUME ConstantsAssumption ==
    /\ MaxRows \in Nat \ {0}
    /\ MaxAttempts \in Nat \ {0}
    /\ RowOf \in [Attempts -> Rows]
    /\ Mismatched \subseteq Attempts
    /\ HasHub \in BOOLEAN
    /\ Handlers \subseteq AllHandlers
    /\ Crashes \in BOOLEAN
    /\ Timer \notin Requests

VARIABLES
    orderStatus,        \* Order.orderStatus
    paymentStatus,      \* Order.paymentStatus
    status,             \* Payment.status of each row, "NONE" before it exists
    providerPaymentId,  \* Payment.providerPaymentId, 0 when null
    refundRequired,     \* Payment.failureCode = REFUND_REQUIRED_CODE
    attempt,            \* status of each attempt at Razorpay, "none" before it
    event,              \* PaymentWebhookEvent.processingStatus per dedupe key
    expired,            \* whether expiresAt(order) has passed
    returned,           \* what the steps after a cancellation have given back
    request             \* the frame of each worker

orderVars   == <<orderStatus, paymentStatus>>
rowVars     == <<status, providerPaymentId, refundRequired>>
gatewayVars == <<attempt, expired>>
vars == <<orderVars, rowVars, gatewayVars, event, returned, request>>

-----------------------------------------------------------------------------
(* Statuses, frames. *)

NextStatus == IF HasHub THEN "HUB_ASSIGNED" ELSE "AWAITING_HUB_ALLOCATION"

OrderStatuses == {"PENDING", NextStatus, "CANCELLED"}

RowStatuses == GatewayStatuses \cup {"NONE"}

EventTypes == {"authorized", "captured", "failed"}
EventStatuses == {"none", "RECEIVED", "PROCESSED", "FAILED"}

\* Razorpay sends an event of a type once the attempt has got there.
Sent(m, type) ==
    \/ attempt[m] = type
    \/ type = "authorized" /\ attempt[m] = "captured"

NoRows == [r \in Rows |-> "NONE"]

Labels == {"idle", "recordPayment", "markPending", "fetchPayment", "mismatch",
           "markMismatch", "apply", "ensure", "capture", "markCaptured",
           "confirmPayment", "confirmOrder", "confirmTx", "flagRefund",
           "markFailed", "failOrder", "markStarted", "syncRead", "syncNext",
           "release", "returnPoints", "returnBenefit", "cancelRead",
           "cancelMark", "supersedeCheck", "createCheck", "findRow",
           "createRow", "cancelTx", "createEvent", "processEvent",
           "eventProcessed", "eventFailed"}

Ops == AllHandlers \cup {"none", "replace"}

Frame ==
    [pc     : Labels,
     op     : Ops,                                \* the handler it runs
     row    : Rows \cup {0},                      \* the Payment row at hand
     pay    : Attempts \cup {0},                  \* the attempt at hand
     seen   : AttemptStatuses \cup {"none"},      \* the attempt's status as fetched
     from   : RowStatuses,                        \* the row's status as read
     todo   : [Rows -> RowStatuses],              \* rows a sync has still to visit
     target : Rows \cup {0},                      \* the row cancelCheckout closes
     type   : EventTypes \cup {"none"}]           \* the webhook's event type

Idle == [pc |-> "idle", op |-> "none", row |-> 0, pay |-> 0, seen |-> "none",
         from |-> "NONE", todo |-> NoRows, target |-> 0, type |-> "none"]

TypeOK ==
    /\ orderStatus \in OrderStatuses
    /\ paymentStatus \in PaymentStatuses
    /\ status \in [Rows -> RowStatuses]
    /\ providerPaymentId \in [Rows -> Attempts \cup {0}]
    /\ refundRequired \in [Rows -> BOOLEAN]
    /\ attempt \in [Attempts -> AttemptStatuses \cup {"none"}]
    /\ event \in [Attempts \X EventTypes -> EventStatuses]
    /\ expired \in BOOLEAN
    /\ returned \subseteq {"points", "freeDelivery"}
    /\ request \in [Workers -> Frame]

Init ==
    /\ orderStatus = "PENDING"
    /\ paymentStatus = "PENDING"
    /\ status = NoRows
    /\ providerPaymentId = [r \in Rows |-> 0]
    /\ refundRequired = [r \in Rows |-> FALSE]
    /\ attempt = [m \in Attempts |-> "none"]
    /\ event = [e \in Attempts \X EventTypes |-> "none"]
    /\ expired = FALSE
    /\ returned = {}
    /\ request = [w \in Workers |-> Idle]

-----------------------------------------------------------------------------
(* Moving a worker from one statement to the next. *)

At(w, pc) == request[w].pc = pc

Goto(w, frame) == request' = [request EXCEPT ![w] = frame]

Continue(w, pc) == Goto(w, [request[w] EXCEPT !.pc = pc])

\* A worker that may start a handler.
Free(w, op) == w \in Requests /\ op \in Handlers /\ At(w, "idle")

Start(w, op, pc) == Goto(w, [Idle EXCEPT !.op = op, !.pc = pc])

\* Where syncOrderPayment or a release returns to.
AfterSync(f) ==
    CASE f.op = "cancelCheckout" ->
            [Idle EXCEPT !.op = f.op, !.target = f.target, !.pc = "cancelRead"]
      [] f.op = "supersede"      -> [Idle EXCEPT !.op = f.op, !.pc = "supersedeCheck"]
      [] f.op = "createCheckout" -> [Idle EXCEPT !.op = f.op, !.pc = "createCheck"]
      [] OTHER                   -> Idle

\* Where applyRemotePayment, or a confirmation, of the row at hand returns to.
AfterRow(f) ==
    CASE f.op = "verify"  -> Idle
      [] f.op = "webhook" -> [f EXCEPT !.pc = "eventProcessed", !.row = 0,
                                       !.seen = "none", !.from = "NONE"]
      [] OTHER -> [f EXCEPT !.pc = "syncNext", !.row = 0, !.pay = 0,
                            !.seen = "none", !.from = "NONE",
                            !.todo = [@ EXCEPT ![f.row] = "NONE"]]

\* Where an exception is caught: handleWebhook records it, cancelCheckout goes
\* on, the other handlers end.
OnError(f) ==
    CASE f.op = "webhook"        -> [f EXCEPT !.pc = "eventFailed", !.row = 0,
                                              !.seen = "none", !.from = "NONE"]
      [] f.op = "cancelCheckout" -> AfterSync(f)
      [] OTHER                   -> Idle

Newest(S) == CHOOSE r \in S : \A q \in S : q =< r

\* syncOrderPayment visits the rows of its snapshot, the newest first.
NextRow(f) == Newest({r \in Rows : f.todo[r] # "NONE"})

(* transitionPayment: the table is consulted for the status the caller read, *)
(* then the row is updated whatever its status is by now.                    *)
Transition(w, to, pay) ==
    LET f == request[w]
    IN  IF CanTransition(f.from, to)
        THEN /\ status' = [status EXCEPT ![f.row] = to]
             /\ providerPaymentId' = [providerPaymentId EXCEPT ![f.row] =
                                          IF pay = 0 THEN @ ELSE pay]
        ELSE UNCHANGED <<status, providerPaymentId>>

-----------------------------------------------------------------------------
(* Customer and Razorpay (outside the repository). *)

\* A payment is attempted on the Razorpay order of an existing row.
CustomerPays(m) ==
    /\ attempt[m] = "none"
    /\ status[RowOf[m]] # "NONE"
    /\ m > 1 => attempt[m - 1] # "none"
    /\ attempt' = [attempt EXCEPT ![m] = "created"]
    /\ UNCHANGED <<orderVars, rowVars, expired, event, returned, request>>

AttemptAdvances(m, to) ==
    /\ \/ attempt[m] = "created" /\ to \in {"authorized", "failed"}
       \/ attempt[m] = "authorized" /\ to = "captured"
    /\ attempt' = [attempt EXCEPT ![m] = to]
    /\ UNCHANGED <<orderVars, rowVars, expired, event, returned, request>>

\* The payment window of the order passes.
Expire ==
    /\ ~expired
    /\ expired' = TRUE
    /\ UNCHANGED <<orderVars, rowVars, attempt, event, returned, request>>

-----------------------------------------------------------------------------
(* verifyCheckoutPayment: the checkout of attempt m returned with success.   *)
(* A checkout for a row already captured and paid is answered as a replay.   *)
VerifyBegin(w, m) ==
    LET r == RowOf[m]
    IN  /\ Free(w, "verify")
        /\ attempt[m] \in MoneyStatuses
        /\ ~(status[r] = "CAPTURED" /\ paymentStatus = "PAID")
        /\ \A q \in Rows \ {r} : providerPaymentId[q] # m
        /\ Goto(w, [Idle EXCEPT !.op = "verify", !.pc = "recordPayment",
                               !.row = r, !.pay = m, !.from = status[r]])
        /\ UNCHANGED <<orderVars, rowVars, gatewayVars, event, returned>>

RecordPayment(w) ==
    LET f == request[w]
    IN  /\ At(w, "recordPayment")
        /\ providerPaymentId' = [providerPaymentId EXCEPT ![f.row] = f.pay]
        /\ Continue(w, "markPending")
        /\ UNCHANGED <<orderVars, status, refundRequired, gatewayVars, event, returned>>

MarkPending(w) ==
    /\ At(w, "markPending")
    /\ Transition(w, "PENDING", 0)
    /\ Goto(w, [request[w] EXCEPT !.pc = "fetchPayment", !.from = "NONE"])
    /\ UNCHANGED <<orderVars, refundRequired, gatewayVars, event, returned>>

\* A callback whose signature does not verify only marks the row's failureCode.
VerifyRejected(w, r) ==
    /\ Free(w, "badVerify")
    /\ status[r] # "NONE"
    /\ ~(status[r] = "CAPTURED" /\ paymentStatus = "PAID")
    /\ refundRequired' = [refundRequired EXCEPT ![r] = FALSE]
    /\ UNCHANGED <<orderVars, status, providerPaymentId, gatewayVars, event,
                   returned, request>>

-----------------------------------------------------------------------------
(* Reading from Razorpay. *)

(* Mutant: the amount of a fetched payment is not compared with the row's. *)
MutantFetchPayment(w) ==
    LET f == request[w]
    IN  /\ At(w, "fetchPayment")
        /\ Goto(w, [f EXCEPT !.seen = attempt[f.pay], !.pc = "apply"])
        /\ UNCHANGED <<orderVars, rowVars, gatewayVars, event, returned>>

\* fetchPayment, then assertRemoteMatches on what it returned.
FetchPayment(w) ==
    LET f == request[w]
    IN  /\ At(w, "fetchPayment")
        /\ Goto(w, [f EXCEPT !.seen = attempt[f.pay],
                            !.pc = IF f.pay \in Mismatched THEN "mismatch" ELSE "apply"])
        /\ UNCHANGED <<orderVars, rowVars, gatewayVars, event, returned>>

\* A call to Razorpay fails: an exception in the handler.
GatewayFails(w) ==
    LET f == request[w]
    IN  /\ \/ f.pc \in {"fetchPayment", "createRow"}
           \/ /\ f.pc = "syncNext"
              /\ f.todo # NoRows
              /\ f.todo[NextRow(f)] \notin Settled
        /\ Goto(w, OnError(f))
        /\ UNCHANGED <<orderVars, rowVars, gatewayVars, event, returned>>

\* assertRemoteMatches on a mismatch: read the row, move it, throw.
ReadMismatch(w) ==
    LET f == request[w]
    IN  /\ At(w, "mismatch")
        /\ Goto(w, [f EXCEPT !.pc = "markMismatch", !.from = status[f.row]])
        /\ UNCHANGED <<orderVars, rowVars, gatewayVars, event, returned>>

MarkMismatch(w) ==
    LET f == request[w]
    IN  /\ At(w, "markMismatch")
        /\ Transition(w, "VERIFICATION_FAILED", 0)
        /\ refundRequired' = [refundRequired EXCEPT ![f.row] =
                                  @ /\ ~CanTransition(f.from, "VERIFICATION_FAILED")]
        /\ Goto(w, OnError(f))
        /\ UNCHANGED <<orderVars, gatewayVars, event, returned>>

-----------------------------------------------------------------------------
(* applyRemotePayment: what was seen of the attempt is applied to the row.   *)

\* An older failed attempt gives way to a newer one in progress.
Superseded(r, m) ==
    status[r] = "PENDING" /\ providerPaymentId[r] \notin {0, m}

Apply(w) ==
    LET f == request[w]
        r == f.row
    IN  /\ At(w, "apply")
        /\ \/ /\ f.seen \in MoneyStatuses
              /\ Goto(w, IF \E q \in Rows \ {r} : providerPaymentId[q] = f.pay
                         THEN AfterRow(f)
                         ELSE [f EXCEPT !.pc = "ensure"])
           \/ /\ f.seen = "failed"
              /\ Goto(w, IF Superseded(r, f.pay)
                         THEN AfterRow(f)
                         ELSE [f EXCEPT !.pc = "markFailed", !.from = status[r]])
           \/ /\ f.seen = "created"
              /\ Goto(w, IF status[r] = "CREATED"
                         THEN [f EXCEPT !.pc = "markStarted", !.from = "CREATED"]
                         ELSE AfterRow(f))
        /\ UNCHANGED <<orderVars, rowVars, gatewayVars, event, returned>>

MarkFailed(w) ==
    LET f == request[w]
    IN  /\ At(w, "markFailed")
        /\ Transition(w, "FAILED", f.pay)
        /\ refundRequired' = [refundRequired EXCEPT ![f.row] =
                                  @ /\ ~CanTransition(f.from, "FAILED")]
        /\ Continue(w, "failOrder")
        /\ UNCHANGED <<orderVars, gatewayVars, event, returned>>

(* Mutant: the failed payment status is written whatever the order's state. *)
MutantFailOrder(w) ==
    /\ At(w, "failOrder")
    /\ paymentStatus' = "FAILED"
    /\ Goto(w, AfterRow(request[w]))
    /\ UNCHANGED <<orderStatus, rowVars, gatewayVars, event, returned>>

FailOrder(w) ==
    /\ At(w, "failOrder")
    /\ paymentStatus' = IF orderStatus # "CANCELLED" /\ paymentStatus # "PAID"
                        THEN "FAILED" ELSE paymentStatus
    /\ Goto(w, AfterRow(request[w]))
    /\ UNCHANGED <<orderStatus, rowVars, gatewayVars, event, returned>>

MarkStarted(w) ==
    /\ At(w, "markStarted")
    /\ Transition(w, "PENDING", request[w].pay)
    /\ Goto(w, AfterRow(request[w]))
    /\ UNCHANGED <<orderVars, refundRequired, gatewayVars, event, returned>>

\* ensureCaptured: read the row, capture an authorized attempt, move the row.
Ensure(w) ==
    LET f == request[w]
    IN  /\ At(w, "ensure")
        /\ Goto(w, [f EXCEPT !.from = status[f.row],
                            !.pc = IF f.seen = "authorized" THEN "capture"
                                                            ELSE "markCaptured"])
        /\ UNCHANGED <<orderVars, rowVars, gatewayVars, event, returned>>

\* capturePayment; an error (the attempt is captured already, or the call or
\* only its answer is lost) leaves the status that was seen.
Capture(w) ==
    LET f == request[w]
    IN  /\ At(w, "capture")
        /\ \/ /\ attempt[f.pay] = "authorized"
              /\ attempt' = [attempt EXCEPT ![f.pay] = "captured"]
              /\ \E answer \in {"captured", "authorized"} :
                    Goto(w, [f EXCEPT !.seen = answer, !.pc = "markCaptured"])
           \/ /\ Continue(w, "markCaptured")
              /\ UNCHANGED attempt
        /\ UNCHANGED <<orderVars, rowVars, expired, event, returned>>

MarkCaptured(w) ==
    LET f == request[w]
    IN  /\ At(w, "markCaptured")
        /\ Transition(w, IF f.seen = "captured" THEN "CAPTURED" ELSE "AUTHORIZED", f.pay)
        /\ Goto(w, [f EXCEPT !.pc = "confirmPayment", !.seen = "none", !.from = "NONE"])
        /\ UNCHANGED <<orderVars, refundRequired, gatewayVars, event, returned>>

-----------------------------------------------------------------------------
(* confirmOrderForPayment and OrdersService.confirmPaidOrder. *)

ConfirmPayment(w) ==
    LET f == request[w]
    IN  /\ At(w, "confirmPayment")
        /\ IF status[f.row] \in InFlight
           THEN Continue(w, "confirmOrder")
           ELSE Goto(w, AfterRow(f))
        /\ UNCHANGED <<orderVars, rowVars, gatewayVars, event, returned>>

(* Mutant: an order confirmed before is taken for one that cannot be. *)
MutantConfirmOrder(w) ==
    LET f == request[w]
    IN  /\ At(w, "confirmOrder")
        /\ IF orderStatus = "CANCELLED" \/ paymentStatus = "PAID"
           THEN Continue(w, "flagRefund")
           ELSE Continue(w, "confirmTx")
        /\ UNCHANGED <<orderVars, rowVars, gatewayVars, event, returned>>

ConfirmOrder(w) ==
    LET f == request[w]
    IN  /\ At(w, "confirmOrder")
        /\ CASE orderStatus = "CANCELLED" -> Continue(w, "flagRefund")
             [] orderStatus # "CANCELLED" /\ paymentStatus = "PAID"
                                       -> Goto(w, AfterRow(f))
             [] OTHER                  -> Continue(w, "confirmTx")
        /\ UNCHANGED <<orderVars, rowVars, gatewayVars, event, returned>>

(* Mutant: the update does not ask whether the order was cancelled. *)
MutantConfirmable == paymentStatus # "PAID"

\* The WHERE of the update that confirms. (The code's other branch, for an
\* order read as PAID and PENDING, has no state to run in: the two columns are
\* only ever written together; see StatusesAgree.)
Confirmable == orderStatus # "CANCELLED" /\ paymentStatus # "PAID"

\* No row matches: the result is ALREADY_CONFIRMED, and nothing is flagged.
ConfirmTx(w) ==
    /\ At(w, "confirmTx")
    /\ IF Confirmable
       THEN orderStatus' = NextStatus /\ paymentStatus' = "PAID"
       ELSE UNCHANGED orderVars
    /\ Goto(w, AfterRow(request[w]))
    /\ UNCHANGED <<rowVars, gatewayVars, event, returned>>

FlagRefund(w) ==
    LET f == request[w]
    IN  /\ At(w, "flagRefund")
        /\ refundRequired' = [refundRequired EXCEPT ![f.row] = TRUE]
        /\ Goto(w, AfterRow(f))
        /\ UNCHANGED <<orderVars, status, providerPaymentId, gatewayVars, event, returned>>

-----------------------------------------------------------------------------
(* syncOrderPayment, and who calls it. *)

(* Mutant: an order whose last attempt failed is not looked at again. *)
MutantAwaitsPayment == orderStatus = "PENDING" /\ paymentStatus = "PENDING"

AwaitsPayment == orderStatus = "PENDING" /\ paymentStatus \in Unpaid

\* getStatus polls whatever the order's state.
Poll(w) ==
    /\ Free(w, "poll")
    /\ Start(w, "poll", "syncRead")
    /\ UNCHANGED <<orderVars, rowVars, gatewayVars, event, returned>>

\* reconcileStalePendingOrders takes up an order that is still unpaid.
Reconcile ==
    /\ "reconcile" \in Handlers
    /\ At(Timer, "idle")
    /\ AwaitsPayment
    /\ Start(Timer, "reconcile", "syncRead")
    /\ UNCHANGED <<orderVars, rowVars, gatewayVars, event, returned>>

\* cancelCheckout: the app reports a closed checkout; it acts on the newest row.
CancelCheckout(w) ==
    LET made == {r \in Rows : status[r] # "NONE"}
    IN  /\ Free(w, "cancelCheckout")
        /\ made # {}
        /\ status[Newest(made)] \in {"CREATED", "PENDING"}
        /\ Goto(w, [Idle EXCEPT !.op = "cancelCheckout", !.pc = "syncRead",
                               !.target = Newest(made)])
        /\ UNCHANGED <<orderVars, rowVars, gatewayVars, event, returned>>

\* releaseSupersededCheckouts: a newer checkout finds this order unpaid.
Supersede(w) ==
    /\ Free(w, "supersede")
    /\ AwaitsPayment
    /\ Start(w, "supersede", "syncRead")
    /\ UNCHANGED <<orderVars, rowVars, gatewayVars, event, returned>>

SyncRead(w) ==
    /\ At(w, "syncRead")
    /\ Goto(w, [request[w] EXCEPT !.pc = "syncNext", !.todo = status])
    /\ UNCHANGED <<orderVars, rowVars, gatewayVars, event, returned>>

(* reconcilePayment on the next row of the snapshot: a captured one is       *)
(* confirmed again, another settled one skipped, and the rest fetched from   *)
(* Razorpay.                                                                 *)
SyncNext(w) ==
    LET f == request[w]
        r == NextRow(f)
        listed == {[status |-> attempt[m], createdAt |-> m] :
                      m \in {x \in Attempts : RowOf[x] = r /\ attempt[x] # "none"}}
    IN  /\ At(w, "syncNext")
        /\ f.todo # NoRows
        /\ \/ /\ f.todo[r] = "CAPTURED"
              /\ Goto(w, [f EXCEPT !.pc = "confirmPayment", !.row = r])
           \/ /\ \/ f.todo[r] \in Settled \ {"CAPTURED"}
                 \/ f.todo[r] \notin Settled /\ listed = {}
              /\ Goto(w, AfterRow([f EXCEPT !.row = r]))
           \/ /\ f.todo[r] \notin Settled
              /\ \E a \in Authoritative(listed) :
                    Goto(w, [f EXCEPT
                        !.row = r, !.pay = a.createdAt, !.seen = a.status,
                        !.pc = IF a.status \in MoneyStatuses /\ a.createdAt \in Mismatched
                               THEN "mismatch" ELSE "apply"])
        /\ UNCHANGED <<orderVars, rowVars, gatewayVars, event, returned>>

MoneyMoved == \E r \in Rows : status[r] \in InFlight

SyncDecide(w) ==
    LET f == request[w]
    IN  /\ At(w, "syncNext")
        /\ f.todo = NoRows
        /\ IF ~MoneyMoved /\ AwaitsPayment /\ expired
           THEN Continue(w, "release")
           ELSE Goto(w, AfterSync(f))
        /\ UNCHANGED <<orderVars, rowVars, gatewayVars, event, returned>>

\* The rest of cancelCheckout.
CancelRead(w) ==
    LET f == request[w]
    IN  /\ At(w, "cancelRead")
        /\ IF status[f.target] \in {"CREATED", "PENDING"}
           THEN Goto(w, [f EXCEPT !.pc = "cancelMark", !.row = f.target,
                                  !.from = status[f.target]])
           ELSE Goto(w, Idle)
        /\ UNCHANGED <<orderVars, rowVars, gatewayVars, event, returned>>

CancelMark(w) ==
    /\ At(w, "cancelMark")
    /\ Transition(w, "CANCELLED", 0)
    /\ Goto(w, Idle)
    /\ UNCHANGED <<orderVars, refundRequired, gatewayVars, event, returned>>

\* The rest of releaseSupersededCheckouts.
SupersedeCheck(w) ==
    /\ At(w, "supersedeCheck")
    /\ IF MoneyMoved \/ \E r \in Rows : status[r] = "PENDING" /\ providerPaymentId[r] # 0
       THEN Goto(w, Idle)
       ELSE Start(w, "replace", "release")
    /\ UNCHANGED <<orderVars, rowVars, gatewayVars, event, returned>>

-----------------------------------------------------------------------------
(* createCheckout on this order: the retried checkout (loadReusableOrder).   *)

CreateCheckout(w) ==
    /\ Free(w, "createCheckout")
    /\ paymentStatus # "PAID"
    /\ Start(w, "createCheckout", IF expired THEN "syncRead" ELSE "createCheck")
    /\ UNCHANGED <<orderVars, rowVars, gatewayVars, event, returned>>

CreateCheck(w) ==
    /\ At(w, "createCheck")
    /\ IF orderStatus = "CANCELLED" \/ paymentStatus = "PAID"
       THEN Goto(w, Idle)
       ELSE Continue(w, "findRow")
    /\ UNCHANGED <<orderVars, rowVars, gatewayVars, event, returned>>

\* A reusable row is answered as it is.
FindRow(w) ==
    /\ At(w, "findRow")
    /\ IF \E r \in Rows : status[r] \in Reusable
       THEN Goto(w, Idle)
       ELSE Continue(w, "createRow")
    /\ UNCHANGED <<orderVars, rowVars, gatewayVars, event, returned>>

\* createOrder at Razorpay, then the row for it.
CreateRow(w) ==
    LET unused == {r \in Rows : status[r] = "NONE"}
    IN  /\ At(w, "createRow")
        /\ \E r \in unused :
              /\ \A q \in unused : r =< q
              /\ status' = [status EXCEPT ![r] = "CREATED"]
        /\ Goto(w, Idle)
        /\ UNCHANGED <<orderVars, providerPaymentId, refundRequired, gatewayVars,
                       event, returned>>

-----------------------------------------------------------------------------
(* Giving the order up. *)

\* releaseUnpaidOnlineCheckouts: a cash order is placed instead.
PayCash(w) ==
    /\ Free(w, "payCash")
    /\ AwaitsPayment
    /\ Start(w, "payCash", "release")
    /\ UNCHANGED <<orderVars, rowVars, gatewayVars, event, returned>>

(* Mutant: the release takes any order that is not cancelled yet. *)
MutantReleasable == orderStatus # "CANCELLED"

\* The WHERE of the update that releases.
Releasable == AwaitsPayment

\* releaseUnpaidOnlineOrder.
ReleaseTx(w) ==
    LET f == request[w]
    IN  /\ At(w, "release")
        /\ IF Releasable
           THEN /\ orderStatus' = "CANCELLED"
                /\ paymentStatus' = "CANCELLED"
                /\ status' = [r \in Rows |-> IF status[r] \in {"CREATED", "PENDING", "FAILED"}
                                             THEN "CANCELLED" ELSE status[r]]
                /\ Continue(w, "returnPoints")
           ELSE /\ Goto(w, AfterSync(f))
                /\ UNCHANGED <<orderVars, status>>
        /\ UNCHANGED <<providerPaymentId, refundRequired, gatewayVars, event, returned>>

(* Mutant: nothing runs after the points, as if an early return were taken. *)
MutantReturnPoints(w) ==
    /\ At(w, "returnPoints")
    /\ returned' = returned \cup {"points"}
    /\ Goto(w, AfterSync(request[w]))
    /\ UNCHANGED <<orderVars, rowVars, gatewayVars, event>>

\* After the commit: the redeemed points, then the free-delivery benefit.
ReturnPoints(w) ==
    /\ At(w, "returnPoints")
    /\ returned' = returned \cup {"points"}
    /\ Continue(w, "returnBenefit")
    /\ UNCHANGED <<orderVars, rowVars, gatewayVars, event>>

ReturnBenefit(w) ==
    /\ At(w, "returnBenefit")
    /\ returned' = returned \cup {"freeDelivery"}
    /\ Goto(w, AfterSync(request[w]))
    /\ UNCHANGED <<orderVars, rowVars, gatewayVars, event>>

\* OrdersService.cancel: the status is checked, and later overwritten.
CustomerCancel(w) ==
    /\ Free(w, "customerCancel")
    /\ orderStatus # "CANCELLED"
    /\ Start(w, "customerCancel", "cancelTx")
    /\ UNCHANGED <<orderVars, rowVars, gatewayVars, event, returned>>

CancelTx(w) ==
    /\ At(w, "cancelTx")
    /\ orderStatus' = "CANCELLED"
    /\ Continue(w, "returnPoints")
    /\ UNCHANGED <<paymentStatus, rowVars, gatewayVars, event, returned>>

-----------------------------------------------------------------------------
(* handleWebhook, for the event of a type on attempt m. Razorpay delivers an *)
(* event at least once, in any order and possibly twice at a time.           *)

Event(f) == <<f.pay, f.type>>

Webhook(w, m, type) ==
    /\ Free(w, "webhook")
    /\ Sent(m, type)
    /\ event[<<m, type>>] # "PROCESSED"
    /\ Goto(w, [Idle EXCEPT !.op = "webhook", !.pay = m, !.type = type,
                           !.pc = IF event[<<m, type>>] = "none"
                                  THEN "createEvent" ELSE "processEvent"])
    /\ UNCHANGED <<orderVars, rowVars, gatewayVars, event, returned>>

\* The insert that loses the race on the dedupe key answers "duplicate".
CreateEvent(w) ==
    LET e == Event(request[w])
    IN  /\ At(w, "createEvent")
        /\ IF event[e] = "none"
           THEN /\ event' = [event EXCEPT ![e] = "RECEIVED"]
                /\ Continue(w, "processEvent")
           ELSE /\ Goto(w, Idle)
                /\ UNCHANGED event
        /\ UNCHANGED <<orderVars, rowVars, gatewayVars, returned>>

\* processWebhookEvent: a failure is applied as it stands, money is read again.
ProcessEvent(w) ==
    LET f == request[w]
    IN  /\ At(w, "processEvent")
        /\ Goto(w, [f EXCEPT !.row = RowOf[f.pay],
                            !.seen = IF f.type = "failed" THEN "failed" ELSE "none",
                            !.pc = IF f.type = "failed" THEN "apply" ELSE "fetchPayment"])
        /\ UNCHANGED <<orderVars, rowVars, gatewayVars, event, returned>>

EventProcessed(w) ==
    /\ At(w, "eventProcessed")
    /\ event' = [event EXCEPT ![Event(request[w])] = "PROCESSED"]
    /\ Goto(w, Idle)
    /\ UNCHANGED <<orderVars, rowVars, gatewayVars, returned>>

EventFailed(w) ==
    /\ At(w, "eventFailed")
    /\ event' = [event EXCEPT ![Event(request[w])] = "FAILED"]
    /\ Goto(w, Idle)
    /\ UNCHANGED <<orderVars, rowVars, gatewayVars, returned>>

-----------------------------------------------------------------------------
(* The server dies: the request is gone, what it committed stays. *)
Crash(w) ==
    /\ Crashes
    /\ ~At(w, "idle")
    /\ Goto(w, Idle)
    /\ UNCHANGED <<orderVars, rowVars, gatewayVars, event, returned>>

-----------------------------------------------------------------------------
(* The steps of a handler that is under way; those that wait for Razorpay.   *)
LocalStep(w) ==
    \/ RecordPayment(w) \/ MarkPending(w) \/ ReadMismatch(w) \/ MarkMismatch(w)
    \/ Apply(w) \/ Ensure(w) \/ MarkCaptured(w) \/ MarkFailed(w) \/ FailOrder(w)
    \/ MarkStarted(w) \/ ConfirmPayment(w) \/ ConfirmOrder(w) \/ ConfirmTx(w)
    \/ FlagRefund(w) \/ SyncRead(w) \/ SyncDecide(w) \/ CancelRead(w)
    \/ CancelMark(w) \/ SupersedeCheck(w) \/ CreateCheck(w) \/ FindRow(w)
    \/ ReleaseTx(w) \/ ReturnPoints(w) \/ ReturnBenefit(w) \/ CancelTx(w)
    \/ CreateEvent(w) \/ ProcessEvent(w) \/ EventProcessed(w) \/ EventFailed(w)

GatewayStep(w) == FetchPayment(w) \/ SyncNext(w) \/ Capture(w) \/ CreateRow(w)

Arrival(w) ==
    \/ \E m \in Attempts : VerifyBegin(w, m)
    \/ \E r \in Rows : VerifyRejected(w, r)
    \/ \E m \in Attempts, type \in EventTypes : Webhook(w, m, type)
    \/ Poll(w) \/ CancelCheckout(w) \/ Supersede(w) \/ CreateCheckout(w)
    \/ PayCash(w) \/ CustomerCancel(w)

Environment ==
    \/ \E m \in Attempts : CustomerPays(m)
    \/ \E m \in Attempts, to \in MoneyStatuses \cup {"failed"} : AttemptAdvances(m, to)
    \/ Expire

Next ==
    \/ \E w \in Workers :
         LocalStep(w) \/ GatewayStep(w) \/ GatewayFails(w) \/ Arrival(w) \/ Crash(w)
    \/ Reconcile
    \/ Environment

(* Fairness: a statement of the server's is executed at last, the timer      *)
(* ticks, the payment window passes, and a call to Razorpay that is made     *)
(* again and again is answered at last. Customers promise nothing.           *)
Fairness ==
    /\ \A w \in Workers : WF_vars(LocalStep(w)) /\ SF_vars(GatewayStep(w))
    /\ WF_vars(Reconcile)
    /\ WF_vars(Expire)

Spec == Init /\ [][Next]_vars

FairSpec == Spec /\ Fairness

-----------------------------------------------------------------------------
(* Properties. *)

\* Money the gateway holds for row r, of an attempt that matches the row.
Moved(r) ==
    \E m \in Attempts : /\ RowOf[m] = r
                        /\ attempt[m] \in MoneyStatuses
                        /\ m \notin Mismatched

(* No order is ever shown as paid unless Razorpay holds a matching payment   *)
(* for it, whatever callbacks, webhooks and polls race or arrive late.       *)
PaidImpliesMoneyMoved == paymentStatus = "PAID" => \E r \in Rows : Moved(r)

(* An online order reaches the hub (HUB_ASSIGNED, AWAITING_HUB_ALLOCATION)   *)
(* only when it is paid, and a paid order never stays behind in PENDING: the *)
(* two columns agree although failures, releases and cancels write only one. *)
StatusesAgree == /\ orderStatus = NextStatus => paymentStatus = "PAID"
                 /\ paymentStatus = "PAID" => orderStatus # "PENDING"

(* A refund is demanded only for an order that is cancelled and for a row    *)
(* on which money moved: confirmOrderForPayment never flags a live order.    *)
RefundOnlyWhenDue ==
    \A r \in Rows : refundRequired[r] => orderStatus = "CANCELLED" /\ Moved(r)

Quiet == \A w \in Workers : At(w, "idle")

(* When no request is at work, a cancelled order has given back the points   *)
(* and the free delivery it used (releaseUnpaidOnlineOrder, cancel).         *)
CancelledIsReturned ==
    Quiet /\ orderStatus = "CANCELLED" => returned = {"points", "freeDelivery"}

(* The order's two columns and the gateway, as PaymentPromise sees them.     *)
Outcome ==
    CASE orderStatus = "PENDING"   /\ paymentStatus \in Unpaid -> "OPEN"
      [] orderStatus = NextStatus  /\ paymentStatus = "PAID"    -> "CONFIRMED"
      [] orderStatus = "CANCELLED" /\ paymentStatus \in Unpaid -> "RELEASED"
      [] orderStatus = "CANCELLED" /\ paymentStatus = "PAID"    -> "CANCELLED_PAID"
      [] OTHER                                                 -> "UNDEFINED"

Promise == INSTANCE PaymentPromise
           WITH outcome <- Outcome, funded <- \E r \in Rows : Moved(r)

(* The order is decided once, with money if it is confirmed; a cancelled     *)
(* order is not revived and a paid one never downgraded to unpaid, by a late *)
(* failure, a stale poll or a release (confirmPaidOrder and the guarded      *)
(* updates of applyRemotePayment and releaseUnpaidOnlineOrder).              *)
KeepsPromise == Promise!Spec

(* What a frame says about the world it was read from, as far as money goes: *)
(* an attempt at hand belongs to the row at hand; one that is about to be    *)
(* applied as paid holds matching money; a row being confirmed is backed.    *)
FrameSound(f) ==
    /\ f.pc \in {"createEvent", "processEvent"} => f.pay \in Attempts
    /\ f.pc \in {"recordPayment", "markPending", "fetchPayment", "apply", "ensure",
                 "capture", "markCaptured"}
          => f.pay \in Attempts /\ RowOf[f.pay] = f.row
    /\ f.pc \in {"ensure", "capture", "markCaptured"} => f.seen \in MoneyStatuses
    /\ f.pc \in {"apply", "ensure", "capture", "markCaptured"} /\ f.seen \in MoneyStatuses
          => attempt[f.pay] \in MoneyStatuses /\ f.pay \notin Mismatched
    /\ f.pc \in {"mismatch", "confirmPayment"} => f.row \in Rows
    /\ f.pc \in {"confirmOrder", "confirmTx", "flagRefund"}
          => f.row \in Rows /\ Moved(f.row)
    /\ f.pc = "flagRefund" => orderStatus = "CANCELLED"

RowsBacked == \A r \in Rows : status[r] \in InFlight => Moved(r)

(* The inductive invariant behind the safety properties: a gateway row says  *)
(* AUTHORIZED or CAPTURED only where Razorpay holds matching money, although *)
(* rows are written from stale frames (transitionPayment).                   *)
IInv ==
    /\ TypeOK
    /\ RowsBacked
    /\ PaidImpliesMoneyMoved
    /\ StatusesAgree
    /\ RefundOnlyWhenDue
    /\ \A w \in Workers : FrameSound(request[w])

(* Every online order is decided at last: confirmed or cancelled.            *)
Decided == (orderStatus = "PENDING") ~> (orderStatus # "PENDING")

-----------------------------------------------------------------------------
(* What comments and tests of the code say, and the code does not do.        *)

(* "capture after the order was released is flagged for refund, not revived" *)
(* (payments.service.spec.ts): when every request and every event has been   *)
(* dealt with, money captured for a released order is flagged.               *)
LateCaptureIsFlagged ==
    /\ Quiet
    /\ orderStatus = "CANCELLED"
    /\ \A m \in Attempts, t \in EventTypes : Sent(m, t) => event[<<m, t>>] = "PROCESSED"
    => \A r \in Rows : status[r] = "CAPTURED" => refundRequired[r]

(* "double tap: the same idempotency key reuses the order and Razorpay       *)
(* order" (payments.service.spec.ts): two checkouts share one row.           *)
OneReusableRow ==
    \A q, r \in Rows : status[q] \in Reusable /\ status[r] \in Reusable => q = r
=============================================================================
