--------------------------- MODULE DeliverySlots ---------------------------
(***************************************************************************)
(* Delivery slots, the places customers hold and book in them, and the     *)
(* rescheduling of orders (src/modules/delivery/delivery-slot.service.ts,  *)
(* delivery-schedule.service.ts).                                          *)
(*                                                                         *)
(* A slot has a capacity and a counter, reservedCapacity, of the places    *)
(* taken.  holdSlot takes a place for a quarter of an hour, the placing of *)
(* an order confirms it, a cancellation releases it; whoever comes by      *)
(* expires the holds that have run out.  holdSlot and the expiry outside   *)
(* of an order's transaction are sequences of statements that commit one   *)
(* by one; confirmReservation runs in the transaction that writes the      *)
(* order, so that what it writes appears when that commits, and a slot it  *)
(* has written is locked until then.                                       *)
(*                                                                         *)
(* Left out: the generation of slots and their hours, and that a slot may  *)
(* be inactive (nothing deactivates one).  Of an order's status there is   *)
(* what these services look at; OPEN stands for the statuses in which the  *)
(* customer may still cancel.                                              *)
(***************************************************************************)
EXTENDS Integers, Sequences, FiniteSets

CONSTANTS
    None,
    Requests,     \* requests that may be running at the same time
    Slots,
    HoldSlots,    \* the slots that pages hold places in (a bound on the requests)
    Capacity,     \* capacity of a slot
    Customers,
    Orders,
    CustomerOf,   \* the customer who places an order
    MaxRows       \* bound on the reservations ever created

ASSUME SlotsAssumption ==
    /\ None \notin Requests \cup Slots \cup Orders \cup Customers
    /\ HoldSlots \subseteq Slots
    /\ Capacity \in [Slots -> Nat \ {0}]
    /\ CustomerOf \in [Orders -> Customers]
    /\ MaxRows \in Nat

VARIABLES
    reservedCapacity,
    rows,           \* DeliverySlotReservation, in the order of their creation
    orderStatus,
    scheduledSlot,
    proposedSlot,
    lockedBy,       \* the transaction that has written a slot
    request,        \* the frame of each request
    slips,          \* history: writes to a row that was not as it was read
    past            \* history: what happened to an order

orderVars == <<orderStatus, scheduledSlot, proposedSlot>>
slotVars == <<reservedCapacity, rows, slips>>
vars == <<slotVars, orderVars, lockedBy, request, past>>

-----------------------------------------------------------------------------
Statuses == {"none", "OPEN", "ACCEPTED_BY_HUB", "RESCHEDULE_REQUESTED",
             "OUT_FOR_DELIVERY", "CANCELLED"}

\* timer is the state of expiresAt: ahead, behind, or null.
Reservation ==
    [slot : Slots, customer : Customers, order : Orders \cup {None},
     status : {"PENDING", "CONFIRMED", "RELEASED", "EXPIRED"},
     timer : {"running", "out", "null"}]

Operations == {"none", "hold", "place", "accept", "cancel", "propose", "decline"}

Frame ==
    [op       : Operations,
     pc       : {"idle", "mark", "decrement", "clamp", "find", "extend", "take",
                 "create", "commit", "findPlace", "write"},
     customer : Customers \cup {None},
     slot     : Slots \cup {None},
     order    : Orders \cup {None},
     marked   : SUBSET (1..MaxRows),        \* rows it takes off the books
     counter  : Slots \cup {None},          \* slot whose counter it has lowered
     pick     : 0..MaxRows]                 \* the row it found, 0 for none

Idle == [op |-> "none", pc |-> "idle", customer |-> None, slot |-> None,
         order |-> None, marked |-> {}, counter |-> None, pick |-> 0]

\* confirmReservation runs in the transaction of these.
InTransaction(f) == f.op \in {"place", "accept"}

TypeOK ==
    /\ reservedCapacity \in [Slots -> Int]
    /\ rows \in Seq(Reservation) /\ Len(rows) <= MaxRows
    /\ orderStatus \in [Orders -> Statuses]
    /\ scheduledSlot \in [Orders -> Slots \cup {None}]
    /\ proposedSlot \in [Orders -> Slots \cup {None}]
    /\ lockedBy \in [Slots -> Requests \cup {None}]
    /\ request \in [Requests -> Frame]
    /\ \A s \in Slots : lockedBy[s] # None => InTransaction(request[lockedBy[s]])
    /\ slips \in [Slots -> Nat]
    /\ past \in [Orders -> SUBSET {"cancelled", "kept"}]

Init ==
    /\ reservedCapacity = [s \in Slots |-> 0]
    /\ rows = <<>>
    /\ orderStatus = [o \in Orders |-> "none"]
    /\ scheduledSlot = [o \in Orders |-> None]
    /\ proposedSlot = [o \in Orders |-> None]
    /\ lockedBy = [s \in Slots |-> None]
    /\ request = [w \in Requests |-> Idle]
    /\ slips = [s \in Slots |-> 0]
    /\ past = [o \in Orders |-> {}]

-----------------------------------------------------------------------------
At(w, pc) == request[w].pc = pc
Goto(w, frame) == request' = [request EXCEPT ![w] = frame]
To(w, pc) == Goto(w, [request[w] EXCEPT !.pc = pc])
Done(w) == Goto(w, Idle)

Free(w, s) == lockedBy[s] \in {w, None}
\* The locks that are left when the transaction of w has ended.
Unlocked(w) == [s \in Slots |-> IF lockedBy[s] = w THEN None ELSE lockedBy[s]]

\* A place in use: confirmed, or held and still on the books.
Holds(i) == rows[i].status \in {"PENDING", "CONFIRMED"}
Held(s) == {i \in DOMAIN rows : rows[i].slot = s /\ Holds(i)}

\* PENDING or CONFIRMED, and expiresAt null or ahead.
Live(i) == Holds(i) /\ rows[i].timer # "out"
Reserved(s) == {i \in Held(s) : Live(i)}

Stale == {i \in DOMAIN rows : rows[i].status = "PENDING" /\ rows[i].timer = "out"}

(* Mutant: the customer's rows in any slot are found. *)
MutantOwn(f, statuses) ==
    {i \in DOMAIN rows \ f.marked :
        Live(i) /\ rows[i].customer = f.customer /\ rows[i].status \in statuses}

\* The live rows of a customer in a slot with one of the statuses, as a
\* transaction sees them that has marked some itself.
Own(f, statuses) ==
    {i \in Reserved(f.slot) \ f.marked :
        rows[i].customer = f.customer /\ rows[i].status \in statuses}

In(s, marked) == {i \in marked : rows[i].slot = s}
SlotsOf(marked) == {rows[i].slot : i \in marked}

MaxOf(m, n) == IF m > n THEN m ELSE n

-----------------------------------------------------------------------------
(* expireStaleReservations *)

\* The rows are read; in a transaction their slots are written at once, and
\* stay locked.
Expire(w, f) ==
    IF InTransaction(f)
    THEN /\ \A s \in SlotsOf(Stale) : Free(w, s)
         /\ lockedBy' = [s \in Slots |-> IF s \in SlotsOf(Stale) THEN w ELSE lockedBy[s]]
         /\ Goto(w, [f EXCEPT !.pc = "find", !.marked = Stale])
    ELSE /\ Goto(w, [f EXCEPT !.pc = IF Stale # {} THEN "mark" ELSE "find",
                             !.marked = Stale])
         /\ UNCHANGED lockedBy

\* Rows that are not as they were read when they are written.
Changed(marked, statuses) == {i \in marked : rows[i].status \notin statuses}

Slipped(written) == [s \in Slots |-> slips[s] + Cardinality(In(s, written))]

MarkedRows(marked, status) ==
    [i \in DOMAIN rows |-> IF i \in marked THEN [rows[i] EXCEPT !.status = status]
                                           ELSE rows[i]]

\* The rows are written by id, whatever has become of them.
Mark(w) ==
    LET f == request[w]
    IN  /\ At(w, "mark")
        /\ \A s \in SlotsOf(f.marked) : Free(w, s)
        /\ rows' = MarkedRows(f.marked, IF f.op = "cancel" THEN "RELEASED" ELSE "EXPIRED")
        /\ slips' = Slipped(Changed(f.marked, IF f.op = "cancel"
                                              THEN {"PENDING", "CONFIRMED"}
                                              ELSE {"PENDING"}))
        /\ To(w, "decrement")
        /\ UNCHANGED <<reservedCapacity, orderVars, lockedBy, past>>

Lowered(f, s) == reservedCapacity[s] - Cardinality(In(s, f.marked))

\* Slot by slot, the counter is lowered ...
Decrement(w) ==
    LET f == request[w]
    IN  /\ At(w, "decrement")
        /\ \E s \in SlotsOf(f.marked) :
              /\ Free(w, s)
              /\ reservedCapacity' = [reservedCapacity EXCEPT ![s] = Lowered(f, s)]
              /\ Goto(w, [f EXCEPT !.pc = "clamp", !.marked = @ \ In(s, f.marked),
                                   !.counter = s])
        /\ UNCHANGED <<rows, slips, orderVars, lockedBy, past>>

\* ... and set to 0 if it has fallen below.
Clamp(w) ==
    LET f == request[w]
    IN  /\ At(w, "clamp")
        /\ Free(w, f.counter)
        /\ reservedCapacity' = [reservedCapacity EXCEPT ![f.counter] = MaxOf(0, @)]
        /\ Goto(w, IF f.marked = {} /\ f.op = "cancel" THEN Idle
                   ELSE [f EXCEPT !.counter = None,
                                  !.pc = IF f.marked = {} THEN "find" ELSE "decrement"])
        /\ UNCHANGED <<rows, slips, orderVars, lockedBy, past>>

-----------------------------------------------------------------------------
(* holdSlot *)

\* A hold begins with the expiry.  (A page that shows the slots does that much
\* and no more: a hold that goes no further.)
HoldSlot(w, c, s) ==
    /\ At(w, "idle")
    /\ Expire(w, [Idle EXCEPT !.op = "hold", !.customer = c, !.slot = s])
    /\ UNCHANGED <<slotVars, orderVars, past>>

Full(s) == Cardinality(Reserved(s)) >= Capacity[s]

\* A live row of the customer is extended, or is booked already; failing both,
\* the places are counted.
FindOwnHold(w) ==
    LET f == request[w]
        own == Own(f, {"PENDING", "CONFIRMED"})
    IN  /\ At(w, "find") /\ f.op = "hold"
        /\ \/ own = {} /\ (IF Full(f.slot) THEN Done(w) ELSE To(w, "take"))
           \/ \E i \in own :
                 IF rows[i].status = "PENDING"
                 THEN Goto(w, [f EXCEPT !.pc = "extend", !.pick = i])
                 ELSE Done(w)
        /\ UNCHANGED <<slotVars, orderVars, lockedBy, past>>

\* Only expiresAt is written, by id.
ExtendHold(w) ==
    LET i == request[w].pick
    IN  /\ At(w, "extend")
        /\ rows' = [rows EXCEPT ![i].timer = "running"]
        /\ Done(w)
        /\ UNCHANGED <<reservedCapacity, slips, orderVars, lockedBy, past>>

(* Mutant: the counter is raised without a condition, the count being checked. *)
MutantHasPlace(counter, s) == TRUE

(* Mutant: a place is taken without raising the counter. *)
MutantTaken(counter) == counter

\* The guarded increment.
HasPlace(counter, s) == counter < Capacity[s]
Taken(counter) == counter + 1

TakePlace(w) ==
    LET s == request[w].slot
    IN  /\ At(w, "take")
        /\ Free(w, s)
        /\ IF HasPlace(reservedCapacity[s], s)
           THEN /\ reservedCapacity' = [reservedCapacity EXCEPT ![s] = Taken(@)]
                /\ To(w, "create")
           ELSE Done(w) /\ UNCHANGED reservedCapacity
        /\ UNCHANGED <<rows, slips, orderVars, lockedBy, past>>

CreateHold(w) ==
    LET f == request[w]
    IN  /\ At(w, "create")
        /\ Len(rows) < MaxRows
        /\ rows' = Append(rows, [slot |-> f.slot, customer |-> f.customer, order |-> None,
                                 status |-> "PENDING", timer |-> "running"])
        /\ Done(w)
        /\ UNCHANGED <<reservedCapacity, slips, orderVars, lockedBy, past>>

\* The fifteen minutes of a hold are over.
RunOut(i) ==
    /\ rows[i].timer = "running"
    /\ rows' = [rows EXCEPT ![i].timer = "out"]
    /\ UNCHANGED <<reservedCapacity, slips, orderVars, lockedBy, request, past>>

-----------------------------------------------------------------------------
(* confirmReservation, in the transaction of its caller. *)

\* An order is placed for as soon as possible, without a slot ...
PlaceUnscheduled(o) ==
    /\ orderStatus[o] = "none"
    /\ \A w \in Requests : request[w].order # o
    /\ orderStatus' = [orderStatus EXCEPT ![o] = "OPEN"]
    /\ UNCHANGED <<slotVars, scheduledSlot, proposedSlot, lockedBy, request, past>>

\* ... or in a slot that was shown as available some time ago.  The order's
\* number comes first, and makes placements wait for each other.
PlaceScheduled(w, o, s) ==
    /\ At(w, "idle")
    /\ orderStatus[o] = "none"
    /\ \A v \in Requests : request[v].op # "place"
    /\ Expire(w, [Idle EXCEPT !.op = "place", !.slot = s, !.order = o,
                              !.customer = CustomerOf[o]])
    /\ UNCHANGED <<slotVars, orderVars, past>>

\* acceptReschedule reads the order's status and the proposal first.
AcceptReschedule(w, o) ==
    /\ At(w, "idle")
    /\ orderStatus[o] = "RESCHEDULE_REQUESTED"
    /\ proposedSlot[o] # None
    /\ Expire(w, [Idle EXCEPT !.op = "accept", !.slot = proposedSlot[o], !.order = o,
                              !.customer = CustomerOf[o]])
    /\ UNCHANGED <<slotVars, orderVars, past>>

RollBack(w) == Done(w) /\ lockedBy' = Unlocked(w)

\* The customer's hold is taken, or, without one, a place if there is any.
FindHold(w) ==
    LET f == request[w]
        own == Own(f, {"PENDING"})
    IN  /\ At(w, "find") /\ InTransaction(f)
        /\ \/ \E i \in own : /\ Goto(w, [f EXCEPT !.pc = "commit", !.pick = i])
                             /\ UNCHANGED lockedBy
           \/ own = {} /\ ~Full(f.slot) /\ To(w, "commit") /\ UNCHANGED lockedBy
           \/ own = {} /\ Full(f.slot) /\ RollBack(w)
        /\ UNCHANGED <<slotVars, orderVars, past>>

\* The counters after this transaction's own expiry.
Expired(f) ==
    [s \in Slots |-> IF s \in SlotsOf(f.marked) THEN MaxOf(0, Lowered(f, s))
                                                ELSE reservedCapacity[s]]

(* Mutant: orderId is not unique. *)
MutantBooked(o) == FALSE

\* orderId is unique among the reservations, whatever their status.
Booked(o) == \E i \in DOMAIN rows : rows[i].order = o

\* The hold that was found is confirmed by id, whatever has become of it.
ConfirmHold(f) ==
    LET marked == MarkedRows(f.marked, "EXPIRED")
    IN  /\ rows' = [marked EXCEPT ![f.pick].status = "CONFIRMED",
                                  ![f.pick].order = f.order,
                                  ![f.pick].timer = "null"]
        /\ reservedCapacity' = Expired(f)
        /\ slips' = Slipped(Changed(f.marked \cup {f.pick}, {"PENDING"}))

CreateConfirmed(f) ==
    /\ HasPlace(Expired(f)[f.slot], f.slot)
    /\ Len(rows) < MaxRows
    /\ rows' = Append(MarkedRows(f.marked, "EXPIRED"),
                      [slot |-> f.slot, customer |-> f.customer, order |-> f.order,
                       status |-> "CONFIRMED", timer |-> "null"])
    /\ reservedCapacity' = [Expired(f) EXCEPT ![f.slot] = Taken(@)]
    /\ slips' = Slipped(Changed(f.marked, {"PENDING"}))

\* The order is created, or rewritten, in the transaction that has the place.
CommitOrder(w) ==
    LET f == request[w]
    IN  /\ At(w, "commit")
        /\ Free(w, f.slot)
        /\ ~Booked(f.order)
        /\ IF f.pick # 0 THEN ConfirmHold(f) ELSE CreateConfirmed(f)
        /\ scheduledSlot' = [scheduledSlot EXCEPT ![f.order] = f.slot]
        /\ orderStatus' = [orderStatus EXCEPT
                              ![f.order] = IF f.op = "place" THEN "OPEN" ELSE "ACCEPTED_BY_HUB"]
        /\ proposedSlot' = [proposedSlot EXCEPT ![f.order] = None]
        /\ RollBack(w)
        /\ UNCHANGED past

\* A transaction fails: no place, a second reservation of the order, the time
\* limit, a crash.
Fail(w) ==
    /\ InTransaction(request[w])
    /\ RollBack(w)
    /\ UNCHANGED <<slotVars, orderVars, past>>

-----------------------------------------------------------------------------
(* releaseOrderReservation *)

Remember(o, what) == past' = [past EXCEPT ![o] = @ \cup what]

(* Mutant: only holds are released. *)
MutantPlaceOf(o) ==
    {i \in DOMAIN rows : rows[i].order = o /\ rows[i].status = "PENDING"}

PlaceOf(o) == {i \in DOMAIN rows : rows[i].order = o /\ Holds(i)}

\* The customer cancels an order, the place released in the same transaction.
CancelByCustomer(o) ==
    LET marked == PlaceOf(o)
    IN  /\ orderStatus[o] = "OPEN"
        /\ \A s \in SlotsOf(marked) : lockedBy[s] = None
        /\ orderStatus' = [orderStatus EXCEPT ![o] = "CANCELLED"]
        /\ rows' = MarkedRows(marked, "RELEASED")
        /\ reservedCapacity' =
              [s \in Slots |-> IF s \in SlotsOf(marked)
                               THEN MaxOf(0, reservedCapacity[s] - Cardinality(In(s, marked)))
                               ELSE reservedCapacity[s]]
        /\ Remember(o, {"cancelled"})
        /\ UNCHANGED <<slips, scheduledSlot, proposedSlot, lockedBy, request>>

\* The hub or an administrator cancels in one transaction, whatever the status,
\* and releases after it.
CancelByHub(w, o) ==
    /\ At(w, "idle")
    /\ orderStatus[o] # "none"
    /\ orderStatus' = [orderStatus EXCEPT ![o] = "CANCELLED"]
    /\ Goto(w, [Idle EXCEPT !.op = "cancel", !.pc = "findPlace", !.order = o])
    /\ Remember(o, {"cancelled"})
    /\ UNCHANGED <<slotVars, scheduledSlot, proposedSlot, lockedBy>>

FindPlace(w) ==
    LET f == request[w]
    IN  /\ At(w, "findPlace")
        /\ Goto(w, IF PlaceOf(f.order) = {} THEN Idle
                   ELSE [f EXCEPT !.pc = "mark", !.marked = PlaceOf(f.order)])
        /\ UNCHANGED <<slotVars, orderVars, lockedBy, past>>

\* reject cancels and releases no place.
RejectByHub(o) ==
    /\ orderStatus[o] # "none"
    /\ orderStatus' = [orderStatus EXCEPT ![o] = "CANCELLED"]
    /\ Remember(o, {"cancelled", "kept"})
    /\ UNCHANGED <<slotVars, scheduledSlot, proposedSlot, lockedBy, request>>

\* A request outside of a transaction dies between two statements.
Crash(w) ==
    LET f == request[w]
    IN  /\ f.pc # "idle" /\ ~InTransaction(f)
        /\ Done(w)
        /\ IF f.op = "cancel" THEN Remember(f.order, {"kept"}) ELSE UNCHANGED past
        /\ UNCHANGED <<slotVars, orderVars, lockedBy>>

-----------------------------------------------------------------------------
(* The hub proposes another slot; the customer declines. *)

\* The slot has room, by the larger of counter and count.
Room(s) == Capacity[s] > MaxOf(reservedCapacity[s], Cardinality(Reserved(s)))

RequestReschedule(w, o, s) ==
    /\ At(w, "idle")
    /\ orderStatus[o] \notin {"none", "OUT_FOR_DELIVERY", "CANCELLED"}
    /\ Room(s)
    /\ Goto(w, [Idle EXCEPT !.op = "propose", !.pc = "write", !.order = o, !.slot = s])
    /\ UNCHANGED <<slotVars, orderVars, lockedBy, past>>

DeclineReschedule(w, o) ==
    /\ At(w, "idle")
    /\ orderStatus[o] = "RESCHEDULE_REQUESTED"
    /\ Goto(w, [Idle EXCEPT !.op = "decline", !.pc = "write", !.order = o])
    /\ UNCHANGED <<slotVars, orderVars, lockedBy, past>>

\* Both write the order by id, whatever its status is by then.
WriteProposal(w) ==
    LET f == request[w]
    IN  /\ At(w, "write")
        /\ orderStatus' = [orderStatus EXCEPT
              ![f.order] = IF f.op = "propose" THEN "RESCHEDULE_REQUESTED"
                                               ELSE "ACCEPTED_BY_HUB"]
        /\ proposedSlot' = [proposedSlot EXCEPT ![f.order] = f.slot]
        /\ Done(w)
        /\ UNCHANGED <<slotVars, scheduledSlot, lockedBy, past>>

\* The hub's own progress with an order; its dispatch looks at no status.
HubMoves(o) ==
    /\ \/ /\ orderStatus[o] = "OPEN"
          /\ orderStatus' = [orderStatus EXCEPT ![o] = "ACCEPTED_BY_HUB"]
       \/ /\ orderStatus[o] \notin {"none", "OUT_FOR_DELIVERY"}
          /\ orderStatus' = [orderStatus EXCEPT ![o] = "OUT_FOR_DELIVERY"]
    /\ UNCHANGED <<slotVars, scheduledSlot, proposedSlot, lockedBy, request, past>>

-----------------------------------------------------------------------------
Next ==
    \/ \E w \in Requests :
          \/ Mark(w) \/ Decrement(w) \/ Clamp(w)
          \/ FindOwnHold(w) \/ ExtendHold(w) \/ TakePlace(w)
          \/ CreateHold(w) \/ FindHold(w) \/ CommitOrder(w) \/ Fail(w)
          \/ FindPlace(w) \/ Crash(w) \/ WriteProposal(w)
          \/ \E c \in Customers, s \in HoldSlots : HoldSlot(w, c, s)
          \/ \E o \in Orders :
                \/ AcceptReschedule(w, o) \/ CancelByHub(w, o) \/ DeclineReschedule(w, o)
                \/ \E s \in Slots : PlaceScheduled(w, o, s) \/ RequestReschedule(w, o, s)
    \/ \E i \in DOMAIN rows : RunOut(i)
    \/ \E o \in Orders :
          PlaceUnscheduled(o) \/ CancelByCustomer(o) \/ RejectByHub(o) \/ HubMoves(o)

Spec == Init /\ [][Next]_vars

-----------------------------------------------------------------------------
(* Properties. *)

\* Places a request has counted and not yet created.
InFlight(s) ==
    Cardinality({w \in Requests : At(w, "create") /\ request[w].slot = s})

(* Every place in use is on the slot's counter, but for those that were given  *)
(* back or confirmed twice over a row that had changed since it was read       *)
(* (expireStaleReservations and releaseOrderReservation write by id and then   *)
(* decrement; holdSlot increments and then creates).                           *)
HeldIsCounted ==
    /\ TypeOK
    /\ \A s \in Slots : Cardinality(Held(s)) + InFlight(s) <= reservedCapacity[s] + slips[s]

(* A slot is never booked beyond its capacity, but for one place for each such *)
(* write over a changed row (the guarded increments of holdSlot and            *)
(* confirmReservation).                                                        *)
NotOverbooked ==
    \A s \in Slots :
        /\ reservedCapacity[s] <= Capacity[s]
        /\ Cardinality(Held(s)) <= Capacity[s] + slips[s]

(* An order scheduled in a slot has its place confirmed there until it is      *)
(* cancelled, unless a write in that slot went over a changed row              *)
(* (confirmReservation, releaseOrderReservation).                              *)
KeepsItsPlace ==
    \A o \in Orders : LET s == scheduledSlot[o]
                      IN  s # None /\ past[o] = {} /\ slips[s] = 0 =>
                              \E i \in Held(s) : rows[i].order = o /\ rows[i].status = "CONFIRMED"

(* A cancelled order holds no place, unless the hub rejected it, the one who   *)
(* cancelled it died before releasing it, or has yet to write the release      *)
(* (CancelByCustomer releases in its transaction, the hub and the              *)
(* administrator after it).                                                    *)
CancelledGivesBack ==
    \A o \in Orders :
        (orderStatus[o] = "CANCELLED" /\ \E i \in DOMAIN rows : Holds(i) /\ rows[i].order = o) =>
        \/ "kept" \in past[o]
        \/ \E w \in Requests : /\ request[w].op = "cancel" /\ request[w].order = o
                              /\ request[w].pc \in {"findPlace", "mark"}

(* The slot of an order is final: an order that has one is never moved to      *)
(* another, whatever is proposed and accepted, because its first reservation,  *)
(* even when released, keeps the order's id to itself (acceptReschedule        *)
(* confirms a second reservation for the same order) - unless somebody else    *)
(* has confirmed that reservation over it.                                     *)
ScheduleIsFinal ==
    [][\A o \in Orders : LET s == scheduledSlot[o]
                        IN  s # None /\ slips[s] = 0 => scheduledSlot'[o] = s]_vars
=============================================================================
