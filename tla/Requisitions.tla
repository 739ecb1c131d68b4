---------------------------- MODULE Requisitions ----------------------------
(***************************************************************************)
(* Requisitions: a hub asks the central warehouse for material, the        *)
(* warehouse approves, allocates and dispatches it, the hub receives it    *)
(* (src/modules/requisitions/requisitions.service.ts).                     *)
(*                                                                         *)
(* Every handler but receive reads the requisition, checks its status, and *)
(* writes by id in a statement or a transaction of its own: what it read   *)
(* may have changed in between.  receive reads under a row lock.  Stock    *)
(* rows are locked in every transaction (SELECT ... FOR UPDATE), so that a *)
(* transaction is one step.                                                *)
(*                                                                         *)
(* A requisition has one line here, and all ask for the same material of   *)
(* the same hub.  Left out: the time line, the audit log and the messages, *)
(* which no handler reads; and hubs or vehicles that are inactive.         *)
(***************************************************************************)
EXTENDS Integers, FiniteSets, FiniteSetsExt

CONSTANTS
    None,             \* SQL null
    Requests,         \* requests that may be running at the same time
    Requisition,      \* the requisitions hubs may create
    MaxQty,           \* bound on the quantities in the requests
    Asked,            \* bounds on them: what hubs ask for, 0 for no line,
    Approvals,        \*   what is approved and
    Allocations,      \*   what is allocated, None for a line not named
    Transport,        \*   and whether the request names vehicle and driver
    MaxOvertaken,     \* bound on the requisitions written on a stale read
    MaxEdition,       \* bound on the times the lines of one are replaced
    WarehouseStock    \* availableQty at the warehouse at the start

ASSUME RequisitionsAssumption ==
    /\ None \notin Int \cup Requests \cup Requisition
    /\ IsFiniteSet(Requisition)
    /\ Asked \subseteq 0..MaxQty
    /\ Approvals \subseteq (0..MaxQty) \cup {None}
    /\ Allocations \subseteq (1..MaxQty) \cup {None}
    /\ Transport \subseteq BOOLEAN
    /\ MaxOvertaken \in Nat
    /\ MaxQty \in Nat \ {0} /\ MaxEdition \in Nat \ {0} /\ WarehouseStock \in Nat

VARIABLES
    status,
    item,           \* the line (RequisitionItem) of each requisition
    assigned,       \* the requisitions that have a vehicle and a driver
    availableQty,   \* the warehouse's row of hub_inventory
    reservedQty,
    hubQty,         \* availableQty in the hub's row
    ledger,         \* inventory_ledger_entry: total quantity of each type
    request,        \* the frame of each request
    overtaken,      \* history: written after something else was, since the read
    unreserved      \* history: dispatched without an allocated quantity

stockVars == <<availableQty, reservedQty, hubQty, ledger>>
reqVars == <<status, item, assigned, overtaken>>
vars == <<reqVars, stockVars, unreserved, request>>

-----------------------------------------------------------------------------
\* "none" before create.  No handler writes SUBMITTED or DISPATCHED.
Statuses == {"none", "DRAFT", "PENDING_APPROVAL", "APPROVED", "REJECTED",
             "ALLOCATED", "IN_TRANSIT", "RECEIVED", "COMPLETED"}

LedgerTypes == {"ALLOCATE", "DISPATCH", "RECEIVE"}

Qty == 0..MaxQty
Nullable == Qty \cup {None}

\* update deletes the lines and creates new ones: edition stands for the id.
Item == [edition : 0..MaxEdition, requested : Qty, approved : Nullable,
         allocated : Nullable, received : Nullable]

NewItem(e, q) == [edition |-> e, requested |-> q, approved |-> None,
                  allocated |-> None, received |-> None]

Operations == {"none", "update", "submit", "approve", "reject", "allocate",
               "assign", "dispatch"}

\* read is the line as the handler read it; qty a number of the request,
\* None when the request names no line; stale whether something has been
\* written since.
Frame == [op : Operations, id : Requisition \cup {None}, read : Item \cup {None},
          qty : Nullable, assigned : BOOLEAN, stale : BOOLEAN]

Idle == [op |-> "none", id |-> None, read |-> None, qty |-> None,
         assigned |-> FALSE, stale |-> FALSE]

TypeOK ==
    /\ status \in [Requisition -> Statuses]
    /\ item \in [Requisition -> Item]
    /\ assigned \subseteq Requisition
    /\ availableQty \in Nat
    /\ reservedQty \in Nat
    /\ hubQty \in Nat
    /\ ledger \in [Requisition -> [LedgerTypes -> Nat]]
    /\ request \in [Requests -> Frame]
    /\ \A w \in Requests : request[w] # Idle =>
          request[w].id \in Requisition /\ request[w].read \in Item
    /\ overtaken \subseteq Requisition
    /\ unreserved \subseteq Requisition

Init ==
    /\ status = [r \in Requisition |-> "none"]
    /\ item = [r \in Requisition |-> NewItem(0, 0)]
    /\ assigned = {}
    /\ availableQty = WarehouseStock
    /\ reservedQty = 0
    /\ hubQty = 0
    /\ ledger = [r \in Requisition |-> [t \in LedgerTypes |-> 0]]
    /\ request = [w \in Requests |-> Idle]
    /\ overtaken = {}
    /\ unreserved = {}

-----------------------------------------------------------------------------
Coalesce(a, b) == IF a = None THEN b ELSE a

\* allocatedQty ?? approvedQty ?? requestedQty
Quantity(i) == Coalesce(i.allocated, Coalesce(i.approved, i.requested))

(* Mutant: what has been received already is not taken off. *)
MutantRemaining(i) == Quantity(i)

Remaining(i) ==
    LET left == Quantity(i) - Coalesce(i.received, 0)
    IN  IF left > 0 THEN left ELSE 0

\* The request w has read r; what the request asks for is qty.
Read(w, r, op, qty, transport) ==
    /\ request[w] = Idle
    /\ request' = [request EXCEPT ![w] =
         [op |-> op, id |-> r, read |-> item[r], qty |-> qty,
          assigned |-> transport, stale |-> FALSE]]
    /\ UNCHANGED <<reqVars, stockVars, unreserved>>

\* w ends.  With written, what others have read of the requisition is stale.
End(w, r, written) ==
    request' = [v \in Requests |->
        IF v = w THEN Idle
        ELSE IF written /\ request[v].id = r THEN [request[v] EXCEPT !.stale = TRUE]
        ELSE request[v]]

(* w writes the requisition it has read and ends. *)
Write(w) ==
    LET f == request[w]
    IN  /\ overtaken' = IF f.stale THEN overtaken \cup {f.id} ELSE overtaken
        /\ Cardinality(overtaken') <= MaxOvertaken
        /\ End(w, f.id, TRUE)

At(w, op) == request[w].op = op

\* An update of a line that has been deleted throws, and the transaction with it.
Gone(f) == item[f.id].edition # f.read.edition

(* An exception after the read: nothing is written. *)
Refuse(w) ==
    /\ End(w, request[w].id, FALSE)
    /\ UNCHANGED <<reqVars, stockVars, unreserved>>

-----------------------------------------------------------------------------
(* A draft may have no line, which is requested = 0.                         *)
Create(r, q, submit) ==
    /\ status[r] = "none"
    /\ submit => q > 0
    /\ status' = [status EXCEPT ![r] = IF submit THEN "PENDING_APPROVAL" ELSE "DRAFT"]
    /\ item' = [item EXCEPT ![r] = NewItem(0, q)]
    /\ UNCHANGED <<assigned, overtaken, stockVars, unreserved, request>>

UpdateRead(w, r, q) ==
    /\ status[r] \in {"DRAFT", "PENDING_APPROVAL"}
    /\ Read(w, r, "update", q, FALSE)

(* The new lines know nothing of what was approved, allocated or received.   *)
Update(w) ==
    LET r == request[w].id
    IN  /\ At(w, "update")
        /\ item[r].edition < MaxEdition
        /\ item' = [item EXCEPT ![r] = NewItem(@.edition + 1, request[w].qty)]
        /\ Write(w)
        /\ UNCHANGED <<status, assigned, stockVars, unreserved>>

SubmitRead(w, r) ==
    /\ status[r] = "DRAFT"
    /\ item[r].requested > 0
    /\ Read(w, r, "submit", None, FALSE)

\* requisition.update of the status alone
SetStatus(w, to) ==
    /\ status' = [status EXCEPT ![request[w].id] = to]
    /\ Write(w)
    /\ UNCHANGED <<item, assigned, stockVars, unreserved>>

Submit(w) == At(w, "submit") /\ SetStatus(w, "PENDING_APPROVAL")

ApproveRead(w, r, q) ==
    /\ status[r] = "PENDING_APPROVAL"
    /\ item[r].requested = 0 => q = None
    /\ Read(w, r, "approve", q, FALSE)

(* A line that the request does not name stays as it is.                     *)
Approve(w) ==
    LET f == request[w]
    IN  /\ At(w, "approve")
        /\ IF f.qty # None /\ Gone(f) THEN Refuse(w)
           ELSE /\ item' = IF f.qty = None THEN item
                           ELSE [item EXCEPT ![f.id].approved = f.qty]
                /\ status' = [status EXCEPT ![f.id] = "APPROVED"]
                /\ Write(w)
                /\ UNCHANGED <<assigned, stockVars, unreserved>>

(* Mutant: what is allocated may be rejected. *)
MutantRejectRead(w, r) ==
    /\ status[r] \in {"PENDING_APPROVAL", "APPROVED", "ALLOCATED"}
    /\ Read(w, r, "reject", None, FALSE)

RejectRead(w, r) ==
    /\ status[r] \in {"PENDING_APPROVAL", "APPROVED"}
    /\ Read(w, r, "reject", None, FALSE)

Reject(w) == At(w, "reject") /\ SetStatus(w, "REJECTED")

-----------------------------------------------------------------------------
Book(r, type, q) == ledger' = [ledger EXCEPT ![r][type] = @ + q]

(* The checks of the quantity, which throw inside the transaction, cannot    *)
(* change after the read but for the stock.                                  *)
AllocateRead(w, r, q, transport) ==
    /\ status[r] = "APPROVED"
    /\ q # None => item[r].requested > 0 /\ q <= Coalesce(item[r].approved, item[r].requested)
    /\ Read(w, r, "allocate", q, transport)

Enough(q) == availableQty >= q

\* allocatedQty is set for the lines the request names, the status always.
Allocate(w) ==
    LET f == request[w]
    IN  /\ At(w, "allocate")
        /\ IF f.qty # None /\ (~Enough(f.qty) \/ Gone(f)) THEN Refuse(w)
           ELSE /\ IF f.qty = None THEN UNCHANGED <<item, stockVars>>
                   ELSE /\ availableQty' = availableQty - f.qty
                        /\ reservedQty' = reservedQty + f.qty
                        /\ item' = [item EXCEPT ![f.id].allocated = f.qty]
                        /\ Book(f.id, "ALLOCATE", f.qty)
                        /\ UNCHANGED hubQty
                /\ status' = [status EXCEPT ![f.id] = "ALLOCATED"]
                /\ assigned' = IF f.assigned THEN assigned \cup {f.id} ELSE assigned
                /\ Write(w)
                /\ UNCHANGED unreserved

AssignRead(w, r) ==
    /\ status[r] = "ALLOCATED"
    /\ Read(w, r, "assign", None, FALSE)

AssignLogistics(w) ==
    /\ At(w, "assign")
    /\ assigned' = assigned \cup {request[w].id}
    /\ Write(w)
    /\ UNCHANGED <<status, item, stockVars, unreserved>>

(* The vehicle and the driver come from the request or from the requisition. *)
DispatchRead(w, r, transport) ==
    /\ status[r] = "ALLOCATED"
    /\ transport \/ r \in assigned
    /\ Read(w, r, "dispatch", None, TRUE)

(* Mutant: the material is taken from what is available again. *)
MutantTake(q) ==
    /\ reservedQty' = reservedQty - q
    /\ availableQty' = IF availableQty >= q THEN availableQty - q ELSE 0

\* "Physical leave": available was reduced when the material was allocated.
Take(q) == reservedQty' = reservedQty - q /\ UNCHANGED availableQty

(* The quantity is that of the line as it was read.                          *)
Dispatch(w) ==
    LET f == request[w]
        q == Quantity(f.read)
    IN  /\ At(w, "dispatch")
        /\ IF q > 0 /\ (reservedQty < q \/ Gone(f)) THEN Refuse(w)
           ELSE /\ IF q = 0 THEN UNCHANGED stockVars
                   ELSE Take(q) /\ Book(f.id, "DISPATCH", q) /\ UNCHANGED hubQty
                /\ status' = [status EXCEPT ![f.id] = "IN_TRANSIT"]
                /\ assigned' = assigned \cup {f.id}
                /\ unreserved' = IF q > 0 /\ f.read.allocated = None
                                 THEN unreserved \cup {f.id}
                                 ELSE unreserved
                /\ Write(w)
                /\ UNCHANGED item

(* Under the lock of the requisition's row.                                  *)
Receive(r, q) ==
    LET i == item[r]
        got == Coalesce(i.received, 0) + q
        short == Quantity(i) > got
    IN  /\ status[r] \in {"IN_TRANSIT", "RECEIVED"}
        /\ Remaining(i) > 0
        /\ q <= Remaining(i)
        /\ item' = [item EXCEPT ![r].received = got]
        /\ hubQty' = hubQty + q
        /\ Book(r, "RECEIVE", q)
        /\ status' = [status EXCEPT ![r] = IF short THEN "RECEIVED" ELSE "COMPLETED"]
        /\ End(None, r, TRUE)
        /\ UNCHANGED <<assigned, overtaken, availableQty, reservedQty, unreserved>>

-----------------------------------------------------------------------------
Arrival(w, r) ==
    \/ \E q \in Asked : UpdateRead(w, r, q)
    \/ SubmitRead(w, r)
    \/ \E q \in Approvals : ApproveRead(w, r, q)
    \/ RejectRead(w, r)
    \/ \E q \in Allocations, t \in Transport : AllocateRead(w, r, q, t)
    \/ AssignRead(w, r)
    \/ \E t \in Transport : DispatchRead(w, r, t)

Commit(w) ==
    \/ Update(w) \/ Submit(w) \/ Approve(w) \/ Reject(w)
    \/ Allocate(w) \/ AssignLogistics(w) \/ Dispatch(w)

Next ==
    \/ \E w \in Requests : Commit(w)
    \/ \E w \in Requests, r \in Requisition : Arrival(w, r)
    \/ \E r \in Requisition, q \in Asked, s \in BOOLEAN : Create(r, q, s)
    \/ \E r \in Requisition, q \in Qty : Receive(r, q)

Spec == Init /\ [][Next]_vars

-----------------------------------------------------------------------------
Sum(f) == MapThenSumSet(LAMBDA r : f[r], Requisition)

Booked(type) == Sum([r \in Requisition |-> ledger[r][type]])

(* However the handlers interleave, the stock columns say what the ledger    *)
(* says: what is reserved was allocated and has not been dispatched, and     *)
(* what the warehouse and the hub have, with what is on the road, is what    *)
(* there was (allocate, dispatch and receive change up to four rows each).   *)
StockIsLedgered ==
    /\ TypeOK
    /\ reservedQty = Booked("ALLOCATE") - Booked("DISPATCH")
    /\ hubQty = Booked("RECEIVE")
    /\ availableQty + Booked("ALLOCATE") = WarehouseStock

(* Unless a handler has written over a later write, or a line was dispatched *)
(* that was never allocated, what is reserved is exactly what the ALLOCATED  *)
(* requisitions wait for: no dispatch takes what was set aside for another,  *)
(* and nothing stays reserved behind a requisition that is rejected or gone. *)
AllocatedIsReserved ==
    overtaken \cup unreserved = {} =>
        Sum([r \in Requisition |->
               IF status[r] = "ALLOCATED" THEN Coalesce(item[r].allocated, 0) ELSE 0])
          = reservedQty

(* Unless a handler has written over a later write, a hub books in no more   *)
(* of a requisition than has left the warehouse for it, in however many      *)
(* receipts, and all of it once the requisition is COMPLETED.                *)
ReceivedWasDispatched ==
    \A r \in Requisition \ overtaken :
        /\ ledger[r].RECEIVE <= ledger[r].DISPATCH
        /\ status[r] = "COMPLETED" => ledger[r].RECEIVE = ledger[r].DISPATCH
=============================================================================
