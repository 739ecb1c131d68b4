---------------------------- MODULE BulkEnquiries ----------------------------
(***************************************************************************)
(* Bulk enquiries: a customer asks for a large load, the staff answer with *)
(* quotations and turn the enquiry into an order                           *)
(* (src/modules/bulk/bulk.service.ts, src/admin/bulk/admin-bulk.service.ts;*)
(* the screens of the customer executives call the latter).                *)
(*                                                                         *)
(* What a handler checks it reads before its transaction, so that reading  *)
(* and writing are steps of their own wherever the second depends on the   *)
(* first. A transaction is one step, except that the number of a quotation *)
(* is read from the last one and protected by nothing but its unique index.*)
(*                                                                         *)
(* Left out: materials, amounts, addresses, remarks, follow-ups, notes and *)
(* the activity list, which decide nothing; which product is ordered.      *)
(***************************************************************************)
EXTENDS Integers, Sequences

CONSTANTS
    Requests,          \* requests that may run at the same time
    Enquiries,
    StaffChoices,      \* statuses that updateStatus is asked for
    QuotationChoices,  \* statuses that updateQuotationStatus is asked for
    MaxQuotations,     \* bound on the quotations, over all enquiries
    MaxOrders          \* bound on the orders

BulkEnquiryStatus ==
    {"NEW", "ASSIGNED", "CONTACTED", "IN_PROGRESS", "QUOTE_PREPARED", "QUOTE_SENT", "QUOTED",
     "NEGOTIATION", "CONVERTED", "ORDER_CREATED", "COMPLETED", "REJECTED", "CANCELLED", "EXPIRED"}
BulkQuotationStatus == {"DRAFT", "SENT", "VIEWED", "ACCEPTED", "REJECTED", "EXPIRED"}

(* What the theorems ask of the constants; an instance states it as ASSUME.  *)
ConstantsFit ==
    /\ 0 \notin Enquiries
    /\ StaffChoices \subseteq BulkEnquiryStatus
    /\ QuotationChoices \subseteq BulkQuotationStatus
    /\ MaxQuotations \in Nat
    /\ MaxOrders \in Nat

VARIABLES
    status,       \* of each enquiry; "none" before it is submitted
    converted,    \* convertedOrderId: the number of its order, or 0
    quotation,    \* each quotation: its enquiry and status, by number
    orders,       \* the orders made: of which enquiry, and how many of the
                  \* orders existed when its request read the enquiry
    request       \* the frame of each request

vars == <<status, converted, quotation, orders, request>>

-----------------------------------------------------------------------------
Nothing == [enquiry |-> 0, status |-> "none"]
Idle == [pc |-> "idle", enquiry |-> 0, seen |-> "none", number |-> 0, known |-> 0]
Numbers == 1..MaxQuotations
Written == {n \in Numbers : quotation[n].status # "none"}

TypeOK ==
    /\ status \in [Enquiries -> BulkEnquiryStatus \cup {"none"}]
    /\ converted \in [Enquiries -> 0..MaxOrders]
    /\ quotation \in [Numbers -> [enquiry : Enquiries \cup {0},
                                  status : BulkQuotationStatus \cup {"none"}]]
    /\ orders \in Seq([enquiry : Enquiries, known : 0..MaxOrders])
    /\ request \in [Requests ->
           [pc : {"idle", "cancel", "number", "insert", "convert"}, enquiry : Enquiries \cup {0},
            seen : BulkEnquiryStatus \cup {"none"}, number : 0..(MaxQuotations + 1),
            known : 0..MaxOrders]]

Init ==
    /\ status = [e \in Enquiries |-> "none"]
    /\ converted = [e \in Enquiries |-> 0]
    /\ quotation = [n \in Numbers |-> Nothing]
    /\ orders = <<>>
    /\ request = [r \in Requests |-> Idle]

SetStatus(e, s) == status' = [status EXCEPT ![e] = s]
Goto(r, frame) == request' = [request EXCEPT ![r] = frame]
At(r, pc) == request[r].pc = pc

\* findOneRaw, or the lookup of the customer's own enquiry.
Reads(r, e, pc, number) ==
    /\ At(r, "idle")
    /\ status[e] # "none"
    /\ Goto(r, [pc |-> pc, enquiry |-> e, seen |-> status[e], number |-> number,
                known |-> Len(orders)])
    /\ UNCHANGED <<status, converted, quotation, orders>>

-----------------------------------------------------------------------------
(* The customer. *)

\* A customer with an executive of his own starts at ASSIGNED.
CreateEnquiry(e) ==
    /\ status[e] = "none"
    /\ \E s \in {"NEW", "ASSIGNED"} : SetStatus(e, s)
    /\ UNCHANGED <<converted, quotation, orders, request>>

CancelEnquiryRead(r, e) ==
    /\ status[e] \in {"NEW", "ASSIGNED", "CONTACTED", "IN_PROGRESS"}
    /\ Reads(r, e, "cancel", 0)

CancelEnquiry(r) ==
    /\ At(r, "cancel")
    /\ SetStatus(request[r].enquiry, "CANCELLED")
    /\ Goto(r, Idle)
    /\ UNCHANGED <<converted, quotation, orders>>

-----------------------------------------------------------------------------
(* The staff: none of these asks for the status the enquiry has. *)

StaffWrites(e, s) ==
    /\ status[e] # "none"
    /\ SetStatus(e, s)
    /\ UNCHANGED <<converted, quotation, orders, request>>

AssignExecutive(e) == StaffWrites(e, "ASSIGNED")
UpdateStatus(e) == \E s \in StaffChoices : StaffWrites(e, s)
Reject(e) == StaffWrites(e, "REJECTED")
Cancel(e) == StaffWrites(e, "CANCELLED")

CreateQuotationRead(r, e) == Reads(r, e, "number", 0)

\* The last number in the order of the numbers, which are padded with zeros.
NextQuotationNumber(r) ==
    /\ At(r, "number")
    /\ LET last == IF Written = {} THEN 0
                   ELSE CHOOSE n \in Written : \A m \in Written : m <= n
       IN Goto(r, [request[r] EXCEPT !.pc = "insert", !.number = last + 1])
    /\ UNCHANGED <<status, converted, quotation, orders>>

(* A number that is taken by now ends the transaction. The status written    *)
(* is computed from the one read before the transaction.                     *)
CreateQuotation(r) ==
    LET q == request[r] IN
    /\ At(r, "insert")
    /\ q.number \in Numbers
    /\ Goto(r, Idle)
    /\ IF q.number \in Written
       THEN UNCHANGED <<status, quotation>>
       ELSE /\ quotation' = [quotation EXCEPT ![q.number] =
                                [enquiry |-> q.enquiry, status |-> "DRAFT"]]
            /\ SetStatus(q.enquiry,
                   IF q.seen \in {"NEW", "ASSIGNED", "CONTACTED", "IN_PROGRESS"}
                   THEN "QUOTE_PREPARED" ELSE q.seen)
    /\ UNCHANGED <<converted, orders>>

UpdateQuotationStatus(n) ==
    /\ n \in Written
    /\ \E s \in QuotationChoices :
          /\ quotation' = [quotation EXCEPT ![n].status = s]
          /\ CASE s = "SENT" -> SetStatus(quotation[n].enquiry, "QUOTE_SENT")
               [] s = "ACCEPTED" -> SetStatus(quotation[n].enquiry, "NEGOTIATION")
               [] OTHER -> UNCHANGED status
    /\ UNCHANGED <<converted, orders, request>>

(* Mutant: the status alone tells whether there is an order. *)
MutantConvertible(e) == status[e] \notin {"ORDER_CREATED", "CONVERTED"}

Convertible(e) ==
    /\ converted[e] = 0
    /\ status[e] \notin {"ORDER_CREATED", "CONVERTED"}

Accepted(e) == {n \in Written : quotation[n] = [enquiry |-> e, status |-> "ACCEPTED"]}
Others(e) == {n \in Written : quotation[n].enquiry = e} \ Accepted(e)

(* With a product of its own a request needs no quotation, and one that      *)
(* names a quotation nobody has accepted goes on without it.                 *)
ConvertToOrderRead(r, e) ==
    /\ Convertible(e)
    /\ \E n \in Accepted(e) \cup {0} :
          /\ n = 0 => Accepted(e) = {} \/ Others(e) # {}
          /\ Reads(r, e, "convert", n)

ConvertToOrder(r) ==
    LET q == request[r] IN
    /\ At(r, "convert")
    /\ Len(orders) < MaxOrders
    /\ orders' = Append(orders, [enquiry |-> q.enquiry, known |-> q.known])
    /\ converted' = [converted EXCEPT ![q.enquiry] = Len(orders) + 1]
    /\ SetStatus(q.enquiry, "ORDER_CREATED")
    /\ quotation' = IF q.number = 0 THEN quotation
                    ELSE [quotation EXCEPT ![q.number].status = "ACCEPTED"]
    /\ Goto(r, Idle)

Next ==
    \/ \E e \in Enquiries :
          \/ CreateEnquiry(e) \/ AssignExecutive(e) \/ UpdateStatus(e)
          \/ Reject(e) \/ Cancel(e)
          \/ \E r \in Requests :
                \/ CancelEnquiryRead(r, e) \/ CreateQuotationRead(r, e)
                \/ ConvertToOrderRead(r, e)
    \/ \E n \in Numbers : UpdateQuotationStatus(n)
    \/ \E r \in Requests :
          \/ CancelEnquiry(r) \/ NextQuotationNumber(r) \/ CreateQuotation(r)
          \/ ConvertToOrder(r)

-----------------------------------------------------------------------------
OrdersOf(e) == {i \in 1..Len(orders) : orders[i].enquiry = e}

(* An enquiry becomes an order once, whatever the staff make of its status   *)
(* and quotations afterwards: a second order is made only by a request that  *)
(* had read the enquiry before the first order was written (convertToOrder   *)
(* asks for convertedOrderId outside its transaction). The enquiry always    *)
(* names the last of its orders.                                             *)
OrderedOnce ==
    /\ TypeOK
    /\ \A e \in Enquiries :
          /\ \A i, j \in OrdersOf(e) : i < j => orders[j].known < i
          /\ IF OrdersOf(e) = {} THEN converted[e] = 0
             ELSE converted[e] \in OrdersOf(e) /\ \A i \in OrdersOf(e) : i <= converted[e]
=============================================================================
