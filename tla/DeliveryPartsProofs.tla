------------------------ MODULE DeliveryPartsProofs ------------------------
(***************************************************************************)
(* Proofs about the components that share a run with the delivery slots:   *)
(* bulk enquiries, support tickets, the price list, the cart, the push     *)
(* campaigns, the windows of delivery and the vehicles, for every number   *)
(* of requests and servers and every value of the other constants.         *)
(*                                                                         *)
(* An invariant says what a request still knows of what it has read; it is *)
(* stated of the instance's variables, and holds while that instance moves *)
(* (part).                                                                 *)
(***************************************************************************)
EXTENDS MC_DeliverySlots, SumLaws, SequenceTheorems

(* A set of numbers with a bound has a largest one. *)
LEMMA LargestExists ==
    ASSUME NEW n \in Nat, NEW S \in SUBSET (1..n), S # {}
    PROVE  \E m \in S : \A k \in S : k <= m
<1> DEFINE G == {b \in Nat : \A T \in SUBSET (1..b) :
                                T # {} => \E m \in T : \A k \in T : k <= m}
<1>1. 0 \in G
  <2>1. 1..0 = {}
    OBVIOUS
  <2> QED BY <2>1
<1>2. ASSUME NEW b \in Nat, b \in G
      PROVE  b + 1 \in G
  <2> SUFFICES ASSUME NEW T \in SUBSET (1..(b + 1)), T # {}
               PROVE  \E m \in T : \A k \in T : k <= m
    OBVIOUS
  <2>1. CASE b + 1 \in T
    <3>1. \A k \in T : k <= b + 1
      OBVIOUS
    <3> QED BY <2>1, <3>1
  <2>2. CASE b + 1 \notin T
    <3>1. T \in SUBSET (1..b)
      BY <2>2
    <3> QED BY <1>2, <3>1
  <2> QED BY <2>1, <2>2
<1> HIDE DEF G
<1>3. n \in G
  BY <1>1, <1>2, NumberInduction
<1> QED BY <1>3 DEF G

-----------------------------------------------------------------------------
(* Bulk enquiries.  A request that goes to write an order has read that the   *)
(* enquiry had none: every order made of it since is newer than that.         *)

BulkFrame ==
    [pc      : {"idle", "cancel", "number", "insert", "convert"},
     enquiry : Enquiries \cup {0},
     seen    : Bulk!BulkEnquiryStatus \cup {"none"},
     number  : 0..(MaxQuotations + 1),
     known   : 0..MaxOrders]
BulkOrder == [enquiry : Enquiries, known : 0..MaxOrders]
Quotation == [enquiry : Enquiries \cup {0}, status : Bulk!BulkQuotationStatus \cup {"none"}]

BulkTypeOK ==
    /\ enquiryStatus \in [Enquiries -> Bulk!BulkEnquiryStatus \cup {"none"}]
    /\ converted \in [Enquiries -> 0..MaxOrders]
    /\ quotation \in [Bulk!Numbers -> Quotation]
    /\ bulkOrders \in Seq(BulkOrder)
    /\ staffRequest \in [Requests -> BulkFrame]
    /\ Len(bulkOrders) <= MaxOrders

OneOrder(e) ==
    /\ \A i, j \in Bulk!OrdersOf(e) : i < j => bulkOrders[j].known < i
    /\ IF Bulk!OrdersOf(e) = {} THEN converted[e] = 0
       ELSE /\ converted[e] \in Bulk!OrdersOf(e)
            /\ \A i \in Bulk!OrdersOf(e) : i <= converted[e]

Unordered(q) ==
    /\ q.pc # "idle" => q.enquiry \in Enquiries
    /\ q.pc = "convert" => /\ q.known <= Len(bulkOrders)
                           /\ \A i \in Bulk!OrdersOf(q.enquiry) : q.known < i

BulkSound ==
    /\ BulkTypeOK
    /\ \A e \in Enquiries : OneOrder(e)
    /\ \A r \in Requests : Unordered(staffRequest[r])

LEMMA BulkFits ==
    /\ 0 \notin Enquiries
    /\ StaffChoices \subseteq Bulk!BulkEnquiryStatus
    /\ QuotationChoices \subseteq Bulk!BulkQuotationStatus
    /\ MaxQuotations \in Nat
    /\ MaxOrders \in Nat
  BY BulkAssumption DEF Bulk!ConstantsFit

LEMMA BulkImplies == BulkSound => Bulk!OrderedOnce
  BY DEF BulkSound, BulkTypeOK, OneOrder, Bulk!OrderedOnce, Bulk!TypeOK, BulkFrame, BulkOrder,
         Quotation

LEMMA IdleStaff == Bulk!Idle \in BulkFrame /\ Bulk!Idle.pc = "idle"
  BY BulkFits DEF Bulk!Idle, BulkFrame

(* While no order is made, an enquiry keeps those it has, and a request what  *)
(* it knows; it may go on as q.                                               *)
LEMMA NoOrderStep ==
    ASSUME BulkSound, UNCHANGED <<bulkOrders, converted>>,
           enquiryStatus' \in [Enquiries -> Bulk!BulkEnquiryStatus \cup {"none"}],
           quotation' \in [Bulk!Numbers -> Quotation],
           \/ staffRequest' = staffRequest
           \/ \E r \in Requests, q \in BulkFrame :
                 /\ staffRequest' = [staffRequest EXCEPT ![r] = q]
                 /\ Unordered(q)
    PROVE  BulkSound'
<1>1. \A e : Bulk!OrdersOf(e)' = Bulk!OrdersOf(e)
  BY DEF Bulk!OrdersOf
<1>2. \A e \in Enquiries : OneOrder(e)'
  BY <1>1 DEF BulkSound, OneOrder
<1>3. staffRequest' \in [Requests -> BulkFrame]
  BY DEF BulkSound, BulkTypeOK
<1>4. \A r \in Requests : Unordered(staffRequest'[r])
  BY DEF BulkSound, BulkTypeOK
<1>5. \A r \in Requests : Unordered(staffRequest[r])'
  BY <1>1, <1>4 DEF Unordered
<1> QED BY <1>2, <1>3, <1>5 DEF BulkSound, BulkTypeOK

LEMMA BulkReadStep ==
    ASSUME BulkSound, NEW r \in Requests, NEW e \in Enquiries,
           NEW pc \in {"cancel", "number", "convert"}, NEW n \in 0..MaxQuotations,
           pc = "convert" => Bulk!OrdersOf(e) = {},
           Bulk!Reads(r, e, pc, n)
    PROVE  BulkSound'
<1> DEFINE q == [pc |-> pc, enquiry |-> e, seen |-> enquiryStatus[e], number |-> n,
                 known |-> Len(bulkOrders)]
<1>1. q \in BulkFrame
  BY BulkFits DEF BulkFrame, BulkSound, BulkTypeOK
<1>2. Unordered(q)
  BY DEF Unordered
<1>3. staffRequest' = [staffRequest EXCEPT ![r] = q]
  BY DEF Bulk!Reads, Bulk!Goto
<1> HIDE DEF q
<1>4. UNCHANGED <<enquiryStatus, converted, quotation, bulkOrders>>
  BY DEF Bulk!Reads
<1> QED BY <1>1, <1>2, <1>3, <1>4, NoOrderStep DEF BulkSound, BulkTypeOK

(* What is known of the request that moves. *)
LEMMA StaffFrame ==
    ASSUME BulkSound, NEW r \in Requests, staffRequest[r].pc # "idle"
    PROVE  /\ staffRequest[r] \in BulkFrame /\ Unordered(staffRequest[r])
           /\ staffRequest[r].enquiry \in Enquiries
  BY DEF BulkSound, BulkTypeOK, Unordered

(* The staff's and the customer's steps that write the status of one enquiry. *)
LEMMA StatusOnlyStep ==
    ASSUME BulkSound, NEW e \in Enquiries, NEW s \in Bulk!BulkEnquiryStatus,
           Bulk!SetStatus(e, s), UNCHANGED <<converted, quotation, bulkOrders>>,
           \/ staffRequest' = staffRequest
           \/ \E r \in Requests : staffRequest' = [staffRequest EXCEPT ![r] = Bulk!Idle]
    PROVE  BulkSound'
<1>1. enquiryStatus' \in [Enquiries -> Bulk!BulkEnquiryStatus \cup {"none"}]
  BY DEF BulkSound, BulkTypeOK, Bulk!SetStatus
<1>2. Unordered(Bulk!Idle)
  BY IdleStaff DEF Unordered
<1>3. quotation' \in [Bulk!Numbers -> Quotation]
  BY DEF BulkSound, BulkTypeOK
<1> QED BY <1>1, <1>2, <1>3, IdleStaff, NoOrderStep

LEMMA NextNumberStep ==
    ASSUME BulkSound, NEW r \in Requests, Bulk!NextQuotationNumber(r)
    PROVE  BulkSound'
<1> DEFINE last == IF Bulk!Written = {} THEN 0
                   ELSE CHOOSE n \in Bulk!Written : \A m \in Bulk!Written : m <= n
           q == [staffRequest[r] EXCEPT !.pc = "insert", !.number = last + 1]
<1>1. staffRequest' = [staffRequest EXCEPT ![r] = q]
  BY DEF Bulk!NextQuotationNumber, Bulk!Goto
<1>2. last \in 0..MaxQuotations
  <2>1. Bulk!Written \in SUBSET (1..MaxQuotations)
    BY DEF Bulk!Written, Bulk!Numbers
  <2>2. CASE Bulk!Written = {}
    BY <2>2, BulkFits
  <2>3. CASE Bulk!Written # {}
    <3>1. \E n \in Bulk!Written : \A m \in Bulk!Written : m <= n
      BY <2>1, <2>3, LargestExists, BulkFits
    <3>2. last \in Bulk!Written
      BY <2>3, <3>1
    <3> HIDE DEF last
    <3> QED BY <2>1, <3>2, BulkFits
  <2> QED BY <2>2, <2>3
<1> HIDE DEF last
<1>3. staffRequest[r] \in BulkFrame /\ Unordered(staffRequest[r])
      /\ staffRequest[r].enquiry \in Enquiries
  BY StaffFrame DEF Bulk!NextQuotationNumber, Bulk!At
<1>4. q \in BulkFrame
  <2>1. last + 1 \in 0..(MaxQuotations + 1)
    BY <1>2, BulkFits
  <2> QED BY <1>3, <2>1 DEF BulkFrame
<1>5. Unordered(q)
  BY <1>3 DEF Unordered, BulkFrame
<1>6. UNCHANGED <<enquiryStatus, converted, quotation, bulkOrders>>
  BY DEF Bulk!NextQuotationNumber
<1> HIDE DEF q
<1> QED BY <1>1, <1>4, <1>5, <1>6, NoOrderStep DEF BulkSound, BulkTypeOK

LEMMA CreateQuotationStep ==
    ASSUME BulkSound, NEW r \in Requests, Bulk!CreateQuotation(r)
    PROVE  BulkSound'
<1>1. PICK q \in BulkFrame : q = staffRequest[r] /\ q.enquiry \in Enquiries
  BY StaffFrame DEF Bulk!CreateQuotation, Bulk!At
<1>2. /\ staffRequest' = [staffRequest EXCEPT ![r] = Bulk!Idle]
      /\ UNCHANGED <<converted, bulkOrders>>
  BY DEF Bulk!CreateQuotation, Bulk!Goto
<1>3. Unordered(Bulk!Idle)
  BY IdleStaff DEF Unordered
<1>4. enquiryStatus' \in [Enquiries -> Bulk!BulkEnquiryStatus \cup {"none"}]
  <2>1. q.seen \in Bulk!BulkEnquiryStatus \cup {"none"}
    BY DEF BulkFrame
  <2>2. \/ enquiryStatus' = enquiryStatus
        \/ enquiryStatus' = [enquiryStatus EXCEPT ![q.enquiry] = "QUOTE_PREPARED"]
        \/ enquiryStatus' = [enquiryStatus EXCEPT ![q.enquiry] = q.seen]
    BY <1>1 DEF Bulk!CreateQuotation, Bulk!SetStatus
  <2>3. "QUOTE_PREPARED" \in Bulk!BulkEnquiryStatus
    BY DEF Bulk!BulkEnquiryStatus
  <2> QED BY <2>1, <2>2, <2>3 DEF BulkSound, BulkTypeOK
<1>5. quotation' \in [Bulk!Numbers -> Quotation]
  <2>1. [enquiry |-> q.enquiry, status |-> "DRAFT"] \in Quotation
    BY <1>1 DEF Quotation, Bulk!BulkQuotationStatus
  <2>2. \/ quotation' = quotation
        \/ quotation' = [quotation EXCEPT ![q.number] = [enquiry |-> q.enquiry, status |-> "DRAFT"]]
    BY <1>1 DEF Bulk!CreateQuotation
  <2> QED BY <2>1, <2>2 DEF BulkSound, BulkTypeOK
<1> QED BY <1>2, <1>3, <1>4, <1>5, IdleStaff, NoOrderStep

(* The status of one quotation becomes s. *)
LEMMA QuotationTyped ==
    ASSUME BulkSound, NEW n, NEW s \in Bulk!BulkQuotationStatus
    PROVE  [quotation EXCEPT ![n].status = s] \in [Bulk!Numbers -> Quotation]
<1>1. quotation \in [Bulk!Numbers -> Quotation]
  BY DEF BulkSound, BulkTypeOK
<1>2. \A m \in Bulk!Numbers : [quotation[m] EXCEPT !.status = s] \in Quotation
  BY <1>1 DEF Quotation
<1> QED BY <1>1, <1>2

LEMMA UpdateQuotationStep ==
    ASSUME BulkSound, NEW n \in Bulk!Numbers, Bulk!UpdateQuotationStatus(n)
    PROVE  BulkSound'
<1>1. PICK s \in QuotationChoices :
          /\ quotation' = [quotation EXCEPT ![n].status = s]
          /\ CASE s = "SENT" -> Bulk!SetStatus(quotation[n].enquiry, "QUOTE_SENT")
               [] s = "ACCEPTED" -> Bulk!SetStatus(quotation[n].enquiry, "NEGOTIATION")
               [] OTHER -> UNCHANGED enquiryStatus
  BY DEF Bulk!UpdateQuotationStatus
<1>2. s \in Bulk!BulkQuotationStatus
  BY BulkFits
<1>3. quotation' \in [Bulk!Numbers -> Quotation]
  BY <1>1, <1>2, QuotationTyped
<1>4. enquiryStatus' \in [Enquiries -> Bulk!BulkEnquiryStatus \cup {"none"}]
  <2>1. \/ enquiryStatus' = enquiryStatus
        \/ Bulk!SetStatus(quotation[n].enquiry, "QUOTE_SENT")
        \/ Bulk!SetStatus(quotation[n].enquiry, "NEGOTIATION")
    BY <1>1
  <2>2. {"QUOTE_SENT", "NEGOTIATION"} \subseteq Bulk!BulkEnquiryStatus
    BY DEF Bulk!BulkEnquiryStatus
  <2> QED BY <2>1, <2>2 DEF BulkSound, BulkTypeOK, Bulk!SetStatus
<1> QED BY <1>3, <1>4, NoOrderStep DEF Bulk!UpdateQuotationStatus

(* The order is the newest of its enquiry, and newer than all that any        *)
(* request knew when it read.                                                 *)
LEMMA ConvertStep ==
    ASSUME BulkSound, NEW r \in Requests, Bulk!ConvertToOrder(r)
    PROVE  BulkSound'
<1>1. PICK q \in BulkFrame : /\ q = staffRequest[r] /\ q.pc = "convert"
                             /\ q.enquiry \in Enquiries /\ Unordered(q)
  BY StaffFrame DEF Bulk!ConvertToOrder, Bulk!At
<1> DEFINE n == Len(bulkOrders)
           o == [enquiry |-> q.enquiry, known |-> q.known]
<1>2. /\ n < MaxOrders
      /\ bulkOrders' = Append(bulkOrders, o)
      /\ converted' = [converted EXCEPT ![q.enquiry] = n + 1]
      /\ enquiryStatus' = [enquiryStatus EXCEPT ![q.enquiry] = "ORDER_CREATED"]
      /\ staffRequest' = [staffRequest EXCEPT ![r] = Bulk!Idle]
      /\ quotation' = quotation \/ quotation' = [quotation EXCEPT ![q.number].status = "ACCEPTED"]
  BY <1>1 DEF Bulk!ConvertToOrder, Bulk!SetStatus, Bulk!Goto
<1>3. /\ n \in Nat /\ q.known \in 0..MaxOrders /\ o \in BulkOrder
      /\ bulkOrders \in Seq(BulkOrder) /\ converted \in [Enquiries -> 0..MaxOrders]
  BY <1>1 DEF BulkSound, BulkTypeOK, BulkFrame, BulkOrder
<1> HIDE DEF o
<1>4. /\ bulkOrders' \in Seq(BulkOrder) /\ Len(bulkOrders') = n + 1
      /\ \A i \in 1..n : bulkOrders'[i] = bulkOrders[i]
      /\ bulkOrders'[n + 1] = o
  BY <1>2, <1>3
<1>5. o.enquiry = q.enquiry /\ o.known = q.known
  BY DEF o
<1> HIDE DEF n
<1>n. n = Len(bulkOrders)
  BY DEF n
<1>6. /\ Bulk!OrdersOf(q.enquiry)' = Bulk!OrdersOf(q.enquiry) \cup {n + 1}
      /\ \A e \in Enquiries \ {q.enquiry} : Bulk!OrdersOf(e)' = Bulk!OrdersOf(e)
      /\ \A e : Bulk!OrdersOf(e) \subseteq 1..n
  BY <1>3, <1>4, <1>5, <1>n DEF Bulk!OrdersOf
<1>7. \A e \in Enquiries : OneOrder(e)'
  <2> SUFFICES ASSUME NEW e \in Enquiries
               PROVE  OneOrder(e)'
    OBVIOUS
  <2>0. OneOrder(e)
    BY DEF BulkSound
  <2>1. CASE e # q.enquiry
    <3>1. Bulk!OrdersOf(e)' = Bulk!OrdersOf(e) /\ converted'[e] = converted[e]
      BY <1>2, <1>3, <1>6, <2>1
    <3>2. \A i \in Bulk!OrdersOf(e) : bulkOrders'[i] = bulkOrders[i]
      BY <1>4, <1>6
    <3> QED BY <2>0, <3>1, <3>2 DEF OneOrder
  <2>2. CASE e = q.enquiry
    <3>1. Bulk!OrdersOf(e)' = Bulk!OrdersOf(e) \cup {n + 1} /\ converted'[e] = n + 1
      BY <1>2, <1>3, <1>6, <2>2
    <3>2. \A i \in Bulk!OrdersOf(e) : /\ bulkOrders'[i] = bulkOrders[i]
                                      /\ i \in 1..n /\ q.known < i
      BY <1>1, <1>4, <1>6, <2>2 DEF Unordered
    <3>3. \A i, j \in Bulk!OrdersOf(e)' : i < j => bulkOrders'[j].known < i
      <4> SUFFICES ASSUME NEW i \in Bulk!OrdersOf(e)', NEW j \in Bulk!OrdersOf(e)', i < j
                   PROVE  bulkOrders'[j].known < i
        OBVIOUS
      <4>1. i \in Bulk!OrdersOf(e)
        BY <1>3, <3>1, <3>2
      <4>2. CASE j = n + 1
        BY <1>4, <1>5, <3>2, <4>1, <4>2
      <4>3. CASE j \in Bulk!OrdersOf(e)
        BY <2>0, <3>2, <4>1, <4>3 DEF OneOrder
      <4> QED BY <3>1, <4>2, <4>3
    <3>4. \A i \in Bulk!OrdersOf(e)' : i <= n + 1
      BY <1>3, <3>1, <3>2
    <3> QED BY <3>1, <3>3, <3>4 DEF OneOrder
  <2> QED BY <2>1, <2>2
<1>8. /\ staffRequest' \in [Requests -> BulkFrame]
      /\ \A v \in Requests : Unordered(staffRequest[v])'
  <2>1. \A v \in Requests : staffRequest'[v] = staffRequest[v] \/ staffRequest'[v] = Bulk!Idle
    BY <1>2 DEF BulkSound, BulkTypeOK
  <2>2. ASSUME NEW v \in Requests, staffRequest'[v] = staffRequest[v]
        PROVE  Unordered(staffRequest[v])'
    <3>1. /\ Unordered(staffRequest[v]) /\ staffRequest[v] \in BulkFrame
          /\ staffRequest[v].known \in 0..MaxOrders
      BY DEF BulkSound, BulkTypeOK, BulkFrame
    <3>2. staffRequest[v].pc = "convert" =>
              /\ staffRequest[v].known <= n /\ staffRequest[v].known <= n + 1
              /\ staffRequest[v].known < n + 1
      BY <1>3, <1>n, <3>1 DEF Unordered
    <3>3. CASE staffRequest[v].enquiry = q.enquiry
      BY <1>4, <1>6, <2>2, <3>1, <3>2, <3>3 DEF Unordered
    <3>4. CASE staffRequest[v].enquiry # q.enquiry
      BY <1>4, <1>6, <2>2, <3>1, <3>2, <3>4 DEF Unordered
    <3> QED BY <3>3, <3>4
  <2>3. ASSUME NEW v \in Requests, staffRequest'[v] = Bulk!Idle
        PROVE  Unordered(staffRequest[v])'
    BY <2>3, IdleStaff DEF Unordered
  <2>4. staffRequest' \in [Requests -> BulkFrame]
    BY <1>2, IdleStaff DEF BulkSound, BulkTypeOK
  <2> QED BY <2>1, <2>2, <2>3, <2>4
<1>9. /\ enquiryStatus' \in [Enquiries -> Bulk!BulkEnquiryStatus \cup {"none"}]
      /\ converted' \in [Enquiries -> 0..MaxOrders]
  <2>1. "ORDER_CREATED" \in Bulk!BulkEnquiryStatus
    BY DEF Bulk!BulkEnquiryStatus
  <2>2. n + 1 \in 0..MaxOrders
    BY <1>2, <1>3, BulkFits
  <2> QED BY <1>2, <2>1, <2>2 DEF BulkSound, BulkTypeOK
<1>10. quotation' \in [Bulk!Numbers -> Quotation]
  <2>1. "ACCEPTED" \in Bulk!BulkQuotationStatus
    BY DEF Bulk!BulkQuotationStatus
  <2>2. quotation \in [Bulk!Numbers -> Quotation]
    BY DEF BulkSound, BulkTypeOK
  <2> QED BY <1>2, <2>1, <2>2, QuotationTyped
<1>11. Len(bulkOrders') <= MaxOrders
  BY <1>2, <1>3, <1>4, BulkFits
<1> QED BY <1>4, <1>7, <1>8, <1>9, <1>10, <1>11 DEF BulkSound, BulkTypeOK

LEMMA InitBulk ==
    ASSUME Bulk!Init
    PROVE  BulkSound
<1>1. BulkTypeOK
  <2>1. Bulk!Nothing \in Quotation
    BY DEF Bulk!Nothing, Quotation
  <2>2. bulkOrders \in Seq(BulkOrder) /\ Len(bulkOrders) = 0
    BY DEF Bulk!Init
  <2> QED BY <2>1, <2>2, IdleStaff, BulkFits DEF Bulk!Init, BulkTypeOK
<1>2. \A e : Bulk!OrdersOf(e) = {}
  BY DEF Bulk!Init, Bulk!OrdersOf
<1>3. \A e \in Enquiries : OneOrder(e)
  BY <1>2 DEF OneOrder, Bulk!Init
<1>4. \A r \in Requests : Unordered(staffRequest[r])
  BY IdleStaff DEF Unordered, Bulk!Init
<1> QED BY <1>1, <1>3, <1>4 DEF BulkSound

LEMMA NextBulk ==
    ASSUME BulkSound, [Bulk!Next]_bulkVars
    PROVE  BulkSound'
<1>1. ASSUME NEW e \in Enquiries,
             \/ Bulk!CreateEnquiry(e) \/ Bulk!AssignExecutive(e) \/ Bulk!UpdateStatus(e)
             \/ Bulk!Reject(e) \/ Bulk!Cancel(e)
      PROVE  BulkSound'
  <2>1. {"NEW", "ASSIGNED", "REJECTED", "CANCELLED"} \cup StaffChoices \subseteq Bulk!BulkEnquiryStatus
    BY BulkFits DEF Bulk!BulkEnquiryStatus
  <2>2. \E s \in Bulk!BulkEnquiryStatus :
           Bulk!SetStatus(e, s) /\ UNCHANGED <<converted, quotation, bulkOrders, staffRequest>>
    BY <1>1, <2>1 DEF Bulk!CreateEnquiry, Bulk!AssignExecutive, Bulk!UpdateStatus, Bulk!Reject,
       Bulk!Cancel, Bulk!StaffWrites
  <2> QED BY <2>2, StatusOnlyStep
<1>2. ASSUME NEW e \in Enquiries, NEW r \in Requests,
             Bulk!CancelEnquiryRead(r, e) \/ Bulk!CreateQuotationRead(r, e)
      PROVE  BulkSound'
  <2>1. \E pc \in {"cancel", "number"} : Bulk!Reads(r, e, pc, 0)
    BY <1>2 DEF Bulk!CancelEnquiryRead, Bulk!CreateQuotationRead
  <2>2. 0 \in 0..MaxQuotations
    BY BulkFits
  <2> QED BY <2>1, <2>2, BulkReadStep
<1>3. ASSUME NEW e \in Enquiries, NEW r \in Requests, Bulk!ConvertToOrderRead(r, e)
      PROVE  BulkSound'
  <2>1. PICK n \in Bulk!Accepted(e) \cup {0} : Bulk!Reads(r, e, "convert", n)
    BY <1>3 DEF Bulk!ConvertToOrderRead
  <2>2. n \in 0..MaxQuotations
    BY BulkFits DEF Bulk!Accepted, Bulk!Written, Bulk!Numbers
  <2>3. Bulk!OrdersOf(e) = {}
    <3>1. converted[e] = 0 /\ OneOrder(e)
      BY <1>3 DEF Bulk!ConvertToOrderRead, Bulk!Convertible, BulkSound
    <3> QED BY <3>1 DEF OneOrder, Bulk!OrdersOf
  <2> QED BY <2>1, <2>2, <2>3, BulkReadStep
<1>4. ASSUME NEW r \in Requests, Bulk!CancelEnquiry(r)
      PROVE  BulkSound'
  <2>1. staffRequest[r].enquiry \in Enquiries
    BY <1>4, StaffFrame DEF Bulk!CancelEnquiry, Bulk!At
  <2>2. "CANCELLED" \in Bulk!BulkEnquiryStatus
    BY DEF Bulk!BulkEnquiryStatus
  <2> QED BY <1>4, <2>1, <2>2, StatusOnlyStep DEF Bulk!CancelEnquiry, Bulk!Goto
<1>5. ASSUME NEW n \in Bulk!Numbers, Bulk!UpdateQuotationStatus(n)
      PROVE  BulkSound'
  BY <1>5, UpdateQuotationStep
<1>6. ASSUME NEW r \in Requests,
             Bulk!NextQuotationNumber(r) \/ Bulk!CreateQuotation(r) \/ Bulk!ConvertToOrder(r)
      PROVE  BulkSound'
  BY <1>6, NextNumberStep, CreateQuotationStep, ConvertStep
<1>7. CASE UNCHANGED bulkVars
  <2>1. \A e : Bulk!OrdersOf(e)' = Bulk!OrdersOf(e)
    BY <1>7 DEF bulkVars, Bulk!OrdersOf
  <2> QED BY <1>7, <2>1 DEF bulkVars, BulkSound, BulkTypeOK, OneOrder, Unordered
<1> QED BY <1>1, <1>2, <1>3, <1>4, <1>5, <1>6, <1>7 DEF Bulk!Next

(* An enquiry becomes an order once, whatever the staff make of its status    *)
(* and its quotations: any further order is made by a request that had read   *)
(* the enquiry before the one before it was written (convertToOrder).         *)
THEOREM EnquiryOrderedOnce == PartsSpec => []OrderedOnce
<1> DEFINE Inv == part = "enquiries" => BulkSound
<1>1. PartsInit => Inv
  BY InitBulk DEF PartsInit
<1>2. Inv /\ [PartsNext]_<<part, vars, ownVars>> => Inv'
  <2> SUFFICES ASSUME Inv, [PartsNext]_<<part, vars, ownVars>>, part' = "enquiries"
               PROVE  BulkSound'
    OBVIOUS
  <2>1. part = "enquiries"
    BY DEF PartsNext
  <2>2. [Bulk!Next]_bulkVars
    BY <2>1 DEF PartsNext, ownVars
  <2> QED BY <2>1, <2>2, NextBulk
<1>3. Inv => OrderedOnce
  BY BulkImplies DEF OrderedOnce
<1> QED BY <1>1, <1>2, <1>3, PTL DEF PartsSpec

-----------------------------------------------------------------------------
(* Support tickets.  The newest n messages of a reader are those that at most *)
(* n of his messages are not older than.                                      *)

Newest(all, n) == {i \in all : Cardinality({j \in all : j >= i}) <= n}

LEMMA SameCardinality == \A S : Ticket!Cardinality(S) = Cardinality(S)
  BY DEF Ticket!Cardinality, Ticket!IsFiniteSet, Cardinality, IsFiniteSet

LEMMA NewestNone ==
    ASSUME NEW n \in Nat, NEW all \in SUBSET (1..n)
    PROVE  Newest(all, 0) = {}
<1> SUFFICES ASSUME NEW i \in all
             PROVE  ~(Cardinality({j \in all : j >= i}) <= 0)
  BY DEF Newest
<1> DEFINE after == {j \in all : j >= i}
<1>1. after \in SUBSET (1..n) /\ i \in after
  <2>1. after \subseteq all /\ all \subseteq 1..n
    OBVIOUS
  <2>2. i >= i
    OBVIOUS
  <2>3. i \in after
    BY <2>2
  <2> QED BY <2>1, <2>3
<1> HIDE DEF after
<1>2. IsFiniteSet(after)
  <2>1. IsFiniteSet(1..n)
    BY FS_Interval
  <2> QED BY <1>1, <2>1, FS_Subset
<1>3. Cardinality(after) \in Nat /\ Cardinality(after) # 0
  BY <1>1, <1>2, FS_CardinalityType, FS_EmptySet
<1> QED BY <1>3 DEF after

(* With a newer message and a higher count, the newest are those that were    *)
(* and the newer one.                                                         *)
LEMMA NewestGrows ==
    ASSUME NEW n \in Nat, NEW all \in SUBSET (1..n), NEW k \in Nat
    PROVE  /\ Newest(all \cup {n + 1}, k + 1) = Newest(all, k) \cup {n + 1}
           /\ IsFiniteSet(Newest(all, k))
           /\ Cardinality(Newest(all, k)) <= n
           /\ Cardinality(Newest(all, k) \cup {n + 1}) = Cardinality(Newest(all, k)) + 1
<1> DEFINE more == all \cup {n + 1}
           After(i) == {j \in all : j >= i}
<1>1. IsFiniteSet(1..n) /\ Cardinality(1..n) = n
  BY FS_Interval
<1>2. ASSUME NEW i \in all
      PROVE  Cardinality({j \in more : j >= i}) <= k + 1 <=> Cardinality(After(i)) <= k
  <2>1. {j \in more : j >= i} = After(i) \cup {n + 1} /\ n + 1 \notin After(i)
    OBVIOUS
  <2>2. After(i) \in SUBSET (1..n)
    OBVIOUS
  <2> HIDE DEF After
  <2>3. IsFiniteSet(After(i)) /\ Cardinality(After(i)) \in Nat
    BY <1>1, <2>2, FS_Subset, FS_CardinalityType
  <2>4. Cardinality(After(i) \cup {n + 1}) = Cardinality(After(i)) + 1
    BY <2>1, <2>3, FS_AddElement
  <2> QED BY <2>1, <2>3, <2>4
<1>3. Cardinality({j \in more : j >= n + 1}) <= k + 1
  <2>1. {j \in more : j >= n + 1} = {n + 1}
    <3>1. \A j \in all : ~(j >= n + 1)
      OBVIOUS
    <3>2. n + 1 >= n + 1
      OBVIOUS
    <3> QED BY <3>1, <3>2
  <2> QED BY <2>1, FS_Singleton
<1>4. Newest(more, k + 1) = Newest(all, k) \cup {n + 1}
  BY <1>2, <1>3 DEF Newest
<1>5. Newest(all, k) \in SUBSET (1..n)
  BY DEF Newest
<1>6. IsFiniteSet(Newest(all, k)) /\ Cardinality(Newest(all, k)) <= n
  BY <1>1, <1>5, FS_Subset
<1>7. n + 1 \notin Newest(all, k)
  BY <1>5
<1> QED BY <1>4, <1>6, <1>7, FS_AddElement

-----------------------------------------------------------------------------
Message == [from : Ticket!Parties, read : BOOLEAN, during : BOOLEAN]
TicketFrame ==
    [pc       : {"idle", "send", "assign", "status", "reopen", "mark", "counter"},
     party    : Ticket!Parties,
     internal : BOOLEAN,
     seen     : Ticket!SupportTicketStatus,
     next     : Ticket!SupportTicketStatus,
     upTo     : Nat,
     stale    : BOOLEAN]

TicketTypeOK ==
    /\ ticketStatus \in Ticket!SupportTicketStatus
    /\ resolved \in BOOLEAN /\ closed \in BOOLEAN /\ patched \in BOOLEAN
    /\ unread \in [Ticket!Parties -> 0..MaxMessages]
    /\ message \in Seq(Message)
    /\ Len(message) <= MaxMessages
    /\ ticketRequest \in [Requests -> TicketFrame]

For(reader) == {i \in 1..Len(message) : Ticket!Reader(message[i].from) = reader}

Counted(reader) ==
    LET newest == Newest(For(reader), unread[reader]) IN
    /\ Cardinality(newest) = unread[reader]
    /\ newest \subseteq Ticket!Unread(reader)
    /\ \A i \in Ticket!Unread(reader) \ newest : message[i].during

(* What request q knows of the ticket, unless it was written since; and who   *)
(* is marking messages has seen all that were not sent meanwhile.             *)
KnowsTicket(q) ==
    /\ q.pc = "assign" /\ ~q.stale => q.seen = ticketStatus
    /\ q.pc = "send" /\ ~q.stale /\ ticketStatus = "CLOSED" => q.internal
    /\ q.pc = "status" /\ ~q.stale /\ ticketStatus = "CLOSED" =>
          q.next \in {"CLOSED", "OPEN", "REOPENED"}
    /\ q.pc = "counter" => \A i \in For(q.party) : i > q.upTo => message[i].during

TicketSound ==
    /\ TicketTypeOK
    /\ Ticket!TimesFitStatus
    /\ \A reader \in Ticket!Parties : Counted(reader)
    /\ \A r \in Requests : KnowsTicket(ticketRequest[r])

LEMMA TicketFits ==
    StatusChoices \subseteq Ticket!SupportTicketStatus /\ MaxMessages \in Nat \ {0}
  BY TicketAssumption DEF Ticket!ConstantsFit

LEMMA TicketImplies == TicketSound => Ticket!TicketHolds
<1> SUFFICES ASSUME TicketSound
             PROVE  Ticket!TicketHolds
  OBVIOUS
<1>1. Ticket!TypeOK
  BY DEF TicketSound, TicketTypeOK, Ticket!TypeOK, TicketFrame, Message
<1>2. Ticket!UnreadIsCounted
  BY SameCardinality DEF TicketSound, Counted, Newest, For, Ticket!UnreadIsCounted
<1>3. Ticket!ClosedIsClosed
  BY DEF TicketSound, KnowsTicket, Ticket!ClosedIsClosed
<1> QED BY <1>1, <1>2, <1>3 DEF TicketSound, Ticket!TicketHolds

LEMMA IdleTicket ==
    /\ Ticket!Idle \in TicketFrame /\ Ticket!Idle.pc = "idle" /\ ~Ticket!Idle.stale
    /\ Ticket!Idle.upTo = 0
  BY DEF Ticket!Idle, TicketFrame, Ticket!Parties, Ticket!SupportTicketStatus

(* The messages stay as they are, and so do the counters. *)
LEMMA CountsStay ==
    ASSUME TicketSound, UNCHANGED <<message, unread>>
    PROVE  /\ \A reader \in Ticket!Parties : Counted(reader)'
           /\ \A reader : For(reader)' = For(reader)
<1>1. \A reader : For(reader)' = For(reader) /\ Ticket!Unread(reader)' = Ticket!Unread(reader)
  BY DEF For, Ticket!Unread
<1>2. \A reader \in Ticket!Parties : Counted(reader)'
  <2> SUFFICES ASSUME NEW reader \in Ticket!Parties
               PROVE  Counted(reader)'
    OBVIOUS
  <2>1. Newest(For(reader), unread[reader])' = Newest(For(reader), unread[reader])
    BY <1>1 DEF Newest
  <2> QED BY <1>1, <2>1 DEF Counted, TicketSound
<1> QED BY <1>1, <1>2

(* A request goes on as q, and nothing else happens. *)
LEMMA TicketFrameStep ==
    ASSUME TicketSound, NEW r \in Requests, NEW q \in TicketFrame, KnowsTicket(q),
           ticketRequest' = [ticketRequest EXCEPT ![r] = q],
           UNCHANGED <<ticketStatus, resolved, closed, patched, unread, message>>
    PROVE  TicketSound'
<1>1. /\ \A reader \in Ticket!Parties : Counted(reader)'
      /\ \A reader : For(reader)' = For(reader)
  BY CountsStay
<1>2. ticketRequest' \in [Requests -> TicketFrame]
  BY DEF TicketSound, TicketTypeOK
<1>3. \A v \in Requests : KnowsTicket(ticketRequest'[v])
  BY DEF TicketSound, TicketTypeOK
<1>4. \A v \in Requests : KnowsTicket(ticketRequest[v])'
  BY <1>1, <1>3 DEF KnowsTicket
<1> QED BY <1>1, <1>2, <1>4 DEF TicketSound, TicketTypeOK, Ticket!TimesFitStatus

(* After a write: whoever had read the ticket, to write it, is stale.         *)
LEMMA LeavesFrames ==
    ASSUME TicketSound, NEW r \in Requests, NEW pc \in {"idle", "mark"}, Ticket!Leaves(r, pc)
    PROVE  /\ ticketRequest' \in [Requests -> TicketFrame]
           /\ \A v \in Requests :
                 /\ ticketRequest'[v].pc \in {"assign", "send", "status"} => ticketRequest'[v].stale
                 /\ ticketRequest'[v].pc = "counter" =>
                       /\ v # r /\ ticketRequest[v].pc = "counter"
                       /\ ticketRequest'[v].party = ticketRequest[v].party
                       /\ ticketRequest'[v].upTo = ticketRequest[v].upTo
<1> DEFINE mine == [Ticket!Idle EXCEPT !.pc = pc]
           theirs(v) == [ticketRequest[v] EXCEPT !.stale = ticketRequest[v].pc \in Ticket!Writing]
<1>1. mine \in TicketFrame /\ mine.pc = pc
  BY IdleTicket DEF TicketFrame
<1>2. \A v \in Requests : ticketRequest[v] \in TicketFrame
  BY DEF TicketSound, TicketTypeOK
<1>3. \A v \in Requests : /\ theirs(v) \in TicketFrame
                          /\ theirs(v).pc = ticketRequest[v].pc
                          /\ theirs(v).party = ticketRequest[v].party
                          /\ theirs(v).upTo = ticketRequest[v].upTo
                          /\ (theirs(v).stale <=> ticketRequest[v].pc \in Ticket!Writing)
  <2> TAKE v \in Requests
  <2>0. PICK b \in BOOLEAN : b <=> ticketRequest[v].pc \in Ticket!Writing
    OBVIOUS
  <2>1. ticketRequest[v] \in TicketFrame
    BY <1>2
  <2>2. theirs(v) = [ticketRequest[v] EXCEPT !.stale = b]
    BY <2>0
  <2> HIDE DEF theirs
  <2> QED BY <2>0, <2>1, <2>2 DEF TicketFrame
<1>4. ticketRequest' = [v \in Requests |-> IF v = r THEN mine ELSE theirs(v)]
  BY DEF Ticket!Leaves
<1>5. {"assign", "send", "status"} \subseteq Ticket!Writing
  BY DEF Ticket!Writing
<1> HIDE DEF mine, theirs
<1> QED BY <1>1, <1>3, <1>4, <1>5

(* The ticket is written, but no message: its times fit, or it is patched.    *)
LEMMA TicketWriteStep ==
    ASSUME TicketSound, NEW r \in Requests, NEW pc \in {"idle", "mark"}, Ticket!Leaves(r, pc),
           ticketStatus' \in Ticket!SupportTicketStatus,
           resolved' \in BOOLEAN, closed' \in BOOLEAN, patched' \in BOOLEAN,
           Ticket!TimesFitStatus', UNCHANGED <<unread, message>>
    PROVE  TicketSound'
<1>1. /\ \A reader \in Ticket!Parties : Counted(reader)'
      /\ \A reader : For(reader)' = For(reader)
  BY CountsStay
<1>2. \A v \in Requests : KnowsTicket(ticketRequest[v])
  BY DEF TicketSound
<1>3. \A v \in Requests : KnowsTicket(ticketRequest[v])'
  BY <1>1, <1>2, LeavesFrames DEF KnowsTicket
<1> QED BY <1>1, <1>3, LeavesFrames DEF TicketSound, TicketTypeOK

-----------------------------------------------------------------------------
(* The reads. *)

LEMMA SendReadStep ==
    ASSUME TicketSound, NEW r \in Requests, NEW from \in Ticket!Parties, NEW internal \in BOOLEAN,
           Ticket!SendMessageRead(r, from, internal)
    PROVE  TicketSound'
<1> PICK seen \in Ticket!SupportTicketStatus :
        seen = IF from = "customer" THEN ticketStatus ELSE Ticket!Idle.seen
  BY IdleTicket DEF TicketSound, TicketTypeOK, TicketFrame
<1> DEFINE q == [Ticket!Idle EXCEPT !.pc = "send", !.party = from, !.internal = internal,
                                    !.seen = seen]
<1>1. q \in TicketFrame /\ q.pc = "send" /\ q.internal = internal
  BY IdleTicket DEF TicketFrame
<1>2. ticketRequest' = [ticketRequest EXCEPT ![r] = q]
  BY DEF Ticket!SendMessageRead, Ticket!Reads
<1> HIDE DEF q
<1>3. KnowsTicket(q)
  BY <1>1 DEF KnowsTicket, Ticket!SendMessageRead, Ticket!MayReply
<1> QED BY <1>1, <1>2, <1>3, TicketFrameStep DEF Ticket!SendMessageRead, Ticket!Reads, Ticket!ticket

LEMMA StaffReadStep ==
    ASSUME TicketSound, NEW r \in Requests,
           Ticket!AssignExecutiveRead(r) \/ Ticket!UpdateStatusRead(r) \/ Ticket!ReopenRead(r)
    PROVE  TicketSound'
<1>0. /\ Ticket!Idle \in TicketFrame
      /\ ticketStatus \in Ticket!SupportTicketStatus
  BY IdleTicket DEF TicketSound, TicketTypeOK
<1>1. CASE Ticket!AssignExecutiveRead(r)
  <2> DEFINE q == [Ticket!Idle EXCEPT !.pc = "assign", !.seen = ticketStatus]
  <2>1. q \in TicketFrame /\ q.pc = "assign" /\ q.seen = ticketStatus
    BY <1>0 DEF TicketFrame
  <2>2. /\ ticketRequest' = [ticketRequest EXCEPT ![r] = q]
        /\ UNCHANGED <<ticketStatus, resolved, closed, patched, unread, message>>
    BY <1>1 DEF Ticket!AssignExecutiveRead, Ticket!Reads, Ticket!ticket
  <2> HIDE DEF q
  <2>3. KnowsTicket(q)
    BY <2>1 DEF KnowsTicket
  <2> QED BY <2>1, <2>2, <2>3, TicketFrameStep
<1>2. CASE Ticket!UpdateStatusRead(r)
  <2>0. PICK s \in StatusChoices :
            /\ Ticket!ValidStatusTransition(ticketStatus, s)
            /\ Ticket!Reads(r, [Ticket!Idle EXCEPT !.pc = "status", !.next = s])
    BY <1>2 DEF Ticket!UpdateStatusRead
  <2> DEFINE q == [Ticket!Idle EXCEPT !.pc = "status", !.next = s]
  <2>1. q \in TicketFrame /\ q.pc = "status" /\ q.next = s
    BY <1>0, TicketFits DEF TicketFrame
  <2>2. /\ ticketRequest' = [ticketRequest EXCEPT ![r] = q]
        /\ UNCHANGED <<ticketStatus, resolved, closed, patched, unread, message>>
    BY <2>0 DEF Ticket!Reads, Ticket!ticket
  <2> HIDE DEF q
  <2>3. KnowsTicket(q)
    BY <2>0, <2>1 DEF KnowsTicket, Ticket!ValidStatusTransition
  <2> QED BY <2>1, <2>2, <2>3, TicketFrameStep
<1>3. CASE Ticket!ReopenRead(r)
  <2> DEFINE q == [Ticket!Idle EXCEPT !.pc = "reopen"]
  <2>1. q \in TicketFrame /\ q.pc = "reopen"
    BY <1>0 DEF TicketFrame
  <2>2. /\ ticketRequest' = [ticketRequest EXCEPT ![r] = q]
        /\ UNCHANGED <<ticketStatus, resolved, closed, patched, unread, message>>
    BY <1>3 DEF Ticket!ReopenRead, Ticket!Reads, Ticket!ticket
  <2> HIDE DEF q
  <2>3. KnowsTicket(q)
    BY <2>1 DEF KnowsTicket
  <2> QED BY <2>1, <2>2, <2>3, TicketFrameStep
<1> QED BY <1>1, <1>2, <1>3

(* Who begins to mark messages has all of them before him; a note or a        *)
(* failure leaves the ticket alone.                                           *)
LEMMA AsideStep ==
    ASSUME TicketSound, NEW r \in Requests, NEW reader \in Ticket!Parties,
           Ticket!MarkRead(r, reader) \/ Ticket!AddInternalNote(r) \/ Ticket!Fail(r)
    PROVE  TicketSound'
<1>0. Ticket!Idle \in TicketFrame
  BY IdleTicket
<1>1. CASE Ticket!MarkRead(r, reader)
  <2>0. Len(message) \in Nat
    BY DEF TicketSound, TicketTypeOK
  <2> DEFINE q == [Ticket!Idle EXCEPT !.pc = "counter", !.party = reader, !.upTo = Len(message)]
  <2>1. q \in TicketFrame /\ q.pc = "counter" /\ q.upTo = Len(message)
    BY <1>0, <2>0 DEF TicketFrame
  <2>2. /\ ticketRequest' = [ticketRequest EXCEPT ![r] = q]
        /\ UNCHANGED <<ticketStatus, resolved, closed, patched, unread, message>>
    BY <1>1 DEF Ticket!MarkRead, Ticket!ticket
  <2> HIDE DEF q
  <2>3. \A i \in For(q.party) : ~(i > q.upTo)
    BY <2>0, <2>1 DEF For
  <2>4. KnowsTicket(q)
    BY <2>1, <2>3 DEF KnowsTicket
  <2> QED BY <2>1, <2>2, <2>4, TicketFrameStep
<1>2. CASE Ticket!AddInternalNote(r)
  <2> DEFINE q == [Ticket!Idle EXCEPT !.pc = "mark"]
  <2>1. q \in TicketFrame /\ q.pc = "mark"
    BY <1>0 DEF TicketFrame
  <2>2. /\ ticketRequest' = [ticketRequest EXCEPT ![r] = q]
        /\ UNCHANGED <<ticketStatus, resolved, closed, patched, unread, message>>
    BY <1>2 DEF Ticket!AddInternalNote, Ticket!ticket
  <2> HIDE DEF q
  <2>3. KnowsTicket(q)
    BY <2>1 DEF KnowsTicket
  <2> QED BY <2>1, <2>2, <2>3, TicketFrameStep
<1>3. CASE Ticket!Fail(r)
  <2>1. KnowsTicket(Ticket!Idle)
    BY IdleTicket DEF KnowsTicket
  <2> QED BY <1>0, <1>3, <2>1, TicketFrameStep DEF Ticket!Fail, Ticket!ticket
<1> QED BY <1>1, <1>2, <1>3

-----------------------------------------------------------------------------
(* The writes. *)

LEMMA TicketFrameOf ==
    ASSUME TicketSound, NEW r \in Requests
    PROVE  ticketRequest[r] \in TicketFrame /\ KnowsTicket(ticketRequest[r])
  BY DEF TicketSound, TicketTypeOK

LEMMA AssignTicketStep ==
    ASSUME TicketSound, NEW r \in Requests, Ticket!AssignExecutive(r)
    PROVE  TicketSound'
<1>1. PICK q \in TicketFrame : q = ticketRequest[r] /\ KnowsTicket(q) /\ q.pc = "assign"
  BY TicketFrameOf DEF Ticket!AssignExecutive, Ticket!At
<1>2. /\ ticketStatus' = IF q.seen = "OPEN" THEN "ASSIGNED" ELSE q.seen
      /\ patched' = (patched \/ q.stale)
      /\ Ticket!Leaves(r, "mark")
      /\ UNCHANGED <<resolved, closed, unread, message>>
  BY <1>1 DEF Ticket!AssignExecutive
<1>3. q.seen \in Ticket!SupportTicketStatus /\ q.stale \in BOOLEAN
  BY DEF TicketFrame
<1>4. ticketStatus' \in Ticket!SupportTicketStatus
  BY <1>2, <1>3 DEF Ticket!SupportTicketStatus
<1>5. Ticket!TimesFitStatus'
  <2> SUFFICES ASSUME ~patched'
               PROVE  /\ closed' <=> ticketStatus' = "CLOSED"
                      /\ resolved' <=> ticketStatus' \in {"RESOLVED", "CLOSED"}
    BY DEF Ticket!TimesFitStatus
  <2>1. ~patched /\ q.seen = ticketStatus
    BY <1>1, <1>2 DEF KnowsTicket
  <2>2. /\ closed <=> ticketStatus = "CLOSED"
        /\ resolved <=> ticketStatus \in {"RESOLVED", "CLOSED"}
    BY <2>1 DEF TicketSound, Ticket!TimesFitStatus
  <2> QED BY <1>2, <2>1, <2>2
<1>6. /\ resolved' \in BOOLEAN /\ closed' \in BOOLEAN
      /\ patched' \in BOOLEAN
  BY <1>2 DEF TicketSound, TicketTypeOK
<1> QED BY <1>2, <1>4, <1>5, <1>6, TicketWriteStep

LEMMA StatusWriteStep ==
    ASSUME TicketSound, NEW r \in Requests, Ticket!UpdateStatus(r) \/ Ticket!Reopen(r)
    PROVE  TicketSound'
<1>1. CASE Ticket!UpdateStatus(r)
  <2>1. PICK s \in Ticket!SupportTicketStatus : s = ticketRequest[r].next
    BY TicketFrameOf DEF TicketFrame
  <2>2. /\ ticketStatus' = s
        /\ resolved' = (s \in {"RESOLVED", "CLOSED"})
        /\ closed' = (s = "CLOSED")
        /\ patched' = FALSE
        /\ Ticket!Leaves(r, "mark")
        /\ UNCHANGED <<unread, message>>
    BY <1>1, <2>1 DEF Ticket!UpdateStatus, Ticket!SetStatus
  <2>3. resolved' \in BOOLEAN /\ closed' \in BOOLEAN /\ patched' \in BOOLEAN
    <3>1. (s \in {"RESOLVED", "CLOSED"}) \in BOOLEAN /\ (s = "CLOSED") \in BOOLEAN
      OBVIOUS
    <3> QED BY <2>2, <3>1, Zenon
  <2>4. Ticket!TimesFitStatus'
    BY <2>2 DEF Ticket!TimesFitStatus
  <2> QED BY <2>2, <2>3, <2>4, TicketWriteStep
<1>2. CASE Ticket!Reopen(r)
  <2>1. /\ ticketStatus' = "REOPENED"
        /\ resolved' = FALSE /\ closed' = FALSE /\ patched' = FALSE
        /\ Ticket!Leaves(r, "mark")
        /\ UNCHANGED <<unread, message>>
    BY <1>2 DEF Ticket!Reopen, Ticket!SetStatus
  <2>2. ticketStatus' \in Ticket!SupportTicketStatus
    BY <2>1 DEF Ticket!SupportTicketStatus
  <2>3. Ticket!TimesFitStatus'
    BY <2>1 DEF Ticket!TimesFitStatus
  <2> QED BY <2>1, <2>2, <2>3, TicketWriteStep
<1> QED BY <1>1, <1>2

(* A message is the newest of its reader's; whoever is just marking his knows *)
(* that it was sent meanwhile.                                                *)
LEMMA SendStep ==
    ASSUME TicketSound, NEW r \in Requests, Ticket!SendMessage(r)
    PROVE  TicketSound'
<1>1. PICK q \in TicketFrame : q = ticketRequest[r]
  BY TicketFrameOf
<1> DEFINE n == Len(message)
           reader == Ticket!Reader(q.party)
<1>2. PICK marking \in BOOLEAN :
          marking <=> \E other \in Requests : /\ Ticket!At(other, "counter")
                                             /\ ticketRequest[other].party = reader
  OBVIOUS
<1> DEFINE m == [from |-> q.party, read |-> FALSE, during |-> marking]
<1>3. /\ n < MaxMessages
      /\ message' = Append(message, m)
      /\ unread' = [unread EXCEPT ![reader] = @ + 1]
      /\ Ticket!SetStatus(Ticket!ResolveStatusAfterMessage(q.seen, q.party), FALSE, FALSE)
  BY <1>1, <1>2 DEF Ticket!SendMessage
<1>4. PICK pc \in {"idle", "mark"} : Ticket!Leaves(r, pc)
  BY DEF Ticket!SendMessage
<1>5. /\ q.party \in Ticket!Parties /\ reader \in Ticket!Parties
      /\ \A party \in Ticket!Parties : Ticket!Reader(party) = reader => party = q.party
  BY DEF TicketFrame, Ticket!Parties, Ticket!Reader
<1>6. /\ n \in Nat /\ message \in Seq(Message) /\ unread \in [Ticket!Parties -> 0..MaxMessages]
      /\ MaxMessages \in Nat
  BY TicketFits DEF TicketSound, TicketTypeOK
<1>7. m \in Message /\ m.from = q.party /\ m.read = FALSE /\ m.during = marking
  BY <1>2, <1>5 DEF Message
<1>8. Ticket!TimesFitStatus' /\ ticketStatus' \in Ticket!SupportTicketStatus
      /\ resolved' = FALSE /\ closed' = FALSE /\ patched' = FALSE
  BY <1>3 DEF Ticket!SetStatus, Ticket!ResolveStatusAfterMessage, Ticket!TimesFitStatus,
     Ticket!SupportTicketStatus
<1> HIDE DEF m
<1>9. /\ message' \in Seq(Message) /\ Len(message') = n + 1
      /\ \A i \in 1..n : message'[i] = message[i]
      /\ message'[n + 1] = m
  BY <1>3, <1>6, <1>7
<1>n. n = Len(message)
  OBVIOUS
<1> HIDE DEF n
<1>10. /\ For(reader)' = For(reader) \cup {n + 1}
       /\ \A party \in Ticket!Parties \ {reader} : For(party)' = For(party)
       /\ \A party : For(party) \in SUBSET (1..n)
  <2>1. Ticket!Reader(message'[n + 1].from) = reader
    BY <1>7, <1>9
  <2> HIDE DEF reader
  <2> QED BY <1>6, <1>9, <1>n, <2>1 DEF For
<1>11. /\ Ticket!Unread(reader)' = Ticket!Unread(reader) \cup {n + 1}
       /\ \A party \in Ticket!Parties \ {reader} : Ticket!Unread(party)' = Ticket!Unread(party)
       /\ \A party : Ticket!Unread(party) \in SUBSET (1..n)
  <2>1. Ticket!Reader(message'[n + 1].from) = reader /\ ~message'[n + 1].read
    BY <1>7, <1>9
  <2> HIDE DEF reader
  <2> QED BY <1>6, <1>9, <1>n, <2>1 DEF Ticket!Unread
<1> HIDE DEF reader
<1>r. reader = Ticket!Reader(q.party)
  BY DEF reader
<1>12. /\ \A party \in Ticket!Parties : Counted(party)'
       /\ unread' \in [Ticket!Parties -> 0..MaxMessages]
  <2>1. ASSUME NEW party \in Ticket!Parties \ {reader}
        PROVE  Counted(party)' /\ unread'[party] = unread[party]
    <3>1. unread'[party] = unread[party]
      BY <1>3, <1>6
    <3>2. Newest(For(party)', unread'[party]) = Newest(For(party), unread[party])
      BY <1>10, <3>1
    <3>3. \A i \in Ticket!Unread(party) : message'[i] = message[i]
      BY <1>9, <1>11
    <3>4. Counted(party)
      BY DEF TicketSound
    <3> QED BY <1>11, <3>1, <3>2, <3>3, <3>4 DEF Counted
  <2>2. Counted(reader)' /\ unread'[reader] \in 0..MaxMessages
    <3>0. PICK k \in Nat : k = unread[reader]
      BY <1>5, <1>6
    <3>1. unread'[reader] = k + 1
      BY <1>3, <1>5, <1>6, <3>0
    <3>2. /\ Newest(For(reader)', k + 1) = Newest(For(reader), k) \cup {n + 1}
          /\ Cardinality(Newest(For(reader), k)) <= n
          /\ Cardinality(Newest(For(reader), k) \cup {n + 1}) =
                Cardinality(Newest(For(reader), k)) + 1
      <4>1. PICK A \in SUBSET (1..n) : A = For(reader)
        BY <1>10
      <4>2. For(reader)' = A \cup {n + 1}
        BY <1>10, <4>1
      <4>3. n \in Nat
        BY <1>6
      <4>4. Newest(A \cup {n + 1}, k + 1) = Newest(A, k) \cup {n + 1}
        BY <4>3, NewestGrows
      <4>5. Cardinality(Newest(A, k)) <= n
        BY <4>3, NewestGrows
      <4>6. Cardinality(Newest(A, k) \cup {n + 1}) = Cardinality(Newest(A, k)) + 1
        <5>1. IsFiniteSet(Newest(A, k))
          BY <4>3, NewestGrows
        <5>2. n + 1 \notin Newest(A, k)
          BY <4>3 DEF Newest
        <5> QED BY <5>1, <5>2, FS_AddElement
      <4> QED BY <4>1, <4>2, <4>4, <4>5, <4>6
    <3>3. Counted(reader)
      BY <1>5 DEF TicketSound
    <3>4. /\ Cardinality(Newest(For(reader), k)) = k
          /\ Newest(For(reader), k) \subseteq Ticket!Unread(reader)
          /\ \A i \in Ticket!Unread(reader) \ Newest(For(reader), k) : message[i].during
      BY <3>0, <3>3 DEF Counted
    <3>5. \A i \in Ticket!Unread(reader) : message'[i] = message[i]
      BY <1>9, <1>11
    <3>6. k + 1 \in 0..MaxMessages
      BY <1>3, <1>6, <3>2, <3>4, <1>n
    <3>7. Counted(reader)'
      BY <1>11, <3>1, <3>2, <3>4, <3>5 DEF Counted
    <3> QED BY <3>1, <3>6, <3>7
  <2>3. DOMAIN unread' = Ticket!Parties /\ unread' = [party \in Ticket!Parties |-> unread'[party]]
    BY <1>3, <1>6
  <2> QED BY <1>6, <2>1, <2>2, <2>3
<1>13. \A v \in Requests : KnowsTicket(ticketRequest[v])'
  <2> SUFFICES ASSUME NEW v \in Requests
               PROVE  KnowsTicket(ticketRequest[v])'
    OBVIOUS
  <2>1. ticketRequest'[v].pc \in {"assign", "send", "status"} => ticketRequest'[v].stale
    BY <1>4, LeavesFrames
  <2>2. ASSUME ticketRequest'[v].pc = "counter", NEW i \in For(ticketRequest[v].party)',
               i > ticketRequest'[v].upTo
        PROVE  message'[i].during
    <3>1. PICK f \in TicketFrame :
              /\ f = ticketRequest[v] /\ KnowsTicket(f) /\ f.pc = "counter"
              /\ ticketRequest'[v].party = f.party /\ ticketRequest'[v].upTo = f.upTo
      BY <1>4, <2>2, LeavesFrames, TicketFrameOf
    <3>2. f.party \in Ticket!Parties
      BY DEF TicketFrame
    <3>3. CASE i \in For(f.party)
      <4>1. message[i].during
        BY <2>2, <3>1, <3>3 DEF KnowsTicket
      <4> QED BY <1>9, <1>10, <3>3, <4>1
    <3>4. CASE i \notin For(f.party)
      <4>1. i = n + 1 /\ f.party = reader
        BY <1>10, <2>2, <3>1, <3>2, <3>4
      <4>2. marking
        BY <1>2, <3>1, <4>1 DEF Ticket!At, reader
      <4> QED BY <1>7, <1>9, <4>1, <4>2
    <3> QED BY <3>3, <3>4
  <2> QED BY <2>1, <2>2 DEF KnowsTicket
<1>14. ticketRequest' \in [Requests -> TicketFrame]
  BY <1>4, LeavesFrames
<1>15. Len(message') <= MaxMessages
  BY <1>3, <1>6, <1>9, <1>n
<1> QED BY <1>8, <1>9, <1>12, <1>13, <1>14, <1>15 DEF TicketSound, TicketTypeOK

(* Marking reads what was there when it began, and resets the counter: what   *)
(* is still unread was sent meanwhile.                                        *)
LEMMA MarkStep ==
    ASSUME TicketSound, NEW r \in Requests, Ticket!MarkMessagesRead(r)
    PROVE  TicketSound'
<1>1. PICK q \in TicketFrame : q = ticketRequest[r] /\ KnowsTicket(q) /\ q.pc = "counter"
  BY TicketFrameOf DEF Ticket!MarkMessagesRead, Ticket!At
<1> DEFINE n == Len(message)
           marked(i) == i \in Ticket!Unread(q.party) /\ i <= q.upTo
           After(i) == IF marked(i) THEN [message[i] EXCEPT !.read = TRUE] ELSE message[i]
<1>2. /\ message' = [i \in 1..n |-> After(i)]
      /\ unread' = [unread EXCEPT ![q.party] = 0]
      /\ ticketRequest' = [ticketRequest EXCEPT ![r] = Ticket!Idle]
      /\ UNCHANGED <<ticketStatus, resolved, closed, patched>>
  BY <1>1 DEF Ticket!MarkMessagesRead, Ticket!ticket
<1>3. /\ n \in Nat /\ message \in Seq(Message) /\ unread \in [Ticket!Parties -> 0..MaxMessages]
      /\ MaxMessages \in Nat /\ \A i \in 1..n : message[i] \in Message
      /\ q.party \in Ticket!Parties
  BY TicketFits DEF TicketSound, TicketTypeOK, TicketFrame
<1>4. \A i \in 1..n : /\ After(i) \in Message
                     /\ After(i).from = message[i].from /\ After(i).during = message[i].during
                     /\ IF marked(i) THEN After(i).read = TRUE ELSE After(i).read = message[i].read
  <2> HIDE DEF marked
  <2> QED BY <1>3 DEF Message
<1> HIDE DEF After
<1>5. message' \in Seq(Message) /\ Len(message') = n
  BY <1>2, <1>3, <1>4
<1>6. \A i \in 1..n : /\ message'[i].from = message[i].from
                     /\ message'[i].during = message[i].during
                     /\ IF marked(i) THEN message'[i].read = TRUE
                        ELSE message'[i].read = message[i].read
  BY <1>2, <1>4
<1> HIDE DEF n
<1>n. n = Len(message)
  BY DEF n
<1>7. \A party : For(party)' = For(party)
  BY <1>5, <1>6, <1>n DEF For
<1>8. \A party : /\ For(party) \in SUBSET (1..n)
                /\ Ticket!Unread(party) = {i \in For(party) : ~message[i].read}
                /\ Ticket!Unread(party)' = {i \in For(party) : ~message'[i].read}
  BY <1>5, <1>6, <1>n DEF For, Ticket!Unread
<1>9. \A party \in Ticket!Parties : Counted(party)'
  <2> SUFFICES ASSUME NEW party \in Ticket!Parties
               PROVE  Counted(party)'
    OBVIOUS
  <2>1. CASE party = q.party
    <3>1. unread'[party] = 0
      BY <1>2, <1>3, <2>1
    <3>2. Newest(For(party), 0) = {}
      BY <1>3, <1>8, NewestNone
    <3>3. Newest(For(party)', unread'[party]) = {}
      BY <1>7, <3>1, <3>2
    <3>4. \A i \in Ticket!Unread(party)' : message'[i].during
      <4> SUFFICES ASSUME NEW i \in Ticket!Unread(party)'
                   PROVE  message'[i].during
        OBVIOUS
      <4>1. i \in For(party) /\ ~message'[i].read /\ i \in 1..n
        BY <1>8
      <4>2. ~marked(i) /\ ~message[i].read
        BY <1>6, <4>1
      <4>3. q.upTo \in Nat
        BY DEF TicketFrame
      <4>4. i > q.upTo
        BY <1>8, <2>1, <4>1, <4>2, <4>3
      <4>5. message[i].during
        BY <1>1, <2>1, <4>1, <4>4 DEF KnowsTicket
      <4> QED BY <1>6, <4>1, <4>5
    <3> QED BY <3>1, <3>3, <3>4, FS_EmptySet DEF Counted
  <2>2. CASE party # q.party
    <3>1. unread'[party] = unread[party]
      BY <1>2, <1>3, <2>2
    <3>2. Newest(For(party)', unread'[party]) = Newest(For(party), unread[party])
      BY <1>7, <3>1
    <3>3. \A i \in For(party) : ~marked(i)
      BY <1>3, <2>2 DEF For, Ticket!Unread, Ticket!Parties, Ticket!Reader, Message
    <3>4. Ticket!Unread(party)' = Ticket!Unread(party)
      BY <1>6, <1>8, <3>3
    <3>5. Counted(party)
      BY DEF TicketSound
    <3>6. \A i \in Ticket!Unread(party) : message'[i].during = message[i].during
      BY <1>6, <1>8
    <3> QED BY <3>1, <3>2, <3>4, <3>5, <3>6 DEF Counted
  <2> QED BY <2>1, <2>2
<1>10. \A v \in Requests : KnowsTicket(ticketRequest[v])'
  <2> SUFFICES ASSUME NEW v \in Requests
               PROVE  KnowsTicket(ticketRequest[v])'
    OBVIOUS
  <2>1. ticketRequest'[v] = ticketRequest[v] \/ ticketRequest'[v] = Ticket!Idle
    BY <1>2 DEF TicketSound, TicketTypeOK
  <2>2. CASE ticketRequest'[v] = Ticket!Idle
    BY <2>2, IdleTicket DEF KnowsTicket
  <2>3. CASE ticketRequest'[v] = ticketRequest[v]
    <3>1. KnowsTicket(ticketRequest[v])
      BY DEF TicketSound
    <3>2. \A i \in For(ticketRequest[v].party) : message'[i].during = message[i].during
      BY <1>6, <1>8
    <3> QED BY <1>2, <1>7, <2>3, <3>1, <3>2 DEF KnowsTicket
  <2> QED BY <2>1, <2>2, <2>3
<1>11. /\ ticketRequest' \in [Requests -> TicketFrame]
       /\ unread' \in [Ticket!Parties -> 0..MaxMessages]
       /\ Len(message') <= MaxMessages
  BY <1>2, <1>3, <1>5, <1>n, IdleTicket DEF TicketSound, TicketTypeOK
<1>12. Ticket!TimesFitStatus'
  BY <1>2 DEF TicketSound, Ticket!TimesFitStatus
<1> QED BY <1>2, <1>5, <1>9, <1>10, <1>11, <1>12 DEF TicketSound, TicketTypeOK

-----------------------------------------------------------------------------
LEMMA InitTicket ==
    ASSUME Ticket!Init
    PROVE  TicketSound
<1>0. MaxMessages \in Nat /\ MaxMessages >= 1
  BY TicketFits
<1>1. TicketTypeOK
  <2>1. message \in Seq(Message) /\ Len(message) = 1
    BY DEF Ticket!Init, Message, Ticket!Parties
  <2>2. unread \in [Ticket!Parties -> 0..MaxMessages]
    BY <1>0 DEF Ticket!Init, Ticket!Parties
  <2>3. ticketStatus \in Ticket!SupportTicketStatus
    BY DEF Ticket!Init, Ticket!SupportTicketStatus
  <2> QED BY <1>0, <2>1, <2>2, <2>3, IdleTicket DEF Ticket!Init, TicketTypeOK
<1>2. Ticket!TimesFitStatus
  BY DEF Ticket!Init, Ticket!TimesFitStatus
<1>3. /\ For("customer") = {} /\ For("admin") = {1}
      /\ Ticket!Unread("customer") = {} /\ Ticket!Unread("admin") = {1}
      /\ unread["customer"] = 0 /\ unread["admin"] = 1
  BY DEF Ticket!Init, For, Ticket!Unread, Ticket!Reader
<1>4. Newest({}, 0) = {}
  BY DEF Newest
<1>5. Newest({1}, 1) = {1}
  <2>1. {j \in {1} : j >= 1} = {1}
    OBVIOUS
  <2> QED BY <2>1, FS_Singleton DEF Newest
<1>6. Counted("customer") /\ Counted("admin")
  BY <1>3, <1>4, <1>5, FS_EmptySet, FS_Singleton DEF Counted
<1>7. \A r \in Requests : KnowsTicket(ticketRequest[r])
  BY IdleTicket DEF Ticket!Init, KnowsTicket
<1> QED BY <1>1, <1>2, <1>6, <1>7 DEF TicketSound, Ticket!Parties

LEMMA NextTicket ==
    ASSUME TicketSound, [Ticket!Next]_ticketVars
    PROVE  TicketSound'
<1>1. ASSUME NEW r \in Requests, NEW from \in Ticket!Parties, NEW internal \in BOOLEAN,
             Ticket!SendMessageRead(r, from, internal)
      PROVE  TicketSound'
  BY <1>1, SendReadStep
<1>2. ASSUME NEW r \in Requests, NEW reader \in Ticket!Parties, Ticket!MarkRead(r, reader)
      PROVE  TicketSound'
  BY <1>2, AsideStep
<1>3. ASSUME NEW r \in Requests, Ticket!AddInternalNote(r) \/ Ticket!Fail(r)
      PROVE  TicketSound'
  <2>1. "admin" \in Ticket!Parties
    BY DEF Ticket!Parties
  <2> QED BY <1>3, <2>1, AsideStep
<1>4. ASSUME NEW r \in Requests,
             Ticket!AssignExecutiveRead(r) \/ Ticket!UpdateStatusRead(r) \/ Ticket!ReopenRead(r)
      PROVE  TicketSound'
  BY <1>4, StaffReadStep
<1>5. ASSUME NEW r \in Requests,
             \/ Ticket!SendMessage(r) \/ Ticket!MarkMessagesRead(r)
             \/ Ticket!AssignExecutive(r) \/ Ticket!UpdateStatus(r) \/ Ticket!Reopen(r)
      PROVE  TicketSound'
  BY <1>5, SendStep, MarkStep, AssignTicketStep, StatusWriteStep
<1>6. CASE UNCHANGED ticketVars
  <2>1. /\ \A reader \in Ticket!Parties : Counted(reader)'
        /\ \A reader : For(reader)' = For(reader)
    BY <1>6, CountsStay DEF ticketVars
  <2>2. \A r \in Requests : KnowsTicket(ticketRequest[r])'
    BY <1>6, <2>1 DEF TicketSound, KnowsTicket, ticketVars
  <2> QED BY <1>6, <2>1, <2>2 DEF TicketSound, TicketTypeOK, Ticket!TimesFitStatus, ticketVars
<1> QED BY <1>1, <1>2, <1>3, <1>4, <1>5, <1>6 DEF Ticket!Next

(* The counters count the newest unread messages of each reader, and what     *)
(* they miss was sent while he was marking; the times of a ticket fit its     *)
(* status, and nobody who knows it takes it out of CLOSED but to reopen it    *)
(* (sendMessage, markMessagesRead, assignExecutive, updateStatus).            *)
THEOREM TicketCounts == PartsSpec => []TicketHolds
<1> DEFINE Inv == part = "ticket" => TicketSound
<1>1. PartsInit => Inv
  BY InitTicket DEF PartsInit
<1>2. Inv /\ [PartsNext]_<<part, vars, ownVars>> => Inv'
  <2> SUFFICES ASSUME Inv, [PartsNext]_<<part, vars, ownVars>>, part' = "ticket"
               PROVE  TicketSound'
    OBVIOUS
  <2>1. part = "ticket"
    BY DEF PartsNext
  <2>2. [Ticket!Next]_ticketVars
    BY <2>1 DEF PartsNext, ownVars
  <2> QED BY <2>1, <2>2, NextTicket
<1>3. Inv => TicketHolds
  BY TicketImplies DEF TicketHolds
<1> QED BY <1>1, <1>2, <1>3, PTL DEF PartsSpec

-----------------------------------------------------------------------------
(* The price list.  Tells(told) is the history as it really was: the price of  *)
(* each rule at each of its versions.                                          *)

HistoryEntry == [rule : Rules, version : Nat, new : Nat, previous : Nat]
PriceFrame ==
    [pc    : {"idle", "check", "write", "history"},
     id    : Rules \cup {None},
     new   : Prices!Slab \cup Prices!Row \cup {None},
     patch : Patches \cup {None},
     old   : Prices!Row \cup {None},
     seen  : 0..MaxWrites]

PriceTypeOK ==
    /\ rule \in [Rules -> Prices!Row \cup {None}]
    /\ history \in Seq(HistoryEntry)
    /\ priceRequest \in [Requests -> PriceFrame]
    /\ priceWrites \in 0..MaxWrites
    /\ wrote \in [Rules -> [at : 0..MaxWrites, seen : 0..MaxWrites]]
    /\ asked \in [Rules -> Nat]
    /\ priceRaced \subseteq Rules

\* A rule is a slab, written at some time, and has a version.
RuleFits(i) ==
    rule[i] # None => /\ rule[i].from < rule[i].to
                      /\ rule[i].version >= 1
                      /\ wrote[i].at <= priceWrites

\* What a request still knows of the rule it has read.
KnowsOld(q) ==
    q.old # None => /\ rule[q.id] # None
                    /\ q.old.version >= 1
                    /\ q.old.version <= rule[q.id].version
                    /\ q.old.version = rule[q.id].version => q.old = rule[q.id]

Asks(q) ==
    /\ q.new \in Prices!Slab
    /\ q.new.from < q.new.to
    /\ q.old = None => rule[q.id] = None
    /\ q.old # None => /\ q.patch \in Patches
                       /\ q.new.price = Prices!Or(q.patch.price, q.old.price)

\* What crosses the new slab was written after the request had looked.
Unseen(q) ==
    /\ q.seen <= priceWrites
    /\ \A i \in Prices!Listed \ {q.id} :
          Prices!Crosses(q.new, rule[i]) => wrote[i].at > q.seen

Written(q) ==
    /\ q.new \in Prices!Row
    /\ rule[q.id] # None
    /\ q.new.version >= 1
    /\ q.new.version <= rule[q.id].version
    /\ q.old = None => q.new.version = 1
    /\ q.old # None => q.id \in priceRaced \/ q.new.version = q.old.version + 1

KnowsPrice(q) ==
    /\ q.pc = "idle" <=> q.id = None
    /\ q.pc # "idle" => KnowsOld(q)
    /\ q.pc \in {"check", "write"} => Asks(q)
    /\ q.pc = "write" => Unseen(q)
    /\ q.pc = "history" => Written(q)

\* Nobody else has the id of a rule that is being created.
Creates(q) == q.pc \in {"check", "write"} /\ q.old = None
OwnId ==
    \A r, v \in Requests :
        r # v /\ Creates(priceRequest[r]) => priceRequest[v].id # priceRequest[r].id

TellsFrame(told, q) ==
    /\ q.pc # "idle" /\ q.old # None => told[q.id][q.old.version] = q.old.price
    /\ q.pc = "history" => told[q.id][q.new.version] = q.new.price
TellsEntry(told, e) ==
    /\ rule[e.rule] # None
    /\ e.version >= 1 /\ e.version <= rule[e.rule].version
    /\ told[e.rule][e.version] = e.new
    /\ e.version > 1 /\ e.rule \notin priceRaced => told[e.rule][e.version - 1] = e.previous
Tells(told) ==
    /\ \A i \in Rules : rule[i] # None => told[i][rule[i].version] = rule[i].price
    /\ \A r \in Requests : TellsFrame(told, priceRequest[r])
    /\ \A k \in 1..Len(history) : TellsEntry(told, history[k])

PriceSound ==
    /\ PriceTypeOK
    /\ \A i \in Rules : RuleFits(i)
    /\ \A r \in Requests : KnowsPrice(priceRequest[r])
    /\ OwnId
    /\ Prices!SlabsNest
    /\ Prices!PriceIsAsAsked
    /\ \E told \in [Rules -> [Nat -> Nat]] : Tells(told)

LEMMA PricesFit ==
    /\ MaxKm \in Nat /\ MaxWrites \in Nat
    /\ NewRules \subseteq Prices!Slab
    /\ Patches \subseteq [from : 0..MaxKm \cup {None}, to : 0..MaxKm \cup {None},
                          price : Nat \cup {None}, active : BOOLEAN \cup {None}]
    /\ None \notin Rules /\ None \notin Prices!Row /\ None \notin Prices!Slab
  BY PricesAssumption DEF Prices!ConstantsFit

LEMMA IdlePrice ==
    /\ Prices!Idle \in PriceFrame /\ Prices!Idle.pc = "idle" /\ Prices!Idle.id = None
    /\ Prices!Idle.old = None
  BY PricesFit DEF Prices!Idle, PriceFrame

(* What the sorting by the end of the slab finds. *)
LEMMA TightestOfSlabs ==
    ASSUME PriceSound
    PROVE  Prices!TightestFit
<1> SUFFICES ASSUME NEW km \in 0..MaxKm, NEW i \in Prices!ResolveListPrice(km),
                    NEW j \in Prices!Covering(km)
             PROVE  \/ Prices!Within(rule[i], rule[j]) \/ rule[i].to = rule[j].to
                    \/ rule[i].to = km /\ rule[j].from = km
                    \/ Prices!Crosses(rule[i], rule[j])
  BY DEF Prices!TightestFit
<1>1. PICK a \in Prices!Row : a = rule[i]
  BY DEF PriceSound, PriceTypeOK, Prices!ResolveListPrice, Prices!Covering, Prices!Listed
<1>2. PICK b \in Prices!Row : b = rule[j]
  BY DEF PriceSound, PriceTypeOK, Prices!Covering, Prices!Listed
<1>3. /\ a.from <= km /\ km <= a.to /\ b.from <= km /\ km <= b.to /\ a.to <= b.to
  BY <1>1, <1>2 DEF Prices!ResolveListPrice, Prices!Covering
<1>4. /\ a.from \in Int /\ a.to \in Int /\ b.from \in Int /\ b.to \in Int /\ km \in Int
  BY PricesFit DEF Prices!Row
<1>5. \/ Prices!Within(a, b) \/ a.to = b.to
      \/ a.to = km /\ b.from = km
      \/ Prices!Crosses(a, b)
  BY <1>3, <1>4 DEF Prices!Within, Prices!Crosses, Prices!Nested
<1> QED BY <1>1, <1>2, <1>5

LEMMA HistoryOfPast ==
    ASSUME PriceSound
    PROVE  Prices!HistoryAgrees
<1>1. PICK told \in [Rules -> [Nat -> Nat]] : Tells(told)
  BY DEF PriceSound
<1> SUFFICES ASSUME NEW k \in 1..Len(history), NEW l \in 1..Len(history),
                    history[k].rule = history[l].rule,
                    history[k].version + 1 = history[l].version,
                    history[k].rule \notin priceRaced
             PROVE  history[l].previous = history[k].new
  BY DEF Prices!HistoryAgrees
<1>2. PICK e \in HistoryEntry, f \in HistoryEntry : e = history[k] /\ f = history[l]
  BY DEF PriceSound, PriceTypeOK
<1>3. TellsEntry(told, e) /\ TellsEntry(told, f)
  BY <1>1, <1>2 DEF Tells
<1>4. e.version \in Nat /\ f.version = e.version + 1 /\ f.rule = e.rule /\ e.rule \notin priceRaced
  BY <1>2 DEF HistoryEntry
<1>5. f.version > 1 /\ f.version - 1 = e.version
  <2>1. PICK n \in Nat : n = e.version
    BY <1>4
  <2>2. n >= 1 /\ f.version = n + 1
    BY <1>3, <1>4, <2>1 DEF TellsEntry
  <2> QED BY <2>1, <2>2
<1>6. told[e.rule][e.version] = e.new /\ told[f.rule][f.version - 1] = f.previous
  BY <1>3, <1>4, <1>5 DEF TellsEntry
<1> QED BY <1>2, <1>4, <1>5, <1>6

LEMMA PriceImplies ==
    ASSUME PriceSound
    PROVE  Prices!PriceListHolds
<1>1. Prices!TypeOK
  BY DEF PriceSound, PriceTypeOK, RuleFits, PriceFrame, Prices!TypeOK, Prices!Listed
<1> QED BY <1>1, TightestOfSlabs, HistoryOfPast DEF PriceSound, Prices!PriceListHolds

LEMMA KnowsStays ==
    ASSUME UNCHANGED <<rule, priceWrites, wrote, priceRaced>>,
           \A v \in Requests : KnowsPrice(priceRequest'[v])
    PROVE  \A v \in Requests : KnowsPrice(priceRequest[v])'
<1> SUFFICES ASSUME NEW v \in Requests
             PROVE  KnowsPrice(priceRequest[v])'
  OBVIOUS
<1>1. KnowsOld(priceRequest'[v]) => KnowsOld(priceRequest[v])'
  BY DEF KnowsOld
<1>2. Asks(priceRequest'[v]) => Asks(priceRequest[v])'
  BY DEF Asks
<1>3. Unseen(priceRequest'[v]) => Unseen(priceRequest[v])'
  BY DEF Unseen, Prices!Listed
<1>4. Written(priceRequest'[v]) => Written(priceRequest[v])'
  BY DEF Written
<1> QED BY <1>1, <1>2, <1>3, <1>4 DEF KnowsPrice

(* The price list stays as it is, and request r goes on as q, at rest, with   *)
(* the rule it had, a rule it reads or a rule it creates.                     *)
LEMMA PriceFrameStep ==
    ASSUME PriceSound, NEW r \in Requests, NEW q \in PriceFrame, KnowsPrice(q),
           \/ q.id = None
           \/ /\ q.id = priceRequest[r].id /\ q.old = priceRequest[r].old
              /\ priceRequest[r].pc \in {"check", "write"}
           \/ q.old # None /\ q.old = rule[q.id]
           \/ q.old = None /\ \A v \in Requests : priceRequest[v].id # q.id,
           q.pc # "history",
           priceRequest' = [priceRequest EXCEPT ![r] = q],
           UNCHANGED <<rule, history, priceWrites, wrote, asked, priceRaced>>
    PROVE  PriceSound'
<1>1. priceRequest' \in [Requests -> PriceFrame]
  BY DEF PriceSound, PriceTypeOK
<1>2. \A v \in Requests : priceRequest'[v] = IF v = r THEN q ELSE priceRequest[v]
  BY DEF PriceSound, PriceTypeOK
<1>3. PriceTypeOK' /\ \A i \in Rules : RuleFits(i)'
  BY <1>1 DEF PriceSound, PriceTypeOK, RuleFits
<1>4. \A v \in Requests : KnowsPrice(priceRequest[v])'
  <2>1. \A v \in Requests : KnowsPrice(priceRequest'[v])
    BY <1>2 DEF PriceSound
  <2> QED BY <2>1, KnowsStays
<1>5. OwnId'
  <2> SUFFICES ASSUME NEW u \in Requests, NEW v \in Requests, u # v, Creates(priceRequest'[u])
               PROVE  priceRequest'[v].id # priceRequest'[u].id
    BY DEF OwnId, Creates
  <2>0. OwnId /\ \A w \in Requests : KnowsPrice(priceRequest[w])
    BY DEF PriceSound
  <2>1. CASE u = r
    <3>1. priceRequest'[u] = q /\ priceRequest'[v] = priceRequest[v] /\ Creates(q)
      BY <1>2, <2>1
    <3>2. q.id # None
      BY <3>1 DEF Creates, KnowsPrice
    <3>3. CASE /\ q.id = priceRequest[r].id /\ q.old = priceRequest[r].old
               /\ priceRequest[r].pc \in {"check", "write"}
      <4>1. Creates(priceRequest[r])
        BY <3>1, <3>3 DEF Creates
      <4> QED BY <2>0, <2>1, <3>1, <3>3, <4>1 DEF OwnId
    <3> QED BY <3>1, <3>2, <3>3 DEF Creates
  <2>2. CASE u # r /\ v = r
    <3>1. priceRequest'[u] = priceRequest[u] /\ priceRequest'[v] = q /\ Creates(priceRequest[u])
      BY <1>2, <2>2
    <3>2. rule[priceRequest[u].id] = None /\ priceRequest[u].id # None
      BY <2>0, <3>1 DEF Creates, KnowsPrice, Asks
    <3>3. CASE q.id = priceRequest[r].id
      BY <2>0, <2>2, <3>1, <3>3 DEF OwnId
    <3> QED BY <3>1, <3>2, <3>3
  <2>3. CASE u # r /\ v # r
    BY <1>2, <2>0, <2>3 DEF OwnId
  <2> QED BY <2>1, <2>2, <2>3
<1>6. Prices!SlabsNest' /\ Prices!PriceIsAsAsked'
  BY DEF PriceSound, Prices!SlabsNest, Prices!PriceIsAsAsked, Prices!Listed
<1>7. \E told \in [Rules -> [Nat -> Nat]] : Tells(told)'
  <2>1. PICK told \in [Rules -> [Nat -> Nat]] : Tells(told)
    BY DEF PriceSound
  <2>2. TellsFrame(told, q)
    <3>1. TellsFrame(told, priceRequest[r])
      BY <2>1 DEF Tells
    <3>2. CASE q.old # None /\ q.old = rule[q.id] /\ q.pc # "idle"
      <4>1. q.id \in Rules
        BY <3>2 DEF PriceFrame, KnowsPrice
      <4> QED BY <2>1, <3>2, <4>1 DEF Tells, TellsFrame
    <3> QED BY <3>1, <3>2 DEF TellsFrame, KnowsPrice
  <2>3. \A v \in Requests : TellsFrame(told, priceRequest'[v])
    BY <1>2, <2>1, <2>2 DEF Tells
  <2>4. \A v \in Requests : TellsFrame(told, priceRequest[v])'
    BY <2>3 DEF TellsFrame
  <2>5. \A k \in 1..Len(history') : TellsEntry(told, history[k])'
    BY <2>1 DEF Tells, TellsEntry
  <2>6. \A i \in Rules : rule'[i] # None => told[i][rule'[i].version] = rule'[i].price
    BY <2>1 DEF Tells
  <2> QED BY <2>4, <2>5, <2>6 DEF Tells
<1> QED BY <1>3, <1>4, <1>5, <1>6, <1>7 DEF PriceSound

(* A request that fails, or is refused, or done. *)
LEMMA PriceIdleStep ==
    ASSUME PriceSound, NEW r \in Requests, Prices!Goto(r, Prices!Idle),
           UNCHANGED <<rule, history, priceWrites, wrote, asked, priceRaced>>
    PROVE  PriceSound'
<1>1. PICK q \in PriceFrame : q = Prices!Idle
  BY IdlePrice
<1>2. KnowsPrice(q) /\ q.id = None /\ q.pc # "history"
  BY <1>1, IdlePrice DEF KnowsPrice
<1>3. priceRequest' = [priceRequest EXCEPT ![r] = q]
  BY <1>1 DEF Prices!Goto
<1> QED BY <1>2, <1>3, PriceFrameStep

LEMMA CreateRuleStep ==
    ASSUME PriceSound, NEW r \in Requests, NEW i \in Rules, NEW new \in NewRules,
           Prices!CreateRule(r, i, new)
    PROVE  PriceSound'
<1> DEFINE f == [Prices!Idle EXCEPT !.pc = "check", !.id = i, !.new = new]
<1>1. new \in Prices!Slab /\ new.from < new.to
  <2>1. new \in Prices!Slab /\ new.to > new.from
    BY PricesFit DEF Prices!CreateRule, Prices!ValidSlab
  <2>2. new.to \in Int /\ new.from \in Int
    BY <2>1, PricesFit DEF Prices!Slab
  <2> QED BY <2>1, <2>2
<1>2. f \in PriceFrame
  BY <1>1, IdlePrice DEF PriceFrame
<1>3. /\ f.pc = "check" /\ f.id = i /\ f.new = new /\ f.old = None
  BY DEF Prices!Idle
<1>4. priceRequest' = [priceRequest EXCEPT ![r] = f]
  BY DEF Prices!CreateRule, Prices!Goto
<1> HIDE DEF f
<1>5. PICK q \in PriceFrame : q = f
  BY <1>2
<1>6. KnowsPrice(q)
  BY <1>1, <1>3, <1>5, PricesFit DEF KnowsPrice, KnowsOld, Asks, Prices!CreateRule
<1>7. q.old = None /\ \A v \in Requests : priceRequest[v].id # q.id
  BY <1>3, <1>5 DEF Prices!CreateRule
<1>8. UNCHANGED <<rule, history, priceWrites, wrote, asked, priceRaced>>
  BY DEF Prices!CreateRule, Prices!ghosts
<1>9. q.pc # "history" /\ priceRequest' = [priceRequest EXCEPT ![r] = q]
  BY <1>3, <1>4, <1>5
<1> QED BY <1>6, <1>7, <1>8, <1>9, PriceFrameStep

LEMMA ReadRuleStep ==
    ASSUME PriceSound, NEW r \in Requests, NEW i \in Rules, NEW patch \in Patches,
           Prices!ReadRule(r, i, patch)
    PROVE  PriceSound'
<1>1. PICK old \in Prices!Row : old = rule[i]
  BY DEF PriceSound, PriceTypeOK, Prices!ReadRule
<1> DEFINE new == [from |-> Prices!Or(patch.from, old.from), to |-> Prices!Or(patch.to, old.to),
                   price |-> Prices!Or(patch.price, old.price),
                   active |-> Prices!Or(patch.active, old.active)]
           f == [Prices!Idle EXCEPT !.pc = "check", !.id = i, !.new = new, !.old = old,
                                    !.patch = patch]
<1>2. /\ Prices!ValidSlab(new)
      /\ priceRequest' = [priceRequest EXCEPT ![r] = f]
  BY <1>1 DEF Prices!ReadRule, Prices!Goto
<1>3. new \in Prices!Slab /\ new.price = Prices!Or(patch.price, old.price)
  <2>1. patch \in [from : 0..MaxKm \cup {None}, to : 0..MaxKm \cup {None},
                   price : Nat \cup {None}, active : BOOLEAN \cup {None}]
    BY PricesFit
  <2>2. Prices!Or(patch.from, old.from) \in 0..MaxKm
    BY <2>1 DEF Prices!Row, Prices!Or
  <2>3. Prices!Or(patch.to, old.to) \in 0..MaxKm
    BY <2>1 DEF Prices!Row, Prices!Or
  <2>4. Prices!Or(patch.price, old.price) \in Nat
    BY <2>1 DEF Prices!Row, Prices!Or
  <2>5. Prices!Or(patch.active, old.active) \in BOOLEAN
    <3>1. patch.active \in BOOLEAN \cup {None} /\ old.active \in BOOLEAN
      BY <2>1 DEF Prices!Row
    <3> QED BY <3>1, Zenon DEF Prices!Or
  <2> QED BY <2>2, <2>3, <2>4, <2>5 DEF Prices!Slab
<1> HIDE DEF new
<1>4. new.from < new.to
  BY <1>2, <1>3, PricesFit DEF Prices!ValidSlab, Prices!Slab
<1>5. f \in PriceFrame
  BY <1>3, IdlePrice DEF PriceFrame
<1>6. f.pc = "check" /\ f.id = i /\ f.new = new /\ f.old = old /\ f.patch = patch
  BY DEF Prices!Idle
<1> HIDE DEF f
<1>7. PICK q \in PriceFrame : q = f
  BY <1>5
<1>8. q.old # None /\ q.old = rule[q.id] /\ q.pc # "history"
  BY <1>1, <1>6, <1>7, PricesFit
<1>9. KnowsPrice(q)
  <2>1. Asks(q)
    BY <1>3, <1>4, <1>6, <1>7, <1>8 DEF Asks
  <2>2. KnowsOld(q)
    <3>1. old.version \in Nat /\ rule[i] # None /\ RuleFits(i)
      BY <1>1, PricesFit DEF PriceSound, Prices!Row
    <3>2. old.version >= 1
      BY <1>1, <3>1 DEF RuleFits
    <3> QED BY <1>1, <1>6, <1>7, <1>8, <3>1, <3>2 DEF KnowsOld
  <2> QED BY <1>6, <1>7, <2>1, <2>2, PricesFit DEF KnowsPrice
<1>10. UNCHANGED <<rule, history, priceWrites, wrote, asked, priceRaced>>
  BY DEF Prices!ReadRule, Prices!ghosts
<1>11. priceRequest' = [priceRequest EXCEPT ![r] = q]
  BY <1>2, <1>7
<1> QED BY <1>8, <1>9, <1>10, <1>11, PriceFrameStep

LEMMA CheckStep ==
    ASSUME PriceSound, NEW r \in Requests, Prices!AssertNoCrossingOverlap(r)
    PROVE  PriceSound'
<1>1. PICK p \in PriceFrame : p = priceRequest[r]
  BY DEF PriceSound, PriceTypeOK
<1>2. p.pc = "check" /\ KnowsPrice(p) /\ priceWrites \in 0..MaxWrites
  BY <1>1 DEF PriceSound, PriceTypeOK, Prices!AssertNoCrossingOverlap, Prices!At
<1>3. UNCHANGED <<rule, history, priceWrites, wrote, asked, priceRaced>>
  BY DEF Prices!AssertNoCrossingOverlap, Prices!ghosts
<1>4. CASE Prices!Overlaps(p.new, p.id)
  BY <1>1, <1>3, <1>4, PriceIdleStep DEF Prices!AssertNoCrossingOverlap
<1>5. CASE ~Prices!Overlaps(p.new, p.id)
  <2>1. PICK q \in PriceFrame : q = [p EXCEPT !.pc = "write", !.seen = priceWrites]
    BY <1>2 DEF PriceFrame
  <2>2. /\ q.pc = "write" /\ q.id = p.id /\ q.new = p.new /\ q.old = p.old /\ q.patch = p.patch
        /\ q.seen = priceWrites
    BY <2>1 DEF PriceFrame
  <2>3. Unseen(q)
    <3>1. \A i \in Prices!Listed \ {q.id} : ~Prices!Crosses(q.new, rule[i])
      BY <1>5, <2>2 DEF Prices!Overlaps
    <3>2. priceWrites <= priceWrites
      BY <1>2, PricesFit
    <3> QED BY <2>2, <3>1, <3>2 DEF Unseen
  <2>4. KnowsPrice(q)
    BY <1>2, <2>2, <2>3 DEF KnowsPrice, KnowsOld, Asks
  <2>5. priceRequest' = [priceRequest EXCEPT ![r] = q]
    BY <1>1, <1>5, <2>1 DEF Prices!AssertNoCrossingOverlap, Prices!Goto
  <2>6. priceRequest[r].pc \in {"check", "write"} /\ q.pc # "history"
        /\ q.id = priceRequest[r].id /\ q.old = priceRequest[r].old
    BY <1>1, <1>2, <2>2
  <2> QED BY <1>3, <2>4, <2>5, <2>6, PriceFrameStep
<1> QED BY <1>4, <1>5

-----------------------------------------------------------------------------
(* The write of a rule: request r, which knew p, writes the row and goes on   *)
(* as q.                                                                      *)
WritesRow(r, p, q, row) ==
    /\ p = priceRequest[r] /\ p.pc = "write" /\ KnowsPrice(p) /\ p.id \in Rules
    /\ row.from = p.new.from /\ row.to = p.new.to /\ row.price = p.new.price
    /\ p.old = None => row.version = 1
    /\ p.old # None => rule[p.id] # None /\ row.version = rule[p.id].version + 1
    /\ q.pc = "history" /\ q.id = p.id /\ q.old = p.old /\ q.new = row
    /\ rule' = [rule EXCEPT ![p.id] = row]
    /\ priceRequest' = [priceRequest EXCEPT ![r] = q]
    /\ priceWrites < MaxWrites /\ priceWrites' = priceWrites + 1
    /\ wrote' = [wrote EXCEPT ![p.id] = [at |-> priceWrites + 1, seen |-> p.seen]]
    /\ p.old = None => asked' = [asked EXCEPT ![p.id] = p.new.price] /\ priceRaced' = priceRaced
    /\ p.old # None => /\ asked' = [asked EXCEPT ![p.id] = Prices!Or(p.patch.price, @)]
                       /\ priceRaced' = IF rule[p.id].version = p.old.version THEN priceRaced
                                        ELSE priceRaced \cup {p.id}
    /\ history' = history

LEMMA RowIsWritten ==
    ASSUME PriceSound, NEW r \in Requests, Prices!WriteRule(r),
           ~\E j \in Prices!Listed \ {priceRequest[r].id} :
               Prices!Same(priceRequest[r].new, rule[j])
    PROVE  \E p \in PriceFrame, q \in PriceFrame, row \in Prices!Row : WritesRow(r, p, q, row)
<1>1. PICK p \in PriceFrame : p = priceRequest[r]
  BY DEF PriceSound, PriceTypeOK
<1>2. p.pc = "write" /\ KnowsPrice(p) /\ p.id \in Rules
  BY <1>1 DEF PriceSound, PriceFrame, KnowsPrice, Prices!WriteRule, Prices!At
<1>3. p.new \in Prices!Slab /\ KnowsOld(p) /\ (p.old = None => rule[p.id] = None)
  BY <1>2 DEF KnowsPrice, Asks
<1>4. PICK version \in Nat : version = IF p.old = None THEN 1 ELSE rule[p.id].version + 1
  <2>1. p.old # None => rule[p.id] \in Prices!Row
    BY <1>2, <1>3 DEF KnowsOld, PriceSound, PriceTypeOK
  <2> QED BY <2>1 DEF Prices!Row
<1>5. PICK row \in Prices!Row :
          row = [from |-> p.new.from, to |-> p.new.to, price |-> p.new.price,
                 active |-> p.new.active, version |-> version]
  BY <1>3 DEF Prices!Row, Prices!Slab
<1>6. /\ row.from = p.new.from /\ row.to = p.new.to /\ row.price = p.new.price
      /\ row.version = version
  BY <1>5
<1>7. PICK q \in PriceFrame : q = [p EXCEPT !.pc = "history", !.new = row]
  BY DEF PriceFrame
<1>8. q.pc = "history" /\ q.id = p.id /\ q.old = p.old /\ q.new = row
  BY <1>7 DEF PriceFrame
<1>9. /\ rule' = [rule EXCEPT ![p.id] = row]
      /\ priceRequest' = [priceRequest EXCEPT ![r] = q]
      /\ priceWrites < MaxWrites /\ priceWrites' = priceWrites + 1
      /\ wrote' = [wrote EXCEPT ![p.id] = [at |-> priceWrites + 1, seen |-> p.seen]]
      /\ history' = history
  BY <1>1, <1>4, <1>5, <1>7 DEF Prices!WriteRule, Prices!Goto
<1>10. p.old = None => /\ asked' = [asked EXCEPT ![p.id] = p.new.price]
                       /\ priceRaced' = priceRaced
  BY <1>1 DEF Prices!WriteRule
<1>11. p.old # None => /\ asked' = [asked EXCEPT ![p.id] = Prices!Or(p.patch.price, @)]
                       /\ priceRaced' = IF rule[p.id].version = p.old.version THEN priceRaced
                                        ELSE priceRaced \cup {p.id}
  BY <1>1 DEF Prices!WriteRule
<1>12. /\ p.old = None => row.version = 1
       /\ p.old # None => rule[p.id] # None /\ row.version = rule[p.id].version + 1
  BY <1>2, <1>3, <1>4, <1>6 DEF KnowsOld
<1> QED BY <1>1, <1>2, <1>6, <1>8, <1>9, <1>10, <1>11, <1>12 DEF WritesRow

(* What the step does to each rule: its version grows. *)
LEMMA RowGrows ==
    ASSUME PriceSound, NEW r \in Requests, NEW p \in PriceFrame, NEW q \in PriceFrame,
           NEW row \in Prices!Row, WritesRow(r, p, q, row)
    PROVE  /\ rule'[p.id] = row /\ row # None
           /\ \A i \in Rules \ {p.id} : rule'[i] = rule[i] /\ wrote'[i] = wrote[i]
           /\ wrote'[p.id].at = priceWrites + 1 /\ wrote'[p.id].seen = p.seen
           /\ row.version >= 1
           /\ rule[p.id] # None => /\ rule[p.id].version \in Nat
                                   /\ row.version = rule[p.id].version + 1
           /\ \A v \in Requests \ {r} : priceRequest'[v] = priceRequest[v]
           /\ priceRequest'[r] = q
           /\ priceRaced \subseteq priceRaced' /\ priceRaced' \subseteq Rules
           /\ p.new \in Prices!Slab /\ p.new.from < p.new.to
           /\ p.old = None <=> rule[p.id] = None
<1>1. KnowsPrice(p) /\ p.pc = "write" /\ p.id \in Rules
  BY DEF WritesRow
<1>2. Asks(p) /\ KnowsOld(p)
  BY <1>1 DEF KnowsPrice
<1>3. p.old = None <=> rule[p.id] = None
  BY <1>2 DEF Asks, KnowsOld
<1>4. rule[p.id] # None => /\ rule[p.id].version \in Nat
                           /\ row.version = rule[p.id].version + 1
  <2>1. rule[p.id] # None => rule[p.id] \in Prices!Row
    BY <1>1 DEF PriceSound, PriceTypeOK
  <2>2. rule[p.id] # None => rule[p.id].version \in Nat
    BY <2>1 DEF Prices!Row
  <2>3. rule[p.id] # None => row.version = rule[p.id].version + 1
    BY <1>3 DEF WritesRow
  <2> QED BY <2>2, <2>3
<1>5. row.version >= 1
  BY <1>3, <1>4 DEF WritesRow
<1>6. /\ rule'[p.id] = row /\ row # None
      /\ \A i \in Rules \ {p.id} : rule'[i] = rule[i]
  BY <1>1, PricesFit DEF WritesRow, PriceSound, PriceTypeOK
<1>7. /\ \A i \in Rules \ {p.id} : wrote'[i] = wrote[i]
      /\ wrote'[p.id].at = priceWrites + 1 /\ wrote'[p.id].seen = p.seen
  BY <1>1 DEF WritesRow, PriceSound, PriceTypeOK
<1>8. /\ \A v \in Requests \ {r} : priceRequest'[v] = priceRequest[v]
      /\ priceRequest'[r] = q
  BY DEF WritesRow, PriceSound, PriceTypeOK
<1>9. priceRaced \subseteq priceRaced' /\ priceRaced' \subseteq Rules
  BY <1>1 DEF WritesRow, PriceSound, PriceTypeOK
<1>10. p.new \in Prices!Slab /\ p.new.from < p.new.to
  BY <1>2 DEF Asks
<1> QED BY <1>3, <1>4, <1>5, <1>6, <1>7, <1>8, <1>9, <1>10

LEMMA WrittenTypes ==
    ASSUME PriceSound, NEW r \in Requests, NEW p \in PriceFrame, NEW q \in PriceFrame,
           NEW row \in Prices!Row, WritesRow(r, p, q, row)
    PROVE  PriceTypeOK' /\ \A i \in Rules : RuleFits(i)'
<1>1. p.id \in Rules /\ priceWrites \in 0..MaxWrites /\ priceWrites < MaxWrites
      /\ priceWrites' = priceWrites + 1 /\ MaxWrites \in Nat
  BY PricesFit DEF WritesRow, PriceSound, PriceTypeOK
<1>2. priceWrites' \in 0..MaxWrites
  BY <1>1
<1>3. rule' \in [Rules -> Prices!Row \cup {None}]
  BY DEF WritesRow, PriceSound, PriceTypeOK
<1>4. wrote' \in [Rules -> [at : 0..MaxWrites, seen : 0..MaxWrites]]
  <2>1. [at |-> priceWrites + 1, seen |-> p.seen] \in [at : 0..MaxWrites, seen : 0..MaxWrites]
    BY <1>1, <1>2 DEF PriceFrame
  <2> QED BY <2>1 DEF WritesRow, PriceSound, PriceTypeOK
<1>5. asked' \in [Rules -> Nat]
  <2>1. p.new.price \in Nat
    BY RowGrows DEF Prices!Slab
  <2>2. p.old # None => Prices!Or(p.patch.price, asked[p.id]) \in Nat
    <3>1. p.old # None => p.patch \in Patches
      BY DEF WritesRow, KnowsPrice, Asks
    <3>2. p.old # None => p.patch.price \in Nat \cup {None}
      BY <3>1, PricesFit
    <3>3. asked[p.id] \in Nat
      BY <1>1 DEF PriceSound, PriceTypeOK
    <3> QED BY <3>2, <3>3 DEF Prices!Or
  <2>3. CASE p.old = None
    BY <2>1, <2>3 DEF WritesRow, PriceSound, PriceTypeOK
  <2>4. CASE p.old # None
    BY <2>2, <2>4 DEF WritesRow, PriceSound, PriceTypeOK
  <2> QED BY <2>3, <2>4
<1>6. priceRequest' \in [Requests -> PriceFrame]
  BY DEF WritesRow, PriceSound, PriceTypeOK
<1>7. history' = history /\ priceRaced' \subseteq Rules
  BY RowGrows DEF WritesRow
<1>8. \A i \in Rules : RuleFits(i)'
  <2> SUFFICES ASSUME NEW i \in Rules
               PROVE  RuleFits(i)'
    OBVIOUS
  <2>1. CASE i = p.id
    <3>1. rule'[i] = row /\ wrote'[i].at = priceWrites + 1 /\ row.version >= 1
          /\ p.new.from < p.new.to
      BY <2>1, RowGrows
    <3>2. row.from < row.to
      BY <3>1 DEF WritesRow
    <3>3. priceWrites + 1 <= priceWrites'
      BY <1>1
    <3> QED BY <3>1, <3>2, <3>3 DEF RuleFits
  <2>2. CASE i # p.id
    <3>1. rule'[i] = rule[i] /\ wrote'[i] = wrote[i]
      BY <2>2, RowGrows
    <3>2. wrote[i].at \in Int /\ RuleFits(i)
      BY <1>1 DEF PriceSound, PriceTypeOK
    <3>3. wrote[i].at <= priceWrites => wrote[i].at <= priceWrites'
      BY <1>1, <3>2
    <3> QED BY <3>1, <3>2, <3>3 DEF RuleFits
  <2> QED BY <2>1, <2>2
<1> QED BY <1>2, <1>3, <1>4, <1>5, <1>6, <1>7, <1>8 DEF PriceSound, PriceTypeOK

(* The others still know what they knew, and r what it has written. *)
LEMMA WrittenFrames ==
    ASSUME PriceSound, NEW r \in Requests, NEW p \in PriceFrame, NEW q \in PriceFrame,
           NEW row \in Prices!Row, WritesRow(r, p, q, row)
    PROVE  OwnId' /\ \A v \in Requests : KnowsPrice(priceRequest[v])'
<1>1. /\ p.id \in Rules /\ p.id # None /\ q.id = p.id /\ q.old = p.old /\ q.new = row
      /\ q.pc = "history" /\ KnowsPrice(p) /\ p.pc = "write" /\ p = priceRequest[r]
  BY PricesFit DEF WritesRow
<1>2. /\ rule'[p.id] = row /\ row # None
      /\ \A i \in Rules \ {p.id} : rule'[i] = rule[i] /\ wrote'[i] = wrote[i]
      /\ wrote'[p.id].at = priceWrites + 1
      /\ row.version >= 1 /\ row.version \in Nat
      /\ rule[p.id] # None => /\ rule[p.id].version \in Nat
                              /\ row.version = rule[p.id].version + 1
      /\ p.old = None <=> rule[p.id] = None
  BY RowGrows DEF Prices!Row
<1>3. /\ \A v \in Requests \ {r} : priceRequest'[v] = priceRequest[v]
      /\ priceRequest'[r] = q /\ priceRaced \subseteq priceRaced'
  BY RowGrows
<1>4. priceWrites \in Nat /\ priceWrites' = priceWrites + 1
  BY PricesFit DEF WritesRow, PriceSound, PriceTypeOK
<1>5. OwnId /\ \A v \in Requests : KnowsPrice(priceRequest[v])
  BY DEF PriceSound
<1>6. OwnId'
  <2> SUFFICES ASSUME NEW u \in Requests, NEW v \in Requests, u # v, Creates(priceRequest'[u])
               PROVE  priceRequest'[v].id # priceRequest'[u].id
    BY DEF OwnId, Creates
  <2>1. u # r
    BY <1>1, <1>3 DEF Creates
  <2>2. priceRequest'[u] = priceRequest[u] /\ priceRequest'[v].id = priceRequest[v].id
    BY <1>1, <1>3, <2>1
  <2> QED BY <1>5, <2>2 DEF OwnId
<1>7. ASSUME NEW v \in Requests \ {r}
      PROVE  KnowsPrice(priceRequest[v])'
  <2>1. PICK u \in PriceFrame : u = priceRequest[v]
    BY DEF PriceSound, PriceTypeOK
  <2>2. KnowsPrice(u) /\ (Creates(u) => u.id # p.id) /\ (u.pc # "idle" => u.id \in Rules)
    BY <1>1, <1>5, <2>1 DEF OwnId, KnowsPrice, PriceFrame
  <2>3. /\ u.old # None => u.old.version \in Nat
        /\ u.new \in Prices!Row => u.new.version \in Nat
    BY DEF PriceFrame, Prices!Row
  <2>4. u.pc # "idle" => KnowsOld(u)'
    <3>1. CASE u.pc # "idle" /\ u.id = p.id
      BY <1>2, <2>2, <2>3, <3>1 DEF KnowsOld, KnowsPrice
    <3>2. CASE u.pc # "idle" /\ u.id # p.id
      BY <1>2, <2>2, <3>2 DEF KnowsOld, KnowsPrice
    <3> QED BY <3>1, <3>2
  <2>5. u.pc \in {"check", "write"} => Asks(u)'
    <3>1. u.pc \in {"check", "write"} /\ u.old = None => rule'[u.id] = rule[u.id]
      BY <1>2, <2>2 DEF Creates
    <3> QED BY <2>2, <3>1 DEF Asks, KnowsPrice
  <2>6. u.pc = "write" => Unseen(u)'
    <3> SUFFICES ASSUME u.pc = "write"
                 PROVE  Unseen(u)'
      OBVIOUS
    <3>1. Unseen(u) /\ u.seen \in Nat
      BY <2>2, PricesFit DEF KnowsPrice, PriceFrame
    <3>2. u.seen <= priceWrites' /\ priceWrites + 1 > u.seen
      BY <1>4, <3>1 DEF Unseen
    <3>3. \A i \in Prices!Listed' \ {u.id} :
             Prices!Crosses(u.new, rule'[i]) => wrote'[i].at > u.seen
      <4> SUFFICES ASSUME NEW i \in Rules \ {u.id}, rule'[i] # None,
                          Prices!Crosses(u.new, rule'[i])
                   PROVE  wrote'[i].at > u.seen
        BY DEF Prices!Listed
      <4>1. CASE i = p.id
        BY <1>2, <3>2, <4>1
      <4>2. CASE i # p.id
        BY <1>2, <3>1, <4>2 DEF Unseen, Prices!Listed
      <4> QED BY <4>1, <4>2
    <3> QED BY <3>2, <3>3 DEF Unseen
  <2>7. u.pc = "history" => Written(u)'
    <3> SUFFICES ASSUME u.pc = "history"
                 PROVE  Written(u)'
      OBVIOUS
    <3>1. Written(u)
      BY <2>2 DEF KnowsPrice
    <3>2. CASE u.id = p.id
      BY <1>2, <1>3, <2>3, <3>1, <3>2 DEF Written
    <3>3. CASE u.id # p.id
      BY <1>2, <1>3, <2>2, <3>1, <3>3 DEF Written
    <3> QED BY <3>2, <3>3
  <2>8. KnowsPrice(u)'
    BY <2>2, <2>4, <2>5, <2>6, <2>7 DEF KnowsPrice
  <2>9. priceRequest'[v] = u
    BY <1>3, <2>1
  <2> QED BY <2>8, <2>9 DEF KnowsPrice, KnowsOld, Asks, Unseen, Written
<1>8. KnowsPrice(priceRequest[r])'
  <2>1. KnowsOld(q)'
    <3>1. KnowsOld(p)
      BY <1>1 DEF KnowsPrice
    <3>2. p.old # None => p.old.version \in Nat
      BY DEF PriceFrame, Prices!Row
    <3> QED BY <1>1, <1>2, <3>1, <3>2 DEF KnowsOld
  <2>2. Written(q)'
    <3>1. p.old = None => row.version = 1
      BY DEF WritesRow
    <3>2. p.old # None => p.id \in priceRaced' \/ row.version = p.old.version + 1
      BY <1>1, <1>2 DEF WritesRow
    <3>3. row.version <= row.version
      BY <1>2
    <3> QED BY <1>1, <1>2, <3>1, <3>2, <3>3 DEF Written
  <2>3. KnowsPrice(q)'
    BY <1>1, <2>1, <2>2 DEF KnowsPrice
  <2> QED BY <1>3, <2>3 DEF KnowsPrice, KnowsOld, Asks, Unseen, Written
<1> QED BY <1>6, <1>7, <1>8

(* What crosses the new row was written after r had looked. *)
LEMMA WrittenNests ==
    ASSUME PriceSound, NEW r \in Requests, NEW p \in PriceFrame, NEW q \in PriceFrame,
           NEW row \in Prices!Row, WritesRow(r, p, q, row)
    PROVE  Prices!SlabsNest'
<1>1. /\ rule'[p.id] = row
      /\ \A i \in Rules \ {p.id} : rule'[i] = rule[i] /\ wrote'[i] = wrote[i]
      /\ wrote'[p.id].at = priceWrites + 1 /\ wrote'[p.id].seen = p.seen
  BY RowGrows
<1>2. p.id \in Rules /\ Unseen(p)
  BY DEF WritesRow, KnowsPrice
<1>3. priceWrites \in Nat
  BY PricesFit DEF PriceSound, PriceTypeOK
<1> SUFFICES ASSUME NEW i \in Rules, NEW j \in Rules, rule'[i] # None, rule'[j] # None,
                    Prices!Crosses(rule'[i], rule'[j]), wrote'[i].at < wrote'[j].at
             PROVE  wrote'[j].seen < wrote'[i].at
  BY DEF Prices!SlabsNest, Prices!Listed
<1>4. \A k \in Rules : rule[k] # None => wrote[k].at \in Int /\ wrote[k].at <= priceWrites
  BY DEF PriceSound, PriceTypeOK, RuleFits
<1>5. CASE i # p.id /\ j # p.id
  BY <1>1, <1>5 DEF PriceSound, Prices!SlabsNest, Prices!Listed
<1>6. CASE i = p.id
  <2>1. CASE j = p.id
    BY <1>1, <1>3, <1>6, <2>1
  <2>2. CASE j # p.id
    BY <1>1, <1>3, <1>4, <1>6, <2>2
  <2> QED BY <2>1, <2>2
<1>7. CASE i # p.id /\ j = p.id
  <2>1. PICK a \in Prices!Row : a = rule[i] /\ a # None
    BY <1>1, <1>7 DEF PriceSound, PriceTypeOK
  <2>2. Prices!Crosses(a, row)
    BY <1>1, <1>7, <2>1
  <2>3. row.from = p.new.from /\ row.to = p.new.to
    BY DEF WritesRow
  <2>4. Prices!Crosses(p.new, a)
    BY <2>2, <2>3, PricesFit DEF Prices!Crosses, Prices!Nested, Prices!Within, Prices!Row
  <2>5. wrote[i].at > p.seen /\ wrote[i].at \in Int /\ p.seen \in Int
    BY <1>2, <1>4, <1>7, <2>1, <2>4, PricesFit DEF Unseen, Prices!Listed, PriceFrame
  <2> QED BY <1>1, <1>7, <2>5
<1> QED BY <1>5, <1>6, <1>7

(* A silent update puts back the price it had read: nobody asked for another  *)
(* one, or the rule is raced.                                                 *)
LEMMA WrittenAsAsked ==
    ASSUME PriceSound, NEW r \in Requests, NEW p \in PriceFrame, NEW q \in PriceFrame,
           NEW row \in Prices!Row, WritesRow(r, p, q, row)
    PROVE  Prices!PriceIsAsAsked'
<1>1. /\ rule'[p.id] = row
      /\ \A i \in Rules \ {p.id} : rule'[i] = rule[i]
      /\ priceRaced \subseteq priceRaced'
  BY RowGrows
<1>2. p.id \in Rules /\ row.price = p.new.price /\ KnowsPrice(p) /\ p.pc = "write"
  BY DEF WritesRow
<1>3. Asks(p) /\ KnowsOld(p)
  BY <1>2 DEF KnowsPrice
<1>4. Prices!PriceIsAsAsked
  BY DEF PriceSound
<1> SUFFICES ASSUME NEW i \in Rules \ priceRaced', rule'[i] # None
             PROVE  rule'[i].price = asked'[i]
  BY DEF Prices!PriceIsAsAsked, Prices!Listed
<1>5. CASE i # p.id
  <2>1. asked'[i] = asked[i]
    <3>1. CASE p.old = None
      BY <1>5, <3>1 DEF WritesRow, PriceSound, PriceTypeOK
    <3>2. CASE p.old # None
      BY <1>5, <3>2 DEF WritesRow, PriceSound, PriceTypeOK
    <3> QED BY <3>1, <3>2
  <2> QED BY <1>1, <1>4, <1>5, <2>1 DEF Prices!PriceIsAsAsked, Prices!Listed
<1>6. CASE i = p.id /\ p.old = None
  <2>1. asked'[i] = p.new.price
    BY <1>2, <1>6 DEF WritesRow, PriceSound, PriceTypeOK
  <2> QED BY <1>1, <1>2, <1>6, <2>1
<1>7. CASE i = p.id /\ p.old # None
  <2>1. asked'[i] = Prices!Or(p.patch.price, asked[i])
    BY <1>2, <1>7 DEF WritesRow, PriceSound, PriceTypeOK
  <2>2. row.price = Prices!Or(p.patch.price, p.old.price)
    BY <1>2, <1>3, <1>7 DEF Asks
  <2>3. rule[i].version = p.old.version
    BY <1>7 DEF WritesRow
  <2>4. p.old = rule[i] /\ rule[i] # None
    BY <1>3, <1>7, <2>3 DEF KnowsOld
  <2>5. rule[i].price = asked[i]
    BY <1>1, <1>4, <2>4 DEF Prices!PriceIsAsAsked, Prices!Listed
  <2> QED BY <1>1, <1>7, <2>1, <2>2, <2>4, <2>5
<1> QED BY <1>5, <1>6, <1>7

(* The new row has the next version, of which nobody has told anything yet. *)
LEMMA WrittenTells ==
    ASSUME PriceSound, NEW r \in Requests, NEW p \in PriceFrame, NEW q \in PriceFrame,
           NEW row \in Prices!Row, WritesRow(r, p, q, row)
    PROVE  \E told \in [Rules -> [Nat -> Nat]] : Tells(told)'
<1>1. PICK old \in [Rules -> [Nat -> Nat]] : Tells(old)
  BY DEF PriceSound
<1>2. /\ rule'[p.id] = row /\ row # None /\ row.version \in Nat /\ row.price \in Nat
      /\ \A i \in Rules \ {p.id} : rule'[i] = rule[i]
      /\ row.version >= 1
      /\ rule[p.id] # None => /\ rule[p.id].version \in Nat
                              /\ row.version = rule[p.id].version + 1
      /\ p.old = None <=> rule[p.id] = None
      /\ priceRaced \subseteq priceRaced'
  BY RowGrows DEF Prices!Row
<1>3. p.id \in Rules /\ q.id = p.id /\ q.old = p.old /\ q.new = row /\ p = priceRequest[r]
      /\ p.pc = "write" /\ KnowsPrice(p)
  BY DEF WritesRow
<1>4. PICK told \in [Rules -> [Nat -> Nat]] :
          /\ told[p.id][row.version] = row.price
          /\ \A i \in Rules, n \in Nat :
                i # p.id \/ n # row.version => told[i][n] = old[i][n]
  <2>1. PICK line1 \in [Nat -> Nat] : line1 = [old[p.id] EXCEPT ![row.version] = row.price]
    BY <1>1, <1>2, <1>3
  <2>2. PICK told \in [Rules -> [Nat -> Nat]] : told = [old EXCEPT ![p.id] = line1]
    BY <1>1, <1>3
  <2>3. told[p.id] = line1 /\ \A i \in Rules : i # p.id => told[i] = old[i]
    BY <1>3, <2>2
  <2>4. line1[row.version] = row.price /\ \A n \in Nat : n # row.version => line1[n] = old[p.id][n]
    BY <1>1, <1>2, <1>3, <2>1
  <2> QED BY <2>3, <2>4
\* What is told of a rule that is there, up to its version, stays.
<1>5. \A i \in Rules, n \in Nat :
          rule[i] # None /\ n <= rule[i].version => told[i][n] = old[i][n]
  <2> SUFFICES ASSUME NEW i \in Rules, NEW n \in Nat, rule[i] # None, n <= rule[i].version
               PROVE  told[i][n] = old[i][n]
    OBVIOUS
  <2>1. CASE i = p.id
    <3>1. n # row.version
      BY <1>2, <2>1
    <3> QED BY <1>4, <3>1
  <2>2. CASE i # p.id
    BY <1>4, <2>2
  <2> QED BY <2>1, <2>2
<1>6. \A i \in Rules : rule'[i] # None => told[i][rule'[i].version] = rule'[i].price
  <2> SUFFICES ASSUME NEW i \in Rules, rule'[i] # None
               PROVE  told[i][rule'[i].version] = rule'[i].price
    OBVIOUS
  <2>1. CASE i = p.id
    BY <1>2, <1>4, <2>1
  <2>2. CASE i # p.id
    <3>1. PICK a \in Prices!Row : a = rule[i] /\ a # None
      BY <1>2, <2>2 DEF PriceSound, PriceTypeOK
    <3>2. a.version \in Nat /\ old[i][a.version] = a.price
      BY <1>1, <3>1 DEF Tells, Prices!Row
    <3>3. told[i][a.version] = old[i][a.version]
      BY <1>4, <2>2, <3>2
    <3> QED BY <1>2, <2>2, <3>1, <3>2, <3>3
  <2> QED BY <2>1, <2>2
\* The frames; what they tell is at most as new as the rule was.
<1>7. ASSUME NEW v \in Requests, NEW u \in PriceFrame, u = priceRequest[v]
      PROVE  /\ u.pc # "idle" /\ u.old # None => told[u.id][u.old.version] = u.old.price
             /\ u.pc = "history" => told[u.id][u.new.version] = u.new.price
  <2>1. KnowsPrice(u) /\ TellsFrame(old, u)
    BY <1>1, <1>7 DEF PriceSound, Tells
  <2>2. u.pc # "idle" => u.id \in Rules
    BY <2>1 DEF KnowsPrice, PriceFrame
  <2>3. CASE u.pc # "idle" /\ u.old # None
    <3>1. rule[u.id] # None /\ u.old.version <= rule[u.id].version
      BY <2>1, <2>3 DEF KnowsPrice, KnowsOld
    <3>2. u.old.version \in Nat
      BY <2>3 DEF PriceFrame, Prices!Row
    <3>3. told[u.id][u.old.version] = old[u.id][u.old.version]
      BY <1>5, <2>2, <2>3, <3>1, <3>2
    <3>4. old[u.id][u.old.version] = u.old.price
      BY <2>1, <2>3 DEF TellsFrame
    <3>5. u.pc = "history" => told[u.id][u.new.version] = u.new.price
      <4>1. u.pc = "history" => /\ rule[u.id] # None /\ u.new.version <= rule[u.id].version
                                /\ u.new.version \in Nat
        BY <2>1 DEF KnowsPrice, Written, Prices!Row
      <4> QED BY <1>5, <2>1, <2>2, <4>1 DEF TellsFrame
    <3> QED BY <3>3, <3>4, <3>5
  <2>4. CASE u.pc = "history"
    <3>1. /\ rule[u.id] # None /\ u.new.version <= rule[u.id].version
          /\ u.new.version \in Nat
      BY <2>1, <2>4 DEF KnowsPrice, Written, Prices!Row
    <3>2. told[u.id][u.new.version] = u.new.price
      BY <1>5, <2>1, <2>2, <2>4, <3>1 DEF TellsFrame
    <3> QED BY <2>3, <3>2
  <2> QED BY <2>3, <2>4
<1>8. \A v \in Requests : TellsFrame(told, priceRequest'[v])
  <2> SUFFICES ASSUME NEW v \in Requests
               PROVE  TellsFrame(told, priceRequest'[v])
    OBVIOUS
  <2>1. CASE v # r
    <3>1. PICK u \in PriceFrame : u = priceRequest[v]
      BY DEF PriceSound, PriceTypeOK
    <3>2. priceRequest'[v] = u
      BY <2>1, <3>1, RowGrows
    <3> QED BY <1>7, <3>1, <3>2 DEF TellsFrame
  <2>2. CASE v = r
    <3>1. priceRequest'[v] = q
      BY <2>2, RowGrows
    <3>2. p.old # None => told[p.id][p.old.version] = p.old.price
      BY <1>3, <1>7
    <3> QED BY <1>2, <1>3, <1>4, <3>1, <3>2 DEF TellsFrame
  <2> QED BY <2>1, <2>2
<1>9. \A v \in Requests : TellsFrame(told, priceRequest[v])'
  BY <1>8 DEF TellsFrame
<1>10. ASSUME NEW k \in 1..Len(history)
       PROVE  TellsEntry(told, history[k])'
  <2>1. PICK e \in HistoryEntry : e = history[k]
    BY DEF PriceSound, PriceTypeOK
  <2>2. TellsEntry(old, e)
    BY <1>1, <2>1 DEF Tells
  <2>3. e.rule \in Rules /\ e.version \in Nat /\ rule[e.rule] # None
        /\ rule[e.rule].version \in Nat /\ e.version >= 1 /\ e.version <= rule[e.rule].version
    BY <2>2 DEF TellsEntry, HistoryEntry, PriceSound, PriceTypeOK, Prices!Row
  <2>a. PICK n \in Nat, m \in Nat :
            n = e.version /\ m = rule[e.rule].version /\ n >= 1 /\ n <= m
    BY <2>3
  <2>4. told[e.rule][e.version] = e.new
    BY <1>5, <2>2, <2>3 DEF TellsEntry
  <2>5. e.version > 1 /\ e.rule \notin priceRaced' => told[e.rule][e.version - 1] = e.previous
    <3>1. e.version - 1 \in Nat /\ e.version - 1 <= rule[e.rule].version
      BY <2>a
    <3>2. told[e.rule][e.version - 1] = old[e.rule][e.version - 1]
      BY <1>5, <2>3, <3>1
    <3> QED BY <1>2, <2>2, <3>2 DEF TellsEntry
  <2>6. rule'[e.rule] # None /\ e.version <= rule'[e.rule].version
    <3>1. CASE e.rule = p.id
      <4>1. rule'[e.rule] = row /\ row # None /\ row.version = m + 1
        BY <1>2, <2>3, <2>a, <3>1
      <4>2. n <= m + 1
        BY <2>a
      <4> QED BY <2>a, <4>1, <4>2
    <3>2. CASE e.rule # p.id
      <4>1. rule'[e.rule] = rule[e.rule]
        BY <1>2, <2>3, <3>2
      <4> QED BY <2>3, <4>1
    <3> QED BY <3>1, <3>2
  <2>7. history'[k] = e
    BY <2>1 DEF WritesRow
  <2> QED BY <2>3, <2>4, <2>5, <2>6, <2>7 DEF TellsEntry
<1>11. history' = history
  BY DEF WritesRow
<1>12. Tells(told)'
  BY <1>6, <1>9, <1>10, <1>11 DEF Tells
<1> QED BY <1>12

LEMMA WriteRuleStep ==
    ASSUME PriceSound, NEW r \in Requests, Prices!WriteRule(r)
    PROVE  PriceSound'
<1>1. CASE \E j \in Prices!Listed \ {priceRequest[r].id} :
              Prices!Same(priceRequest[r].new, rule[j])
  <2>1. Prices!Goto(r, Prices!Idle)
        /\ UNCHANGED <<rule, history, priceWrites, wrote, asked, priceRaced>>
    BY <1>1 DEF Prices!WriteRule, Prices!ghosts
  <2> QED BY <2>1, PriceIdleStep
<1>2. CASE ~\E j \in Prices!Listed \ {priceRequest[r].id} :
               Prices!Same(priceRequest[r].new, rule[j])
  <2>1. PICK p \in PriceFrame, q \in PriceFrame, row \in Prices!Row : WritesRow(r, p, q, row)
    BY <1>2, RowIsWritten
  <2>2. PriceTypeOK' /\ \A i \in Rules : RuleFits(i)'
    BY <2>1, WrittenTypes
  <2>3. OwnId' /\ \A v \in Requests : KnowsPrice(priceRequest[v])'
    BY <2>1, WrittenFrames
  <2>4. Prices!SlabsNest' /\ Prices!PriceIsAsAsked'
    BY <2>1, WrittenNests, WrittenAsAsked
  <2>5. \E told \in [Rules -> [Nat -> Nat]] : Tells(told)'
    BY <2>1, WrittenTells
  <2> QED BY <2>2, <2>3, <2>4, <2>5 DEF PriceSound
<1> QED BY <1>1, <1>2

(* The entry says what the frame knew. *)
LEMMA WriteHistoryStep ==
    ASSUME PriceSound, NEW r \in Requests, Prices!WriteHistory(r)
    PROVE  PriceSound'
<1>1. PICK p \in PriceFrame : p = priceRequest[r]
  BY DEF PriceSound, PriceTypeOK
<1>2. p.pc = "history" /\ KnowsPrice(p) /\ p.id \in Rules
  BY <1>1 DEF PriceSound, PriceFrame, KnowsPrice, Prices!WriteHistory, Prices!At
<1>3. Written(p) /\ KnowsOld(p)
  BY <1>2 DEF KnowsPrice
<1>a. PICK before \in Nat : before = IF p.old = None THEN 0 ELSE p.old.price
  <2>1. p.old # None => p.old.price \in Nat
    BY DEF PriceFrame, Prices!Row
  <2> QED BY <2>1
<1>4. PICK e \in HistoryEntry :
          e = [rule |-> p.id, version |-> p.new.version, new |-> p.new.price,
               previous |-> before]
  <2>1. p.new.version \in Nat /\ p.new.price \in Nat
    BY <1>3 DEF Written, Prices!Row
  <2> QED BY <1>2, <2>1 DEF HistoryEntry
<1>5. history' = Append(history, e) /\ priceRequest' = [priceRequest EXCEPT ![r] = Prices!Idle]
      /\ UNCHANGED <<rule, priceWrites, wrote, asked, priceRaced>>
  BY <1>1, <1>4, <1>a DEF Prices!WriteHistory, Prices!Goto, Prices!ghosts
<1>6. PICK q \in PriceFrame : q = Prices!Idle /\ q.pc = "idle" /\ q.id = None /\ q.old = None
  BY IdlePrice
<1>7. \A v \in Requests : priceRequest'[v] = IF v = r THEN q ELSE priceRequest[v]
  BY <1>5, <1>6 DEF PriceSound, PriceTypeOK
<1>8. PriceTypeOK' /\ \A i \in Rules : RuleFits(i)'
  BY <1>5, <1>6 DEF PriceSound, PriceTypeOK, RuleFits
<1>9. \A v \in Requests : KnowsPrice(priceRequest[v])'
  <2>1. KnowsPrice(q)
    BY <1>6 DEF KnowsPrice
  <2>2. \A v \in Requests : KnowsPrice(priceRequest'[v])
    BY <1>7, <2>1 DEF PriceSound
  <2> QED BY <1>5, <2>2, KnowsStays
<1>10. OwnId'
  <2> SUFFICES ASSUME NEW u \in Requests, NEW v \in Requests, u # v, Creates(priceRequest'[u])
               PROVE  priceRequest'[v].id # priceRequest'[u].id
    BY DEF OwnId, Creates
  <2>1. u # r /\ priceRequest'[u] = priceRequest[u]
    BY <1>6, <1>7 DEF Creates
  <2>2. priceRequest[u].id # None
    BY <2>1 DEF PriceSound, KnowsPrice, Creates
  <2>3. CASE v = r
    BY <1>6, <1>7, <2>1, <2>2, <2>3
  <2>4. CASE v # r
    BY <1>7, <2>1, <2>4 DEF PriceSound, OwnId
  <2> QED BY <2>3, <2>4
<1>11. Prices!SlabsNest' /\ Prices!PriceIsAsAsked'
  BY <1>5 DEF PriceSound, Prices!SlabsNest, Prices!PriceIsAsAsked, Prices!Listed
<1>12. \E told \in [Rules -> [Nat -> Nat]] : Tells(told)'
  <2>1. PICK told \in [Rules -> [Nat -> Nat]] : Tells(told)
    BY DEF PriceSound
  <2>2. \A v \in Requests : TellsFrame(told, priceRequest'[v])
    BY <1>6, <1>7, <2>1 DEF Tells, TellsFrame
  <2>3. \A v \in Requests : TellsFrame(told, priceRequest[v])'
    BY <2>2 DEF TellsFrame
  <2>4. TellsEntry(told, e)
    <3>1. TellsFrame(told, p)
      BY <1>1, <2>1 DEF Tells
    <3>2. e.rule = p.id /\ e.version = p.new.version /\ e.new = p.new.price
          /\ (p.old # None => e.previous = p.old.price)
      BY <1>4, <1>a
    <3>3. e.version > 1 /\ e.rule \notin priceRaced => told[e.rule][e.version - 1] = e.previous
      <4> SUFFICES ASSUME e.version > 1, e.rule \notin priceRaced
                   PROVE  told[e.rule][e.version - 1] = e.previous
        OBVIOUS
      <4>1. p.old # None
        BY <1>3, <3>2 DEF Written
      <4>2. e.version = p.old.version + 1
        BY <1>3, <3>2, <4>1 DEF Written
      <4>3. p.old.version \in Nat
        BY <4>1 DEF PriceFrame, Prices!Row
      <4>4. e.version - 1 = p.old.version
        BY <4>2, <4>3
      <4>5. told[p.id][p.old.version] = p.old.price
        BY <1>2, <3>1, <4>1 DEF TellsFrame
      <4> QED BY <3>2, <4>1, <4>4, <4>5
    <3>4. told[e.rule][e.version] = e.new
      BY <1>2, <3>1, <3>2 DEF TellsFrame
    <3> QED BY <1>3, <3>2, <3>3, <3>4 DEF TellsEntry, Written
  <2>5. \A k \in 1..Len(history') : TellsEntry(told, history'[k])
    <3>1. /\ Len(history') = Len(history) + 1
          /\ \A k \in 1..Len(history) : history'[k] = history[k]
          /\ history'[Len(history) + 1] = e
          /\ Len(history) \in Nat
      BY <1>5 DEF PriceSound, PriceTypeOK
    <3> QED BY <2>1, <2>4, <3>1 DEF Tells
  <2>6. \A k \in 1..Len(history') : TellsEntry(told, history[k])'
    BY <1>5, <2>5 DEF TellsEntry
  <2>7. \A i \in Rules : rule'[i] # None => told[i][rule'[i].version] = rule'[i].price
    BY <1>5, <2>1 DEF Tells
  <2>8. Tells(told)'
    BY <2>3, <2>6, <2>7 DEF Tells
  <2> QED BY <2>8
<1> QED BY <1>8, <1>9, <1>10, <1>11, <1>12 DEF PriceSound

-----------------------------------------------------------------------------
LEMMA InitPrices ==
    ASSUME Prices!Init
    PROVE  PriceSound
<1>1. /\ \A i \in Rules : rule[i] = None
      /\ Len(history) = 0
      /\ \A r \in Requests : priceRequest[r] = Prices!Idle
  BY DEF Prices!Init
<1>2. PriceTypeOK
  <2>1. history \in Seq(HistoryEntry)
    BY DEF Prices!Init
  <2>2. priceRequest \in [Requests -> PriceFrame]
    BY IdlePrice DEF Prices!Init
  <2>3. /\ priceWrites \in 0..MaxWrites
        /\ wrote \in [Rules -> [at : 0..MaxWrites, seen : 0..MaxWrites]]
    BY PricesFit DEF Prices!Init
  <2>4. /\ rule \in [Rules -> Prices!Row \cup {None}]
        /\ asked \in [Rules -> Nat] /\ priceRaced \subseteq Rules
    BY DEF Prices!Init
  <2> QED BY <2>1, <2>2, <2>3, <2>4 DEF PriceTypeOK
<1>3. \A i \in Rules : RuleFits(i)
  BY <1>1 DEF RuleFits
<1>4. \A r \in Requests : KnowsPrice(priceRequest[r])
  BY <1>1, IdlePrice DEF KnowsPrice
<1>5. OwnId
  BY <1>1, IdlePrice DEF OwnId, Creates
<1>6. Prices!SlabsNest /\ Prices!PriceIsAsAsked
  BY <1>1 DEF Prices!SlabsNest, Prices!PriceIsAsAsked, Prices!Listed
<1>7. \E told \in [Rules -> [Nat -> Nat]] : Tells(told)
  <2>1. PICK told \in [Rules -> [Nat -> Nat]] : told = [i \in Rules |-> [n \in Nat |-> 0]]
    OBVIOUS
  <2>2. \A r \in Requests : TellsFrame(told, priceRequest[r])
    BY <1>1, IdlePrice DEF TellsFrame
  <2>3. Tells(told)
    BY <1>1, <2>2 DEF Tells
  <2> QED BY <2>3
<1> QED BY <1>2, <1>3, <1>4, <1>5, <1>6, <1>7 DEF PriceSound

LEMMA NextPrices ==
    ASSUME PriceSound, [Prices!Next]_priceVars
    PROVE  PriceSound'
<1>1. ASSUME NEW r \in Requests, NEW i \in Rules, NEW new \in NewRules,
             Prices!CreateRule(r, i, new)
      PROVE  PriceSound'
  BY <1>1, CreateRuleStep
<1>2. ASSUME NEW r \in Requests, NEW i \in Rules, NEW patch \in Patches,
             Prices!ReadRule(r, i, patch)
      PROVE  PriceSound'
  BY <1>2, ReadRuleStep
<1>3. ASSUME NEW r \in Requests,
             Prices!AssertNoCrossingOverlap(r) \/ Prices!WriteRule(r) \/ Prices!WriteHistory(r)
      PROVE  PriceSound'
  BY <1>3, CheckStep, WriteRuleStep, WriteHistoryStep
<1>4. ASSUME NEW r \in Requests, Prices!Restart(r)
      PROVE  PriceSound'
  BY <1>4, PriceIdleStep DEF Prices!Restart, Prices!ghosts
<1>5. CASE UNCHANGED priceVars
  <2>1. UNCHANGED <<rule, history, priceRequest, priceWrites, wrote, asked, priceRaced>>
    BY <1>5 DEF priceVars
  <2>2. PriceTypeOK' /\ \A i \in Rules : RuleFits(i)'
    BY <2>1 DEF PriceSound, PriceTypeOK, RuleFits
  <2>3. OwnId' /\ \A r \in Requests : KnowsPrice(priceRequest[r])'
    BY <2>1 DEF PriceSound, OwnId, Creates, KnowsPrice, KnowsOld, Asks, Unseen, Written,
       Prices!Listed
  <2>4. Prices!SlabsNest' /\ Prices!PriceIsAsAsked'
    BY <2>1 DEF PriceSound, Prices!SlabsNest, Prices!PriceIsAsAsked, Prices!Listed
  <2>5. \E told \in [Rules -> [Nat -> Nat]] : Tells(told)'
    BY <2>1 DEF PriceSound, Tells, TellsFrame, TellsEntry
  <2> QED BY <2>2, <2>3, <2>4, <2>5 DEF PriceSound
<1> QED BY <1>1, <1>2, <1>3, <1>4, <1>5 DEF Prices!Next

(* Slabs nest but for edits that overlapped in time; a rule has the price it  *)
(* was last asked to have, unless its edits raced; a distance gets the        *)
(* tightest slab; and the history tells each price from the one before        *)
(* (createRule, updateRule, resolveListPrice).                                *)
THEOREM PriceListIsSound == PartsSpec => []PriceListHolds
<1> DEFINE Inv == part = "prices" => PriceSound
<1>1. PartsInit => Inv
  BY InitPrices DEF PartsInit
<1>2. Inv /\ [PartsNext]_<<part, vars, ownVars>> => Inv'
  <2> SUFFICES ASSUME Inv, [PartsNext]_<<part, vars, ownVars>>, part' = "prices"
               PROVE  PriceSound'
    OBVIOUS
  <2>1. part = "prices"
    BY DEF PartsNext
  <2>2. [Prices!Next]_priceVars
    BY <2>1 DEF PartsNext, ownVars
  <2> QED BY <2>1, <2>2, NextPrices
<1>3. Inv => PriceListHolds
  BY PriceImplies DEF PriceListHolds
<1> QED BY <1>1, <1>2, <1>3, PTL DEF PartsSpec

-----------------------------------------------------------------------------
(* The cart.  What the lines l have of product x; the number is the sum that   *)
(* NothingIsLost compares with what is owed.                                   *)

CartLine == [product : Products, quantity : Nat, looked : 0..MaxLines]
QuantityIn(l) == [i \in 1..Len(l) |-> l[i].quantity]
LinesOf(l, x) == {i \in 1..Len(l) : l[i].product = x}
Total(l, x) == SumOf(QuantityIn(l), LinesOf(l, x))

LEMMA LinesFit ==
    /\ MinOrder \in [Products -> Nat] /\ MaxOrder \in [Products -> Nat]
    /\ Stocks \subseteq Nat /\ MaxLines \in Nat /\ MaxWrites \in Nat
  BY LinesAssumption DEF Lines!ConstantsFit

LEMMA LostNow ==
    Lines!NothingIsLost <=> \A x \in Products \ cartRaced : owed[x] = Total(line, x)
  BY DEF Lines!NothingIsLost, Lines!Lines, Lines!Quantity, Total, QuantityIn, LinesOf, SumOf,
         Lines!MapThenSumSet, Lines!MapThenFoldSet, MapThenSumSet, MapThenFoldSet

LEMMA LostNext ==
    Lines!NothingIsLost' <=> \A x \in Products \ cartRaced' : owed'[x] = Total(line', x)
  BY DEF Lines!NothingIsLost, Lines!Lines, Lines!Quantity, Total, QuantityIn, LinesOf, SumOf,
         Lines!MapThenSumSet, Lines!MapThenFoldSet, MapThenSumSet, MapThenFoldSet

(* The sums over what an order has read. *)
WasIn(items, l) ==
    [i \in 1..Len(l) |-> IF i \in DOMAIN items THEN items[i] ELSE 0]

LEMMA OrderedSum ==
    ASSUME NEW r \in Requests, Lines!PlaceOrder(r)
    PROVE  owed' = [x \in Products |->
                      owed[x] - SumOf(WasIn(cartRequest[r].cart.items, line), LinesOf(line, x))]
  BY DEF Lines!PlaceOrder, Lines!Lines, WasIn, LinesOf, SumOf,
         Lines!MapThenSumSet, Lines!MapThenFoldSet, MapThenSumSet, MapThenFoldSet

LEMMA LinesOfFinite ==
    ASSUME NEW l \in Seq(CartLine), NEW x
    PROVE  /\ IsFiniteSet(LinesOf(l, x)) /\ LinesOf(l, x) \subseteq 1..Len(l)
           /\ \A i \in LinesOf(l, x) : QuantityIn(l)[i] \in Nat
           /\ \A i \in 1..Len(l) : QuantityIn(l)[i] = l[i].quantity
<1>1. Len(l) \in Nat /\ IsFiniteSet(1..Len(l))
  BY FS_Interval
<1>2. LinesOf(l, x) \subseteq 1..Len(l)
  BY DEF LinesOf
<1>3. \A i \in 1..Len(l) : QuantityIn(l)[i] = l[i].quantity /\ l[i].quantity \in Nat
  <2> SUFFICES ASSUME NEW i \in 1..Len(l)
               PROVE  QuantityIn(l)[i] = l[i].quantity /\ l[i].quantity \in Nat
    OBVIOUS
  <2>1. l[i] \in CartLine
    OBVIOUS
  <2> QED BY <2>1 DEF QuantityIn, CartLine
<1> QED BY <1>1, <1>2, <1>3, FS_Subset

LEMMA TotalSame ==
    ASSUME NEW l \in Seq(CartLine), NEW m \in Seq(CartLine), NEW x,
           LinesOf(m, x) = LinesOf(l, x),
           \A i \in LinesOf(l, x) : m[i].quantity = l[i].quantity
    PROVE  Total(m, x) = Total(l, x)
<1>1. \A i \in LinesOf(l, x) : QuantityIn(m)[i] = QuantityIn(l)[i]
  BY LinesOfFinite
<1>2. IsFiniteSet(LinesOf(l, x))
  BY LinesOfFinite
<1> QED BY <1>1, <1>2, SumSame DEF Total

(* The laws of sums, to be cited for given sets and functions. *)
SumChanges(S, f, g, x) ==
    /\ IsFiniteSet(S) /\ x \in S
    /\ \A y \in S : f[y] \in Int /\ g[y] \in Int
    /\ \A y \in S \ {x} : g[y] = f[y]
    => SumOf(g, S) = SumOf(f, S) + g[x] - f[x]
SumAdds(S, f, x) ==
    /\ IsFiniteSet(S) /\ x \notin S
    /\ \A y \in S \cup {x} : f[y] \in Int
    => SumOf(f, S \cup {x}) = SumOf(f, S) + f[x]

LEMMA SumsChange == \A S, f, g, x : SumChanges(S, f, g, x)
  BY SumChange DEF SumChanges

LEMMA SumsAdd == \A S, f, x : SumAdds(S, f, x)
  BY SumAdd DEF SumAdds

LEMMA TotalChange ==
    ASSUME NEW l \in Seq(CartLine), NEW m \in Seq(CartLine), NEW x, NEW i \in LinesOf(l, x),
           LinesOf(m, x) = LinesOf(l, x),
           \A j \in LinesOf(l, x) \ {i} : m[j].quantity = l[j].quantity
    PROVE  Total(m, x) = Total(l, x) + m[i].quantity - l[i].quantity
<1> DEFINE S == LinesOf(l, x)
           f == QuantityIn(l)
           g == QuantityIn(m)
<1>1. IsFiniteSet(S) /\ \A j \in S : f[j] \in Int /\ f[j] = l[j].quantity
  BY LinesOfFinite
<1>2. \A j \in S : g[j] \in Int /\ g[j] = m[j].quantity
  BY LinesOfFinite
<1>3. i \in S /\ LinesOf(m, x) = S
  OBVIOUS
<1>4. \A j \in S \ {i} : g[j] = f[j]
  BY <1>1, <1>2
<1>5. Total(l, x) = SumOf(f, S) /\ Total(m, x) = SumOf(g, S)
  BY DEF Total
<1> HIDE DEF S, f, g
<1>6. SumOf(g, S) = SumOf(f, S) + g[i] - f[i]
  <2>1. \A j \in S : f[j] \in Int /\ g[j] \in Int
    BY <1>1, <1>2
  <2>2. SumChanges(S, f, g, i)
    BY SumsChange
  <2> QED BY <1>1, <1>3, <1>4, <2>1, <2>2 DEF SumChanges
<1> QED BY <1>1, <1>2, <1>3, <1>5, <1>6

LEMMA TotalMore ==
    ASSUME NEW l \in Seq(CartLine), NEW m \in Seq(CartLine), NEW x, NEW i,
           i \notin LinesOf(l, x), LinesOf(m, x) = LinesOf(l, x) \cup {i},
           \A j \in LinesOf(l, x) : m[j].quantity = l[j].quantity
    PROVE  Total(m, x) = Total(l, x) + m[i].quantity
<1> DEFINE S == LinesOf(l, x)
           f == QuantityIn(l)
           g == QuantityIn(m)
<1>1. IsFiniteSet(S) /\ \A j \in S : f[j] \in Int /\ f[j] = l[j].quantity
  BY LinesOfFinite
<1>2. \A j \in S \cup {i} : g[j] \in Int /\ g[j] = m[j].quantity
  BY LinesOfFinite
<1>3. i \notin S /\ LinesOf(m, x) = S \cup {i}
  OBVIOUS
<1>4. \A j \in S : g[j] = f[j]
  BY <1>1, <1>2
<1>5. Total(l, x) = SumOf(f, S) /\ Total(m, x) = SumOf(g, S \cup {i})
  BY <1>3 DEF Total
<1> HIDE DEF S, f, g
<1>6. SumOf(g, S \cup {i}) = SumOf(g, S) + g[i]
  <2>1. \A j \in S \cup {i} : g[j] \in Int
    BY <1>2
  <2>2. SumAdds(S, g, i)
    BY SumsAdd
  <2> QED BY <1>1, <1>3, <2>1, <2>2 DEF SumAdds
<1>7. SumOf(g, S) = SumOf(f, S)
  BY <1>1, <1>4, SumSame
<1> QED BY <1>2, <1>5, <1>6, <1>7

(* m is l with another quantity in line i, or with a line more. *)
SetTo(l, i, n, m) ==
    /\ m \in Seq(CartLine) /\ Len(m) = Len(l)
    /\ m[i].quantity = n /\ m[i].product = l[i].product /\ m[i].looked = l[i].looked
    /\ \A j \in 1..Len(l) : j # i => m[j] = l[j]
    /\ Total(m, l[i].product) = Total(l, l[i].product) + n - l[i].quantity
    /\ \A x \in Products : x # l[i].product => Total(m, x) = Total(l, x)
Longer(l, new, m) ==
    /\ m \in Seq(CartLine) /\ Len(m) = Len(l) + 1
    /\ m[Len(l) + 1] = new /\ \A j \in 1..Len(l) : m[j] = l[j]
    /\ Total(m, new.product) = Total(l, new.product) + new.quantity
    /\ \A x \in Products : x # new.product => Total(m, x) = Total(l, x)

LEMMA TotalSet ==
    ASSUME NEW l \in Seq(CartLine), NEW i \in 1..Len(l), NEW n \in Nat
    PROVE  SetTo(l, i, n, [l EXCEPT ![i].quantity = n])
<1>m. PICK m : m = [l EXCEPT ![i].quantity = n]
  OBVIOUS
<1>1. PICK a \in CartLine : a = l[i]
  OBVIOUS
<1>2. PICK b \in CartLine : b = [a EXCEPT !.quantity = n]
  BY DEF CartLine
<1>3. b.quantity = n /\ b.product = a.product /\ b.looked = a.looked
  BY <1>2 DEF CartLine
<1>4. m = [l EXCEPT ![i] = b]
  BY <1>m, <1>1, <1>2
<1>5. m \in Seq(CartLine) /\ Len(m) = Len(l) /\ m[i] = b
      /\ \A j \in 1..Len(l) : j # i => m[j] = l[j]
  BY <1>4
<1>6. PICK k \in Seq(CartLine) : k = m
  BY <1>5
<1>7. \A x : LinesOf(k, x) = LinesOf(l, x)
  BY <1>1, <1>3, <1>5, <1>6 DEF LinesOf
<1>8. \A x \in Products : x # l[i].product => Total(m, x) = Total(l, x)
  <2> SUFFICES ASSUME NEW x \in Products, x # l[i].product
               PROVE  Total(k, x) = Total(l, x)
    BY <1>6
  <2>1. \A j \in LinesOf(l, x) : j # i /\ j \in 1..Len(l)
    BY DEF LinesOf
  <2>2. \A j \in LinesOf(l, x) : k[j].quantity = l[j].quantity
    BY <1>5, <1>6, <2>1
  <2>3. LinesOf(k, x) = LinesOf(l, x)
    BY <1>7
  <2> QED BY <2>2, <2>3, TotalSame
<1>9. Total(m, l[i].product) = Total(l, l[i].product) + n - l[i].quantity
  <2>1. PICK x \in Products : x = a.product
    BY DEF CartLine
  <2>2. i \in LinesOf(l, x) /\ LinesOf(k, x) = LinesOf(l, x)
    BY <1>1, <1>7, <2>1 DEF LinesOf
  <2>3. \A j \in LinesOf(l, x) \ {i} : k[j].quantity = l[j].quantity
    BY <1>5, <1>6 DEF LinesOf
  <2>4. Total(k, x) = Total(l, x) + k[i].quantity - l[i].quantity
    BY <2>2, <2>3, TotalChange
  <2> QED BY <1>1, <1>3, <1>5, <1>6, <2>1, <2>4
<1>10. SetTo(l, i, n, m)
  BY <1>1, <1>3, <1>5, <1>8, <1>9 DEF SetTo
<1> QED BY <1>m, <1>10

LEMMA TotalAdd ==
    ASSUME NEW l \in Seq(CartLine), NEW new \in CartLine
    PROVE  Longer(l, new, Append(l, new))
<1>m. PICK m : m = Append(l, new)
  OBVIOUS
<1>1. PICK n \in Nat : n = Len(l)
  OBVIOUS
<1>2. /\ m \in Seq(CartLine) /\ Len(m) = n + 1
      /\ m[n + 1] = new /\ \A j \in 1..n : m[j] = l[j]
  BY <1>m, <1>1
<1>3. PICK k \in Seq(CartLine) : k = m
  BY <1>2
<1>4. \A x : x # new.product => LinesOf(k, x) = LinesOf(l, x)
  BY <1>1, <1>2, <1>3 DEF LinesOf
<1>5. \A x : \A j \in LinesOf(l, x) : k[j].quantity = l[j].quantity
  BY <1>1, <1>2, <1>3 DEF LinesOf
<1>6. \A x \in Products : x # new.product => Total(m, x) = Total(l, x)
  <2> SUFFICES ASSUME NEW x \in Products, x # new.product
               PROVE  Total(k, x) = Total(l, x)
    BY <1>3
  <2>1. LinesOf(k, x) = LinesOf(l, x)
    BY <1>4
  <2>2. \A j \in LinesOf(l, x) : k[j].quantity = l[j].quantity
    BY <1>5
  <2> QED BY <2>1, <2>2, TotalSame
<1>7. Total(m, new.product) = Total(l, new.product) + new.quantity
  <2>1. PICK x \in Products : x = new.product
    BY DEF CartLine
  <2>2. PICK i \in Nat : i = n + 1
    OBVIOUS
  <2>3. i \notin LinesOf(l, x) /\ LinesOf(k, x) = LinesOf(l, x) \cup {i}
    BY <1>1, <1>2, <1>3, <2>1, <2>2 DEF LinesOf
  <2>4. Total(k, x) = Total(l, x) + k[i].quantity
    BY <1>5, <2>3, TotalMore
  <2> QED BY <1>2, <1>3, <2>1, <2>2, <2>4
<1>8. Longer(l, new, m)
  BY <1>1, <1>2, <1>6, <1>7 DEF Longer
<1> QED BY <1>m, <1>8

LEMMA TotalNone ==
    ASSUME NEW l \in Seq(CartLine), NEW x, \A i \in 1..Len(l) : l[i].quantity = 0
    PROVE  Total(l, x) = 0
<1>1. IsFiniteSet(LinesOf(l, x)) /\ \A i \in LinesOf(l, x) : QuantityIn(l)[i] = 0
  BY LinesOfFinite
<1> QED BY <1>1, SumZero DEF Total

-----------------------------------------------------------------------------
(* What a request knows of the lines it has found, and of the copy of its     *)
(* process: after its own write the copy is at least as new as the write, and *)
(* so is what the others are about to keep, unless r straddled them.          *)

CartCopy == [items : Seq(Nat), writes : 0..MaxWrites]
CartFrame ==
    [pc        : {"idle", "find", "add", "update", "remove", "order", "drop", "leave", "get",
                  "keep", "answer"},
     process   : Processes \cup {None},
     product   : Products \cup {None},
     line      : 0..MaxLines,
     quantity  : Nat,
     seen      : Nat,
     looked    : 0..MaxLines,
     wrote     : 0..MaxWrites,
     straddled : BOOLEAN,
     cart      : CartCopy \cup {None}]

CartTypeOK ==
    /\ line \in Seq(CartLine) /\ Len(line) <= MaxLines
    /\ cache \in [Processes -> CartCopy \cup {None}]
    /\ cartRequest \in [Requests -> CartFrame]
    /\ cartWrites \in 0..MaxWrites
    /\ owed \in [Products -> Int]
    /\ cartRaced \subseteq Products

CopiesKnown == \A p \in Processes : cache[p] # None => cache[p].writes <= cartWrites

KnowsLine(q) ==
    /\ q.pc \in {"find", "add"} => q.product \in Products
    /\ q.pc = "add" /\ q.line = 0 =>
          /\ q.looked <= Len(line)
          /\ \A i \in Lines!Live : line[i].product = q.product => i > q.looked
    /\ q.pc = "add" /\ q.line # 0 =>
          q.line \in 1..Len(line) /\ line[q.line].product = q.product

KnowsCopy(q) ==
    /\ q.pc # "idle" => q.process \in Processes
    /\ q.wrote <= cartWrites
    /\ q.pc \in {"order", "keep", "answer"} => q.cart \in CartCopy
    /\ q.pc = "keep" => q.cart.writes <= cartWrites
    /\ q.pc \in {"keep", "answer"} => q.cart.writes >= q.wrote \/ q.straddled
    /\ q.pc = "get" /\ ~q.straddled /\ cache[q.process] # None =>
          cache[q.process].writes >= q.wrote

KeepsNewer(q, other) ==
    /\ q.pc = "get" /\ ~q.straddled
    /\ other.pc = "keep" /\ other.process = q.process
    => other.cart.writes >= q.wrote

CartSound ==
    /\ CartTypeOK
    /\ CopiesKnown
    /\ \A r \in Requests : KnowsLine(cartRequest[r]) /\ KnowsCopy(cartRequest[r])
    /\ \A r, v \in Requests : KeepsNewer(cartRequest[r], cartRequest[v])
    /\ Lines!OneLineEach
    /\ Lines!NothingIsLost

LEMMA CartImplies ==
    ASSUME CartSound
    PROVE  Lines!CartHolds
<1>1. Lines!TypeOK
  <2>1. \A i \in 1..Len(line) : line[i] \in CartLine
    BY DEF CartSound, CartTypeOK
  <2>2. \A r \in Requests : cartRequest[r] \in CartFrame
    BY DEF CartSound, CartTypeOK
  <2> QED BY <2>1, <2>2 DEF CartSound, CartTypeOK, CopiesKnown, Lines!TypeOK, Lines!Lines,
                            CartLine, CartFrame
<1>2. Lines!ReadsOwnWrite
  BY DEF CartSound, KnowsCopy, Lines!ReadsOwnWrite
<1> QED BY <1>1, <1>2 DEF CartSound, Lines!CartHolds

LEMMA IdleCart ==
    /\ Lines!Idle \in CartFrame /\ Lines!Idle.pc = "idle" /\ Lines!Idle.wrote = 0
  BY LinesFit DEF Lines!Idle, CartFrame

(* The lines stay as they are. *)
LEMMA LinesStay ==
    ASSUME CartSound, UNCHANGED <<line, cartWrites, owed, cartRaced>>,
           cache' \in [Processes -> CartCopy \cup {None}], CopiesKnown',
           cartRequest' \in [Requests -> CartFrame],
           \A r \in Requests : KnowsLine(cartRequest'[r]) /\ KnowsCopy(cartRequest[r])',
           \A r, v \in Requests : KeepsNewer(cartRequest'[r], cartRequest'[v])
    PROVE  CartSound'
<1>1. \A r \in Requests : KnowsLine(cartRequest[r])'
  BY DEF KnowsLine, Lines!Live, Lines!Lines
<1>2. \A r, v \in Requests : KeepsNewer(cartRequest[r], cartRequest[v])'
  BY DEF KeepsNewer
<1>3. Lines!OneLineEach'
  BY DEF CartSound, Lines!OneLineEach, Lines!Live, Lines!Lines
<1>4. Lines!NothingIsLost'
  BY LostNow, LostNext DEF CartSound
<1>5. CartTypeOK'
  BY DEF CartSound, CartTypeOK
<1> QED BY <1>1, <1>2, <1>3, <1>4, <1>5 DEF CartSound

(* A request goes on as q, with the lines and the copies as they are. *)
LEMMA CartFrameStep ==
    ASSUME CartSound, NEW r \in Requests, NEW q \in CartFrame, KnowsLine(q), KnowsCopy(q),
           q.pc = "get" => q.wrote = 0 \/ q.straddled,
           q.pc = "keep" => q.cart.writes = cartWrites,
           cartRequest' = [cartRequest EXCEPT ![r] = q],
           UNCHANGED <<line, cache, cartWrites, owed, cartRaced>>
    PROVE  CartSound'
<1>1. cartRequest' \in [Requests -> CartFrame]
      /\ \A v \in Requests : cartRequest'[v] = IF v = r THEN q ELSE cartRequest[v]
  BY DEF CartSound, CartTypeOK
<1>2. cache' \in [Processes -> CartCopy \cup {None}] /\ CopiesKnown'
  BY DEF CartSound, CartTypeOK, CopiesKnown
<1>3. \A v \in Requests : KnowsLine(cartRequest'[v]) /\ KnowsCopy(cartRequest'[v])
  BY <1>1 DEF CartSound
<1>4. \A v \in Requests : KnowsCopy(cartRequest[v])'
  BY <1>3 DEF KnowsCopy
<1>5. \A u, v \in Requests : KeepsNewer(cartRequest'[u], cartRequest'[v])
  <2> SUFFICES ASSUME NEW u \in Requests, NEW v \in Requests
               PROVE  KeepsNewer(cartRequest'[u], cartRequest'[v])
    OBVIOUS
  <2>1. CASE u = r /\ v = r
    BY <1>1, <2>1 DEF KeepsNewer
  <2>2. CASE u = r /\ v # r
    <3>1. PICK w \in CartFrame : w = cartRequest[v] /\ KnowsCopy(w)
      BY DEF CartSound, CartTypeOK
    <3>2. w.pc = "keep" => w.cart.writes \in Nat
      BY <3>1 DEF KnowsCopy, CartCopy
    <3>3. KeepsNewer(q, w)
      BY <3>2 DEF KeepsNewer
    <3> QED BY <1>1, <2>2, <3>1, <3>3
  <2>3. CASE u # r /\ v = r
    <3>1. PICK w \in CartFrame : w = cartRequest[u] /\ KnowsCopy(w)
      BY DEF CartSound, CartTypeOK
    <3>2. w.wrote <= cartWrites /\ w.wrote \in Nat /\ cartWrites \in Nat
      BY <3>1 DEF KnowsCopy, CartFrame, CartSound, CartTypeOK
    <3>3. KeepsNewer(w, q)
      BY <3>2 DEF KeepsNewer
    <3> QED BY <1>1, <2>3, <3>1, <3>3
  <2>4. CASE u # r /\ v # r
    BY <1>1, <2>4 DEF CartSound
  <2> QED BY <2>1, <2>2, <2>3, <2>4
<1> QED BY <1>1, <1>2, <1>3, <1>4, <1>5, LinesStay

(* A request is done, fails or is given up. *)
LEMMA CartIdleStep ==
    ASSUME CartSound, NEW r \in Requests, Lines!Gone(r)
    PROVE  CartSound'
<1>1. PICK q \in CartFrame : q = Lines!Idle
  BY IdleCart
<1>2. KnowsLine(q) /\ KnowsCopy(q) /\ q.pc = "idle"
  BY <1>1, IdleCart DEF KnowsLine, KnowsCopy, CartSound, CartTypeOK
<1>3. cartRequest' = [cartRequest EXCEPT ![r] = q]
      /\ UNCHANGED <<line, cache, cartWrites, owed, cartRaced>>
  BY <1>1 DEF Lines!Gone, Lines!Goto, Lines!ghosts
<1> QED BY <1>2, <1>3, CartFrameStep

-----------------------------------------------------------------------------
(* The reads. *)

LEMMA CartIsCopy ==
    ASSUME CartSound
    PROVE  Lines!Cart \in CartCopy /\ Lines!Cart.writes = cartWrites
<1>1. Len(line) \in Nat /\ \A i \in 1..Len(line) : line[i] \in CartLine
  BY DEF CartSound, CartTypeOK
<1>2. Lines!Quantity \in [1..Len(line) -> Nat]
  BY <1>1 DEF Lines!Quantity, Lines!Lines, CartLine
<1>3. Lines!Quantity \in Seq(Nat)
  BY <1>1, <1>2, SeqDef
<1> QED BY <1>3 DEF CartSound, CartTypeOK, Lines!Cart, CartCopy

LEMMA AddItemStep ==
    ASSUME CartSound, NEW r \in Requests, NEW p \in Processes, NEW x \in Products,
           NEW stock \in Stocks, Lines!AddItem(r, p, x, stock)
    PROVE  CartSound'
<1>1. PICK n \in 1..MaxOrder[x] :
          cartRequest' = [cartRequest EXCEPT ![r] =
              [Lines!Idle EXCEPT !.pc = "find", !.process = p, !.product = x,
                                 !.quantity = n, !.seen = stock]]
  BY DEF Lines!AddItem, Lines!Goto
<1>2. n \in Nat /\ stock \in Nat
  BY LinesFit
<1>3. PICK q \in CartFrame :
          q = [Lines!Idle EXCEPT !.pc = "find", !.process = p, !.product = x,
                                 !.quantity = n, !.seen = stock]
  BY <1>2, IdleCart DEF CartFrame
<1>4. q.pc = "find" /\ q.process = p /\ q.product = x /\ q.wrote = 0
  BY <1>3, IdleCart DEF CartFrame
<1>5. KnowsLine(q) /\ KnowsCopy(q)
  BY <1>4, LinesFit DEF KnowsLine, KnowsCopy, CartSound, CartTypeOK
<1>6. UNCHANGED <<line, cache, cartWrites, owed, cartRaced>>
  BY DEF Lines!AddItem, Lines!ghosts
<1> QED BY <1>1, <1>3, <1>4, <1>5, <1>6, CartFrameStep

(* With no line of the product, those made later are beyond what was looked   *)
(* at.                                                                        *)
LEMMA FindCartLineStep ==
    ASSUME CartSound, NEW r \in Requests, Lines!FindCartLine(r)
    PROVE  CartSound'
<1>1. PICK p \in CartFrame : p = cartRequest[r] /\ KnowsLine(p) /\ KnowsCopy(p)
  BY DEF CartSound, CartTypeOK
<1>2. p.pc = "find" /\ p.process \in Processes /\ p.product \in Products
  BY <1>1 DEF Lines!FindCartLine, Lines!At, KnowsLine, KnowsCopy
<1> DEFINE same == {i \in Lines!Live : line[i].product = p.product}
           Old(i) == IF i = 0 THEN 0 ELSE line[i].quantity
           Found(i) == [p EXCEPT !.pc = "add", !.line = i, !.seen = Old(i), !.looked = Len(line)]
<1>3. PICK i \in (IF same = {} THEN {0} ELSE same) :
          Lines!Goto(r, IF Lines!QuantityAllowed(p.product, Old(i) + p.quantity, p.seen)
                        THEN Found(i) ELSE Lines!Idle)
  BY <1>1 DEF Lines!FindCartLine
<1>4. UNCHANGED <<line, cache, cartWrites, owed, cartRaced>>
  BY DEF Lines!FindCartLine, Lines!ghosts
<1>5. /\ Len(line) \in 0..MaxLines
      /\ i = 0 => same = {}
      /\ i # 0 => i \in 1..Len(line) /\ line[i].product = p.product /\ line[i].quantity \in Nat
  <2>1. Len(line) \in 0..MaxLines /\ \A j \in 1..Len(line) : line[j] \in CartLine
    BY LinesFit DEF CartSound, CartTypeOK
  <2>2. same \subseteq 1..Len(line) /\ \A j \in same : line[j].product = p.product
    BY DEF Lines!Live, Lines!Lines
  <2>3. 0 \notin same
    BY <2>2
  <2> HIDE DEF same
  <2>4. i # 0 => i \in same
    BY <1>3
  <2> QED BY <1>3, <2>1, <2>2, <2>3, <2>4 DEF CartLine
<1>6. CASE Lines!Goto(r, Lines!Idle)
  BY <1>4, <1>6, CartIdleStep DEF Lines!Gone, Lines!ghosts
<1>7. CASE Lines!Goto(r, Found(i))
  <2>1. i \in 0..MaxLines /\ Old(i) \in Nat
    BY <1>5, LinesFit
  <2> HIDE DEF Old
  <2>2. PICK q \in CartFrame : q = Found(i)
    BY <1>5, <2>1 DEF CartFrame
  <2>3. /\ q.pc = "add" /\ q.line = i /\ q.looked = Len(line) /\ q.product = p.product
        /\ q.process = p.process /\ q.wrote = p.wrote
    BY <2>2 DEF CartFrame
  <2>4. KnowsLine(q)
    <3>1. i = 0 => \A j \in Lines!Live : line[j].product # p.product
      BY <1>5
    <3>2. Len(line) <= Len(line)
      BY <1>5
    <3> QED BY <1>2, <1>5, <2>3, <3>1, <3>2 DEF KnowsLine
  <2>5. KnowsCopy(q)
    BY <1>1, <1>2, <2>3 DEF KnowsCopy
  <2>6. cartRequest' = [cartRequest EXCEPT ![r] = q]
    BY <1>7, <2>2 DEF Lines!Goto
  <2> QED BY <1>4, <2>3, <2>4, <2>5, <2>6, CartFrameStep
<1> HIDE DEF Found
<1> QED BY <1>3, <1>6, <1>7

LEMMA CartReads ==
    ASSUME CartSound, NEW r \in Requests, NEW q \in CartFrame,
           q.pc \in {"update", "remove", "order", "get"}, q.process \in Processes, q.wrote = 0,
           q.pc = "order" => q.cart \in CartCopy,
           cartRequest' = [cartRequest EXCEPT ![r] = q],
           UNCHANGED <<line, cache, cartWrites, owed, cartRaced>>
    PROVE  CartSound'
<1>1. KnowsLine(q)
  BY DEF KnowsLine
<1>2. KnowsCopy(q)
  <2>1. \A k \in Processes : cache[k] # None => cache[k].writes \in Nat
    BY DEF CartSound, CartTypeOK, CartCopy
  <2>2. cartWrites \in Nat
    BY DEF CartSound, CartTypeOK
  <2> QED BY <2>1, <2>2 DEF KnowsCopy
<1> QED BY <1>1, <1>2, CartFrameStep

LEMMA CartReadStep ==
    ASSUME CartSound, NEW r \in Requests, NEW p \in Processes,
           \/ \E i \in Lines!Live, stock \in Stocks : Lines!UpdateItemRead(r, p, i, stock)
           \/ \E i \in Lines!Live : Lines!RemoveItemRead(r, p, i)
           \/ \E stock \in Stocks : Lines!PrepareCheckout(r, p, stock)
           \/ Lines!GetCart(r, p)
    PROVE  CartSound'
<1>1. \A i \in Lines!Live : i \in 0..MaxLines /\ line[i] \in CartLine
  BY LinesFit DEF Lines!Live, Lines!Lines, CartSound, CartTypeOK
<1>2. UNCHANGED <<line, cache, cartWrites, owed, cartRaced>>
  BY DEF Lines!UpdateItemRead, Lines!RemoveItemRead, Lines!PrepareCheckout, Lines!GetCart,
         Lines!ghosts
<1>3. ASSUME NEW i \in Lines!Live, NEW stock \in Stocks, Lines!UpdateItemRead(r, p, i, stock)
      PROVE  CartSound'
  <2>1. MaxOrder[line[i].product] \in Nat
    BY <1>1, LinesFit DEF CartLine
  <2>2. PICK n \in 1..MaxOrder[line[i].product] :
            Lines!Goto(r, [Lines!Idle EXCEPT !.pc = "update", !.process = p, !.line = i,
                                             !.quantity = n])
    BY <1>3 DEF Lines!UpdateItemRead
  <2>3. PICK q \in CartFrame : q = [Lines!Idle EXCEPT !.pc = "update", !.process = p,
                                                      !.line = i, !.quantity = n]
    <3>1. n \in Nat /\ i \in 0..MaxLines
      BY <1>1, <2>1
    <3> QED BY <3>1, IdleCart DEF CartFrame
  <2>4. q.pc = "update" /\ q.process = p /\ q.wrote = 0
    BY <2>3, IdleCart DEF CartFrame
  <2>5. cartRequest' = [cartRequest EXCEPT ![r] = q]
    BY <2>2, <2>3 DEF Lines!Goto
  <2> QED BY <1>2, <2>4, <2>5, CartReads
<1>4. ASSUME NEW i \in Lines!Live, Lines!RemoveItemRead(r, p, i)
      PROVE  CartSound'
  <2>1. PICK q \in CartFrame : q = [Lines!Idle EXCEPT !.pc = "remove", !.process = p,
                                                      !.line = i]
    BY <1>1, IdleCart DEF CartFrame
  <2>2. q.pc = "remove" /\ q.process = p /\ q.wrote = 0
    BY <2>1, IdleCart DEF CartFrame
  <2>3. cartRequest' = [cartRequest EXCEPT ![r] = q]
    BY <1>4, <2>1 DEF Lines!RemoveItemRead, Lines!Goto
  <2> QED BY <1>2, <2>2, <2>3, CartReads
<1>5. ASSUME NEW stock \in Stocks, Lines!PrepareCheckout(r, p, stock)
      PROVE  CartSound'
  <2>1. PICK c \in CartCopy : c = Lines!Cart
    BY CartIsCopy
  <2>2. PICK q \in CartFrame : q = [Lines!Idle EXCEPT !.pc = "order", !.process = p, !.cart = c]
    BY IdleCart DEF CartFrame
  <2>3. q.pc = "order" /\ q.process = p /\ q.wrote = 0 /\ q.cart = c
    BY <2>2, IdleCart DEF CartFrame
  <2>4. cartRequest' = [cartRequest EXCEPT ![r] = q]
    BY <1>5, <2>1, <2>2 DEF Lines!PrepareCheckout, Lines!Goto
  <2> QED BY <1>2, <2>3, <2>4, CartReads
<1>6. ASSUME Lines!GetCart(r, p)
      PROVE  CartSound'
  <2>1. PICK q \in CartFrame : q = [Lines!Idle EXCEPT !.pc = "get", !.process = p]
    BY IdleCart DEF CartFrame
  <2>2. q.pc = "get" /\ q.process = p /\ q.wrote = 0
    BY <2>1, IdleCart DEF CartFrame
  <2>3. cartRequest' = [cartRequest EXCEPT ![r] = q]
    BY <1>6, <2>1 DEF Lines!GetCart, Lines!Goto
  <2> QED BY <1>2, <2>2, <2>3, CartReads
<1> QED BY <1>3, <1>4, <1>5, <1>6

(* The copy is at least as new as the request's own write, or what is read    *)
(* now is the cart of now.                                                    *)
LEMMA LookUpStep ==
    ASSUME CartSound, NEW r \in Requests, Lines!LookUp(r)
    PROVE  CartSound'
<1>1. PICK p \in CartFrame : p = cartRequest[r] /\ KnowsCopy(p) /\ p.pc = "get"
  BY DEF CartSound, CartTypeOK, Lines!LookUp, Lines!At
<1>2. p.process \in Processes /\ p.wrote <= cartWrites
  BY <1>1 DEF KnowsCopy
<1>3. UNCHANGED <<line, cache, cartWrites, owed, cartRaced>>
  BY DEF Lines!LookUp, Lines!ghosts
<1>4. CASE cache[p.process] # None
  <2>1. PICK c \in CartCopy : c = cache[p.process]
    BY <1>2, <1>4 DEF CartSound, CartTypeOK
  <2>2. PICK q \in CartFrame : q = [p EXCEPT !.pc = "answer", !.cart = c]
    BY DEF CartFrame
  <2>3. /\ q.pc = "answer" /\ q.cart = c /\ q.process = p.process /\ q.wrote = p.wrote
        /\ q.straddled = p.straddled
    BY <2>2 DEF CartFrame
  <2>4. KnowsLine(q) /\ KnowsCopy(q)
    BY <1>1, <1>2, <1>4, <2>1, <2>3 DEF KnowsLine, KnowsCopy
  <2>5. cartRequest' = [cartRequest EXCEPT ![r] = q]
    BY <1>1, <1>4, <2>1, <2>2 DEF Lines!LookUp, Lines!Goto
  <2> QED BY <1>3, <2>3, <2>4, <2>5, CartFrameStep
<1>5. CASE cache[p.process] = None
  <2>1. PICK c \in CartCopy : c = Lines!Cart /\ c.writes = cartWrites
    BY CartIsCopy
  <2>2. PICK q \in CartFrame : q = [p EXCEPT !.pc = "keep", !.cart = c]
    BY DEF CartFrame
  <2>3. /\ q.pc = "keep" /\ q.cart = c /\ q.process = p.process /\ q.wrote = p.wrote
        /\ q.straddled = p.straddled
    BY <2>2 DEF CartFrame
  <2>4. q.wrote <= cartWrites /\ cartWrites <= cartWrites /\ cartWrites >= q.wrote
    <3>1. cartWrites \in Nat /\ q.wrote \in Nat
      BY DEF CartSound, CartTypeOK, CartFrame
    <3> QED BY <1>2, <2>3, <3>1
  <2>5. KnowsLine(q) /\ KnowsCopy(q)
    BY <1>1, <1>2, <2>1, <2>3, <2>4 DEF KnowsLine, KnowsCopy
  <2>6. cartRequest' = [cartRequest EXCEPT ![r] = q]
    BY <1>1, <1>5, <2>1, <2>2 DEF Lines!LookUp, Lines!Goto
  <2> QED BY <1>3, <2>1, <2>3, <2>5, <2>6, CartFrameStep
<1> QED BY <1>4, <1>5

-----------------------------------------------------------------------------
(* The copies. *)

(* The copy of a process becomes c; who waits for it takes it for newer than  *)
(* its own write only if it is.                                               *)
LEMMA CopyChanges ==
    ASSUME CartSound, NEW k \in Processes, NEW c \in CartCopy \cup {None},
           c # None => c.writes <= cartWrites,
           cache' = [cache EXCEPT ![k] = c], cartWrites' = cartWrites
    PROVE  /\ cache' \in [Processes -> CartCopy \cup {None}] /\ CopiesKnown'
           /\ \A u \in CartFrame :
                 /\ KnowsCopy(u)
                 /\ u.pc = "get" /\ u.process = k /\ ~u.straddled /\ c # None =>
                       c.writes >= u.wrote
                 => KnowsCopy(u)'
<1>1. /\ cache' \in [Processes -> CartCopy \cup {None}]
      /\ \A p \in Processes : cache'[p] = IF p = k THEN c ELSE cache[p]
  BY DEF CartSound, CartTypeOK
<1>2. CopiesKnown'
  BY <1>1 DEF CartSound, CopiesKnown
<1>3. ASSUME NEW u \in CartFrame, KnowsCopy(u),
             u.pc = "get" /\ u.process = k /\ ~u.straddled /\ c # None => c.writes >= u.wrote
      PROVE  KnowsCopy(u)'
  BY <1>1, <1>3 DEF KnowsCopy
<1> QED BY <1>1, <1>2, <1>3

LEMMA EvictStep ==
    ASSUME CartSound, NEW k \in Processes, Lines!Evict(k)
    PROVE  CartSound'
<1>1. /\ cache' = [cache EXCEPT ![k] = None]
      /\ UNCHANGED <<line, cartRequest, cartWrites, owed, cartRaced>>
  BY DEF Lines!Evict, Lines!Dropped, Lines!ghosts
<1>2. cartRequest \in [Requests -> CartFrame]
  BY DEF CartSound, CartTypeOK
<1>3. /\ cache' \in [Processes -> CartCopy \cup {None}] /\ CopiesKnown'
      /\ \A u \in CartFrame : KnowsCopy(u) => KnowsCopy(u)'
  BY <1>1, CopyChanges
<1>5. \A v \in Requests : KnowsCopy(cartRequest[v])'
  <2> SUFFICES ASSUME NEW v \in Requests
               PROVE  KnowsCopy(cartRequest[v])'
    OBVIOUS
  <2>1. PICK u \in CartFrame : u = cartRequest[v] /\ KnowsCopy(u)
    BY <1>2 DEF CartSound
  <2>2. KnowsCopy(u)'
    BY <1>3, <2>1
  <2>3. cartRequest'[v] = u
    BY <1>1, <2>1
  <2> QED BY <2>2, <2>3 DEF KnowsCopy
<1>6. \A u, v \in Requests : KeepsNewer(cartRequest'[u], cartRequest'[v])
  BY <1>1 DEF CartSound
<1>7. \A v \in Requests : KnowsLine(cartRequest'[v])
  BY <1>1 DEF CartSound
<1> QED BY <1>1, <1>2, <1>3, <1>5, <1>6, <1>7, LinesStay

(* Request r goes on as q, and the copy of its process becomes c. *)
LEMMA CopyStep ==
    ASSUME CartSound, NEW r \in Requests, NEW q \in CartFrame,
           NEW k \in Processes, NEW c \in CartCopy \cup {None},
           c # None => c.writes <= cartWrites,
           \A u \in Requests \ {r} :
              /\ cartRequest[u].pc = "get" /\ cartRequest[u].process = k
              /\ ~cartRequest[u].straddled /\ c # None
              => c.writes >= cartRequest[u].wrote,
           KnowsLine(q), KnowsCopy(q)', q.pc # "keep",
           \A v \in Requests \ {r} : KeepsNewer(q, cartRequest[v]),
           cache' = [cache EXCEPT ![k] = c],
           cartRequest' = [cartRequest EXCEPT ![r] = q],
           UNCHANGED <<line, cartWrites, owed, cartRaced>>
    PROVE  CartSound'
<1>1. cartRequest' \in [Requests -> CartFrame]
      /\ cartRequest'[r] = q
      /\ \A v \in Requests \ {r} : cartRequest'[v] = cartRequest[v]
  BY DEF CartSound, CartTypeOK
<1>2. /\ cache' \in [Processes -> CartCopy \cup {None}] /\ CopiesKnown'
      /\ \A u \in CartFrame :
            /\ KnowsCopy(u)
            /\ u.pc = "get" /\ u.process = k /\ ~u.straddled /\ c # None => c.writes >= u.wrote
            => KnowsCopy(u)'
  BY CopyChanges
<1>3. \A v \in Requests : KnowsCopy(cartRequest[v])'
  <2> SUFFICES ASSUME NEW v \in Requests
               PROVE  KnowsCopy(cartRequest[v])'
    OBVIOUS
  <2>1. CASE v = r
    BY <1>1, <2>1 DEF KnowsCopy
  <2>2. CASE v # r
    <3>1. PICK u \in CartFrame : u = cartRequest[v] /\ KnowsCopy(u)
      BY DEF CartSound, CartTypeOK
    <3>2. KnowsCopy(u)'
      BY <1>2, <2>2, <3>1
    <3>3. cartRequest'[v] = u
      BY <1>1, <2>2, <3>1
    <3> QED BY <3>2, <3>3 DEF KnowsCopy
  <2> QED BY <2>1, <2>2
<1>4. \A v \in Requests : KnowsLine(cartRequest'[v])
  BY <1>1 DEF CartSound
<1>5. \A u, v \in Requests : KeepsNewer(cartRequest'[u], cartRequest'[v])
  <2> SUFFICES ASSUME NEW u \in Requests, NEW v \in Requests
               PROVE  KeepsNewer(cartRequest'[u], cartRequest'[v])
    OBVIOUS
  <2>1. CASE v = r
    BY <1>1, <2>1 DEF KeepsNewer
  <2>2. CASE v # r /\ u = r
    BY <1>1, <2>2
  <2>3. CASE v # r /\ u # r
    BY <1>1, <2>3 DEF CartSound
  <2> QED BY <2>1, <2>2, <2>3
<1> QED BY <1>1, <1>2, <1>3, <1>4, <1>5, LinesStay

LEMMA InvalidateCartStep ==
    ASSUME CartSound, NEW r \in Requests, Lines!InvalidateCart(r)
    PROVE  CartSound'
<1>1. PICK p \in CartFrame : p = cartRequest[r] /\ KnowsCopy(p) /\ p.pc \in {"drop", "leave"}
  BY DEF CartSound, CartTypeOK, Lines!InvalidateCart
<1>2. PICK b \in BOOLEAN : b <=> Lines!Straddles(r)
  OBVIOUS
<1>3. PICK k \in Processes : k = p.process
  BY <1>1 DEF KnowsCopy
<1>4. cache' = [cache EXCEPT ![k] = None]
      /\ UNCHANGED <<line, cartWrites, owed, cartRaced>>
  BY <1>1, <1>3 DEF Lines!InvalidateCart, Lines!Dropped, Lines!ghosts
<1>5. cache'[k] = None
  BY <1>4 DEF CartSound, CartTypeOK
<1>6. CASE p.pc = "leave"
  <2>1. PICK q \in CartFrame : q = Lines!Idle /\ q.pc = "idle" /\ q.wrote = 0
    BY IdleCart
  <2>2. cartRequest' = [cartRequest EXCEPT ![r] = q]
    BY <1>1, <1>6, <2>1 DEF Lines!InvalidateCart, Lines!Goto
  <2>3. KnowsLine(q) /\ KnowsCopy(q)' /\ \A v \in Requests : KeepsNewer(q, cartRequest[v])
    <3>1. cartWrites' \in Nat
      BY <1>4 DEF CartSound, CartTypeOK
    <3> QED BY <2>1, <3>1 DEF KnowsLine, KnowsCopy, KeepsNewer
  <2> QED BY <1>4, <2>1, <2>2, <2>3, CopyStep
<1>7. CASE p.pc = "drop"
  <2>1. cartRequest' = [cartRequest EXCEPT ![r] =
                           [p EXCEPT !.pc = "get", !.straddled = Lines!Straddles(r)]]
    BY <1>1, <1>7 DEF Lines!InvalidateCart, Lines!Goto
  <2>2. Lines!Straddles(r) = b
    <3>1. Lines!Straddles(r) \in BOOLEAN
      BY Zenon DEF Lines!Straddles
    <3> QED BY <1>2, <3>1
  <2>3. PICK q \in CartFrame : q = [p EXCEPT !.pc = "get", !.straddled = b]
    BY DEF CartFrame
  <2>4. q.pc = "get" /\ q.straddled = b /\ q.process = k /\ q.wrote = p.wrote
    BY <1>3, <2>3 DEF CartFrame
  <2>5. cartRequest' = [cartRequest EXCEPT ![r] = q]
    BY <2>1, <2>2, <2>3
  <2>6. KnowsLine(q) /\ KnowsCopy(q)'
    BY <1>1, <1>4, <1>5, <2>4 DEF KnowsLine, KnowsCopy
  <2>7. ASSUME NEW v \in Requests \ {r}
        PROVE  KeepsNewer(q, cartRequest[v])
    <3>1. PICK w \in CartFrame : w = cartRequest[v] /\ KnowsCopy(w)
      BY DEF CartSound, CartTypeOK
    <3>2. ~b /\ w.pc = "keep" /\ w.process = k => ~(w.cart.writes < p.wrote)
      BY <1>1, <1>2, <1>3, <3>1 DEF Lines!Straddles, Lines!At
    <3>3. w.pc = "keep" => w.cart.writes \in Nat /\ p.wrote \in Nat
      BY <3>1 DEF KnowsCopy, CartCopy, CartFrame
    <3> QED BY <2>4, <3>1, <3>2, <3>3 DEF KeepsNewer
  <2> QED BY <1>4, <2>4, <2>5, <2>6, <2>7, CopyStep
<1> QED BY <1>1, <1>6, <1>7

LEMMA KeepStep ==
    ASSUME CartSound, NEW r \in Requests, Lines!Keep(r)
    PROVE  CartSound'
<1>1. PICK p \in CartFrame : p = cartRequest[r] /\ KnowsCopy(p) /\ p.pc = "keep"
  BY DEF CartSound, CartTypeOK, Lines!Keep, Lines!At
<1>2. PICK k \in Processes : k = p.process
  BY <1>1 DEF KnowsCopy
<1>3. PICK c \in CartCopy : c = p.cart /\ c.writes <= cartWrites
  BY <1>1 DEF KnowsCopy
<1>4. cache' = [cache EXCEPT ![k] = c]
      /\ UNCHANGED <<line, cartWrites, owed, cartRaced>>
  BY <1>1, <1>2, <1>3 DEF Lines!Keep, Lines!ghosts
<1>5. PICK q \in CartFrame : q = [p EXCEPT !.pc = "answer"]
  BY DEF CartFrame
<1>6. /\ q.pc = "answer" /\ q.cart = c /\ q.process = k /\ q.wrote = p.wrote
      /\ q.straddled = p.straddled
  BY <1>2, <1>3, <1>5 DEF CartFrame
<1>7. cartRequest' = [cartRequest EXCEPT ![r] = q]
  BY <1>1, <1>5 DEF Lines!Keep, Lines!Goto
<1>8. KnowsLine(q) /\ KnowsCopy(q)' /\ \A v \in Requests : KeepsNewer(q, cartRequest[v])
  BY <1>1, <1>3, <1>4, <1>6 DEF KnowsLine, KnowsCopy, KeepsNewer
<1>9. \A u \in Requests \ {r} :
          /\ cartRequest[u].pc = "get" /\ cartRequest[u].process = k
          /\ ~cartRequest[u].straddled
          => c.writes >= cartRequest[u].wrote
  <2>1. \A u \in Requests : KeepsNewer(cartRequest[u], p)
    BY <1>1 DEF CartSound
  <2> QED BY <1>1, <1>2, <1>3, <2>1 DEF KeepsNewer
<1> QED BY <1>3, <1>4, <1>6, <1>7, <1>8, <1>9, CopyStep

-----------------------------------------------------------------------------
(* The writes.  Lines only get more, keep their product, and do not come back *)
(* to life: what a request has found stays what it was.                       *)
LEMMA CartWriteStep ==
    ASSUME CartSound, NEW r \in Requests, NEW q \in CartFrame,
           q.pc \in {"drop", "leave"}, q.process \in Processes, q.wrote = cartWrites + 1,
           cartRequest' = [cartRequest EXCEPT ![r] = q],
           cartWrites < MaxWrites, cartWrites' = cartWrites + 1, cache' = cache,
           line' \in Seq(CartLine), Len(line') <= MaxLines, Len(line) <= Len(line'),
           \A i \in 1..Len(line) : /\ line'[i].product = line[i].product
                                   /\ line'[i].quantity > 0 => line[i].quantity > 0,
           owed' \in [Products -> Int], cartRaced' \subseteq Products,
           Lines!OneLineEach',
           \A x \in Products \ cartRaced' : owed'[x] = Total(line', x)
    PROVE  CartSound'
<1>1. cartRequest' \in [Requests -> CartFrame]
      /\ cartRequest'[r] = q
      /\ \A v \in Requests \ {r} : cartRequest'[v] = cartRequest[v]
  BY DEF CartSound, CartTypeOK
<1>2. cartWrites \in Nat /\ MaxWrites \in Nat
  BY LinesFit DEF CartSound, CartTypeOK
<1>3. cartWrites' \in 0..MaxWrites
  BY <1>2
<1>4. CartTypeOK'
  BY <1>1, <1>3 DEF CartSound, CartTypeOK
<1>5. \A p \in Processes : cache[p] # None => cache[p].writes \in Nat
  BY DEF CartSound, CartTypeOK, CartCopy
<1>6. CopiesKnown'
  <2> SUFFICES ASSUME NEW p \in Processes, cache'[p] # None
               PROVE  cache'[p].writes <= cartWrites'
    BY DEF CopiesKnown
  <2>1. PICK n \in Nat : n = cache[p].writes /\ n <= cartWrites
    BY <1>5 DEF CartSound, CopiesKnown
  <2>2. n <= cartWrites + 1
    BY <1>2, <2>1
  <2> QED BY <2>1, <2>2
<1>7. ASSUME NEW u \in CartFrame, KnowsLine(u)
      PROVE  KnowsLine(u)'
  <2>1. Len(line) \in Nat /\ Len(line') \in Nat /\ u.looked \in Nat
    <3>1. line \in Seq(CartLine)
      BY DEF CartSound, CartTypeOK
    <3>2. u.looked \in 0..MaxLines
      BY DEF CartFrame
    <3> QED BY <3>1, <3>2, LinesFit
  <2>2. u.pc = "add" /\ u.line = 0 =>
            /\ u.looked <= Len(line')
            /\ \A i \in Lines!Live' : line'[i].product = u.product => i > u.looked
    <3> SUFFICES ASSUME u.pc = "add", u.line = 0
                 PROVE  /\ u.looked <= Len(line')
                        /\ \A i \in Lines!Live' : line'[i].product = u.product => i > u.looked
      OBVIOUS
    <3>1. /\ u.looked <= Len(line)
          /\ \A i \in Lines!Live : line[i].product = u.product => i > u.looked
      BY <1>7 DEF KnowsLine
    <3>2. u.looked <= Len(line')
      BY <2>1, <3>1
    <3>3. ASSUME NEW i \in 1..Len(line'), line'[i].quantity > 0, line'[i].product = u.product
          PROVE  i > u.looked
      <4>1. CASE i \in 1..Len(line)
        BY <3>1, <3>3, <4>1 DEF Lines!Live, Lines!Lines
      <4>2. CASE i \notin 1..Len(line)
        BY <2>1, <3>1, <3>3, <4>2
      <4> QED BY <4>1, <4>2
    <3> QED BY <3>2, <3>3 DEF Lines!Live, Lines!Lines
  <2>3. u.pc = "add" /\ u.line # 0 =>
            u.line \in 1..Len(line') /\ line'[u.line].product = u.product
    <3> SUFFICES ASSUME u.pc = "add", u.line # 0
                 PROVE  u.line \in 1..Len(line') /\ line'[u.line].product = u.product
      OBVIOUS
    <3>1. u.line \in 1..Len(line) /\ line[u.line].product = u.product
      BY <1>7 DEF KnowsLine
    <3>2. u.line \in 1..Len(line')
      BY <2>1, <3>1
    <3> QED BY <3>1, <3>2
  <2>4. u.pc \in {"find", "add"} => u.product \in Products
    BY <1>7 DEF KnowsLine
  <2> QED BY <2>2, <2>3, <2>4 DEF KnowsLine
<1>8. ASSUME NEW u \in CartFrame, KnowsCopy(u)
      PROVE  KnowsCopy(u)'
  <2>1. u.wrote \in Nat /\ u.wrote <= cartWrites /\ u.wrote <= cartWrites + 1
    <3>1. u.wrote \in Nat /\ u.wrote <= cartWrites
      BY <1>8 DEF KnowsCopy, CartFrame
    <3> QED BY <1>2, <3>1
  <2>2. u.pc = "keep" => u.cart.writes <= cartWrites + 1
    <3>1. u.pc = "keep" => u.cart.writes \in Nat /\ u.cart.writes <= cartWrites
      BY <1>8 DEF KnowsCopy, CartCopy
    <3> QED BY <1>2, <3>1
  <2> QED BY <1>8, <2>1, <2>2 DEF KnowsCopy
<1>9. KnowsLine(q)' /\ KnowsCopy(q)'
  <2>1. q.wrote <= cartWrites'
    BY <1>2
  <2> QED BY <2>1 DEF KnowsLine, KnowsCopy
<1>10. ASSUME NEW v \in Requests
       PROVE  KnowsLine(cartRequest[v])' /\ KnowsCopy(cartRequest[v])'
  <2>1. PICK u \in CartFrame : u = cartRequest[v] /\ KnowsLine(u) /\ KnowsCopy(u)
    BY DEF CartSound, CartTypeOK
  <2>2. KnowsLine(u)' /\ KnowsCopy(u)'
    BY <1>7, <1>8, <2>1
  <2>3. CASE v = r
    BY <1>1, <1>9, <2>3 DEF KnowsLine, KnowsCopy
  <2>4. CASE v # r
    <3>1. cartRequest'[v] = u
      BY <1>1, <2>1, <2>4
    <3> QED BY <2>2, <3>1 DEF KnowsLine, KnowsCopy
  <2> QED BY <2>3, <2>4
<1>11. \A u, v \in Requests : KeepsNewer(cartRequest[u], cartRequest[v])'
  <2> SUFFICES ASSUME NEW u \in Requests, NEW v \in Requests
               PROVE  KeepsNewer(cartRequest[u], cartRequest[v])'
    OBVIOUS
  <2>1. CASE u = r \/ v = r
    BY <1>1, <2>1 DEF KeepsNewer
  <2>2. CASE u # r /\ v # r
    <3>1. KeepsNewer(cartRequest[u], cartRequest[v])
      BY DEF CartSound
    <3> QED BY <1>1, <2>2, <3>1 DEF KeepsNewer
  <2> QED BY <2>1, <2>2
<1>12. Lines!NothingIsLost'
  BY LostNext
<1> QED BY <1>4, <1>6, <1>10, <1>11, <1>12 DEF CartSound

(* The frame after a write. *)
LEMMA CartWriterFrame ==
    ASSUME CartSound, NEW r \in Requests, NEW pc \in {"drop", "leave"}, NEW new,
           Lines!Write(r, pc, new), cartRequest[r].pc # "idle"
    PROVE  /\ \E q \in CartFrame :
                 /\ q.pc = pc /\ q.process \in Processes /\ q.wrote = cartWrites + 1
                 /\ cartRequest' = [cartRequest EXCEPT ![r] = q]
           /\ cartWrites < MaxWrites /\ cartWrites' = cartWrites + 1 /\ cache' = cache
           /\ line' = new
<1>1. PICK p \in CartFrame : p = cartRequest[r] /\ p.process \in Processes
  BY DEF CartSound, CartTypeOK, KnowsCopy
<1>2. cartWrites < MaxWrites /\ cartWrites' = cartWrites + 1 /\ cache' = cache /\ line' = new
      /\ cartRequest' = [cartRequest EXCEPT ![r] = [p EXCEPT !.pc = pc, !.wrote = cartWrites + 1]]
  BY <1>1 DEF Lines!Write, Lines!Goto
<1>3. cartWrites + 1 \in 0..MaxWrites
  BY <1>2, LinesFit DEF CartSound, CartTypeOK
<1>4. PICK q \in CartFrame : q = [p EXCEPT !.pc = pc, !.wrote = cartWrites + 1]
  BY <1>3 DEF CartFrame
<1>5. q.pc = pc /\ q.process = p.process /\ q.wrote = cartWrites + 1
  BY <1>4 DEF CartFrame
<1> QED BY <1>1, <1>2, <1>4, <1>5

(* Without a new line there is no second line of a product either.            *)
LEMMA NoSecondLine ==
    ASSUME CartSound, line' \in Seq(CartLine), Len(line') = Len(line),
           \A i \in 1..Len(line) : /\ line'[i].product = line[i].product
                                   /\ line'[i].looked = line[i].looked
                                   /\ line'[i].quantity > 0 => line[i].quantity > 0
    PROVE  Lines!OneLineEach'
<1>1. \A i \in Lines!Live' : i \in Lines!Live /\ i \in 1..Len(line)
  BY DEF Lines!Live, Lines!Lines
<1>2. Lines!OneLineEach
  BY DEF CartSound
<1> QED BY <1>1, <1>2 DEF Lines!OneLineEach

LEMMA CreateLineStep ==
    ASSUME CartSound, NEW r \in Requests, Lines!CreateLine(r)
    PROVE  CartSound'
<1>1. PICK p \in CartFrame : p = cartRequest[r] /\ KnowsLine(p)
  BY DEF CartSound, CartTypeOK
<1>2. p.pc = "add" /\ p.line = 0 /\ p.product \in Products
  BY <1>1 DEF Lines!CreateLine, Lines!At, KnowsLine
<1>3. PICK new \in CartLine :
          new = [product |-> p.product, quantity |-> p.quantity, looked |-> p.looked]
  BY <1>2 DEF CartLine, CartFrame
<1>4. new.product = p.product /\ new.quantity = p.quantity /\ new.looked = p.looked
  BY <1>3
<1>5. /\ Len(line) < MaxLines
      /\ Lines!Write(r, "drop", Append(line, new))
      /\ owed' = [owed EXCEPT ![p.product] = @ + p.quantity]
      /\ cartRaced' = cartRaced
  BY <1>1, <1>3 DEF Lines!CreateLine
<1>6. /\ \E q \in CartFrame : /\ q.pc = "drop" /\ q.process \in Processes
                              /\ q.wrote = cartWrites + 1
                              /\ cartRequest' = [cartRequest EXCEPT ![r] = q]
      /\ cartWrites < MaxWrites /\ cartWrites' = cartWrites + 1 /\ cache' = cache
      /\ line' = Append(line, new)
  <2>1. "drop" \in {"drop", "leave"} /\ cartRequest[r].pc # "idle"
    BY <1>1, <1>2
  <2> QED BY <1>5, <2>1, CartWriterFrame
<1>7. PICK l \in Seq(CartLine) : l = line
  BY DEF CartSound, CartTypeOK
<1>8. PICK n \in Nat : n = Len(l) /\ n < MaxLines /\ n + 1 <= MaxLines
  BY <1>5, <1>7, LinesFit
<1>9. /\ line' \in Seq(CartLine) /\ Len(line') = n + 1
      /\ line'[n + 1] = new /\ \A j \in 1..n : line'[j] = l[j]
      /\ Total(line', new.product) = Total(l, new.product) + new.quantity
      /\ \A x \in Products : x # new.product => Total(line', x) = Total(l, x)
  <2>1. Longer(l, new, Append(l, new))
    BY TotalAdd
  <2>2. Longer(l, new, line')
    BY <1>6, <1>7, <2>1
  <2> QED BY <1>8, <2>2 DEF Longer
<1>10. Lines!OneLineEach'
  <2> SUFFICES ASSUME NEW i \in 1..(n + 1), NEW j \in 1..(n + 1),
                      line'[i].quantity > 0, line'[j].quantity > 0,
                      i < j, line'[i].product = line'[j].product
               PROVE  line'[j].looked < i
    BY <1>9 DEF Lines!OneLineEach, Lines!Live, Lines!Lines
  <2>1. i \in 1..n /\ line'[i] = line[i]
    BY <1>7, <1>9
  <2>2. CASE j \in 1..n
    <3>1. line'[j] = line[j] /\ i \in Lines!Live /\ j \in Lines!Live
      BY <1>7, <1>8, <1>9, <2>1, <2>2 DEF Lines!Live, Lines!Lines
    <3> QED BY <2>1, <3>1 DEF CartSound, Lines!OneLineEach
  <2>3. CASE j = n + 1
    <3>1. i \in Lines!Live /\ line[i].product = p.product
      BY <1>4, <1>7, <1>8, <1>9, <2>1, <2>3 DEF Lines!Live, Lines!Lines
    <3>2. i > p.looked /\ p.looked \in Int
      BY <1>1, <1>2, <3>1, LinesFit DEF KnowsLine, CartFrame
    <3> QED BY <1>4, <1>9, <2>3, <3>2
  <2> QED BY <2>2, <2>3
<1>11. owed' \in [Products -> Int]
       /\ \A x \in Products \ cartRaced' : owed'[x] = Total(line', x)
  <2>1. owed \in [Products -> Int] /\ p.quantity \in Nat
        /\ \A x \in Products \ cartRaced : owed[x] = Total(l, x)
    BY <1>7, LostNow DEF CartSound, CartTypeOK, CartFrame
  <2>2. owed' \in [Products -> Int]
    BY <1>2, <1>5, <2>1
  <2>3. owed'[p.product] = owed[p.product] + p.quantity
        /\ \A x \in Products : x # p.product => owed'[x] = owed[x]
    BY <1>2, <1>5, <2>1
  <2>4. p.product \notin cartRaced' => owed'[p.product] = Total(line', p.product)
    BY <1>2, <1>4, <1>5, <1>9, <2>1, <2>3
  <2>5. \A x \in Products \ cartRaced' : x # p.product => owed'[x] = Total(line', x)
    BY <1>4, <1>5, <1>9, <2>1, <2>3
  <2> QED BY <2>2, <2>4, <2>5
<1>12. /\ Len(line') <= MaxLines /\ Len(line) <= Len(line')
       /\ \A i \in 1..Len(line) : /\ line'[i].product = line[i].product
                                  /\ line'[i].quantity > 0 => line[i].quantity > 0
  BY <1>7, <1>8, <1>9
<1>13. cartRaced' \subseteq Products
  BY <1>5 DEF CartSound, CartTypeOK
<1>14. PICK q \in CartFrame :
           /\ q.pc = "drop" /\ q.process \in Processes /\ q.wrote = cartWrites + 1
           /\ cartRequest' = [cartRequest EXCEPT ![r] = q]
  BY <1>6
<1> QED BY <1>6, <1>9, <1>10, <1>11, <1>12, <1>13, <1>14, CartWriteStep

(* The quantity of line i, which is live, becomes n; n - it of it is owed     *)
(* besides, or the product is raced.                                          *)
LEMMA QuantityStep ==
    ASSUME CartSound, NEW r \in Requests, NEW i \in Lines!Live, NEW n \in Nat,
           cartRequest[r].pc # "idle",
           Lines!Write(r, "drop", [line EXCEPT ![i].quantity = n]),
           owed' \in [Products -> Int], cartRaced \subseteq cartRaced',
           cartRaced' \subseteq Products,
           \A x \in Products : x # line[i].product => owed'[x] = owed[x],
           line[i].product \notin cartRaced' =>
               owed'[line[i].product] = owed[line[i].product] + n - line[i].quantity
    PROVE  CartSound'
<1>1. /\ \E q \in CartFrame : /\ q.pc = "drop" /\ q.process \in Processes
                              /\ q.wrote = cartWrites + 1
                              /\ cartRequest' = [cartRequest EXCEPT ![r] = q]
      /\ cartWrites < MaxWrites /\ cartWrites' = cartWrites + 1 /\ cache' = cache
      /\ line' = [line EXCEPT ![i].quantity = n]
  <2>1. "drop" \in {"drop", "leave"}
    OBVIOUS
  <2> QED BY <2>1, CartWriterFrame
<1>2. PICK l \in Seq(CartLine) : l = line /\ Len(l) <= MaxLines
  BY DEF CartSound, CartTypeOK
<1>3. i \in 1..Len(l) /\ l[i].quantity > 0 /\ l[i] \in CartLine
  BY <1>2 DEF Lines!Live, Lines!Lines
<1>4. /\ line' \in Seq(CartLine) /\ Len(line') = Len(l)
      /\ line'[i].quantity = n /\ line'[i].product = l[i].product
      /\ line'[i].looked = l[i].looked
      /\ \A j \in 1..Len(l) : j # i => line'[j] = l[j]
      /\ Total(line', l[i].product) = Total(l, l[i].product) + n - l[i].quantity
      /\ \A x \in Products : x # l[i].product => Total(line', x) = Total(l, x)
  <2>1. SetTo(l, i, n, [l EXCEPT ![i].quantity = n])
    BY <1>3, TotalSet
  <2>2. SetTo(l, i, n, line')
    BY <1>1, <1>2, <2>1
  <2> QED BY <2>2 DEF SetTo
<1>5. \A j \in 1..Len(line) : /\ line'[j].product = line[j].product
                              /\ line'[j].looked = line[j].looked
                              /\ line'[j].quantity > 0 => line[j].quantity > 0
  BY <1>2, <1>3, <1>4
<1>6. Lines!OneLineEach'
  BY <1>2, <1>4, <1>5, NoSecondLine
<1>7. \A x \in Products \ cartRaced' : owed'[x] = Total(line', x)
  <2>1. /\ \A x \in Products \ cartRaced : owed[x] = Total(l, x)
        /\ \A x \in Products : owed[x] \in Int
        /\ l[i].product \in Products
    BY <1>2, <1>3, LostNow DEF CartSound, CartTypeOK, CartLine
  <2>2. l[i].product \notin cartRaced' => owed'[l[i].product] = Total(line', l[i].product)
    BY <1>2, <1>4, <2>1
  <2>3. \A x \in Products \ cartRaced' : x # l[i].product => owed'[x] = Total(line', x)
    BY <1>2, <1>4, <2>1
  <2> QED BY <2>2, <2>3
<1>8. PICK q \in CartFrame :
          /\ q.pc = "drop" /\ q.process \in Processes /\ q.wrote = cartWrites + 1
          /\ cartRequest' = [cartRequest EXCEPT ![r] = q]
  BY <1>1
<1>9. Len(line') <= MaxLines /\ Len(line) <= Len(line')
  BY <1>2, <1>4
<1> QED BY <1>1, <1>4, <1>5, <1>6, <1>7, <1>8, <1>9, CartWriteStep

LEMMA AddToLineStep ==
    ASSUME CartSound, NEW r \in Requests, Lines!AddToLine(r)
    PROVE  CartSound'
<1>1. PICK p \in CartFrame : p = cartRequest[r] /\ KnowsLine(p)
  BY DEF CartSound, CartTypeOK
<1>2. p.pc = "add" /\ p.line # 0
  BY <1>1 DEF Lines!AddToLine, Lines!At
<1>3. line[p.line].product = p.product /\ p.product \in Products
  BY <1>1, <1>2 DEF KnowsLine
<1>4. CASE p.line \notin Lines!Live
  BY <1>1, <1>4, CartIdleStep DEF Lines!AddToLine
<1>5. CASE p.line \in Lines!Live
  <2>1. PICK i \in Lines!Live : i = p.line
    BY <1>5
  <2>2. PICK n \in Nat : n = p.seen + p.quantity
    BY DEF CartFrame
  <2>3. /\ Lines!Write(r, "drop", [line EXCEPT ![i].quantity = n])
        /\ owed' = [owed EXCEPT ![p.product] = @ + p.quantity]
        /\ cartRaced' = IF line[i].quantity = p.seen THEN cartRaced
                        ELSE cartRaced \cup {p.product}
    BY <1>1, <1>5, <2>1, <2>2 DEF Lines!AddToLine
  <2>4. owed \in [Products -> Int] /\ p.quantity \in Nat /\ p.seen \in Nat
        /\ cartRaced \subseteq Products
    BY DEF CartSound, CartTypeOK, CartFrame
  <2>5. owed' \in [Products -> Int]
        /\ owed'[p.product] = owed[p.product] + p.quantity
        /\ \A x \in Products : x # p.product => owed'[x] = owed[x]
    BY <1>3, <2>3, <2>4
  <2>6. cartRaced \subseteq cartRaced' /\ cartRaced' \subseteq Products
        /\ (p.product \notin cartRaced' => line[i].quantity = p.seen)
    BY <1>3, <2>3, <2>4
  <2>7. p.product \notin cartRaced' =>
            owed'[p.product] = owed[p.product] + n - line[i].quantity
    <3>1. owed[p.product] \in Int
      BY <1>3, <2>4
    <3> QED BY <2>2, <2>4, <2>5, <2>6, <3>1
  <2>8. line[i].product = p.product /\ cartRequest[r].pc # "idle"
    BY <1>1, <1>2, <1>3, <2>1
  <2> QED BY <2>3, <2>5, <2>6, <2>7, <2>8, QuantityStep
<1> QED BY <1>4, <1>5

LEMMA SetLineStep ==
    ASSUME CartSound, NEW r \in Requests, NEW pc \in {"update", "remove"}, NEW n \in Nat,
           Lines!SetLine(r, pc, n)
    PROVE  CartSound'
<1>1. cartRequest[r].pc # "idle"
  BY DEF Lines!SetLine, Lines!At
<1>2. CASE cartRequest[r].line \notin Lines!Live
  BY <1>2, CartIdleStep DEF Lines!SetLine
<1>3. CASE cartRequest[r].line \in Lines!Live
  <2>1. PICK i \in Lines!Live : i = cartRequest[r].line
    BY <1>3
  <2>2. /\ Lines!Write(r, "drop", [line EXCEPT ![i].quantity = n])
        /\ owed' = [owed EXCEPT ![line[i].product] = @ + n - line[i].quantity]
        /\ cartRaced' = cartRaced
    BY <1>3, <2>1 DEF Lines!SetLine
  <2>3. line[i].product \in Products /\ line[i].quantity \in Nat
    <3>1. line[i] \in CartLine
      BY DEF CartSound, CartTypeOK, Lines!Live, Lines!Lines
    <3> QED BY <3>1 DEF CartLine
  <2>4. owed \in [Products -> Int] /\ cartRaced \subseteq Products
    BY DEF CartSound, CartTypeOK
  <2>5. owed' \in [Products -> Int]
        /\ owed'[line[i].product] = owed[line[i].product] + n - line[i].quantity
        /\ \A x \in Products : x # line[i].product => owed'[x] = owed[x]
    BY <2>2, <2>3, <2>4
  <2> QED BY <1>1, <2>2, <2>4, <2>5, QuantityStep
<1> QED BY <1>2, <1>3

(* The cart without its lines. *)
LEMMA EmptiedLines ==
    ASSUME CartSound
    PROVE  /\ Lines!Emptied \in Seq(CartLine) /\ Len(Lines!Emptied) = Len(line)
           /\ \A i \in 1..Len(line) : /\ Lines!Emptied[i].product = line[i].product
                                      /\ Lines!Emptied[i].looked = line[i].looked
                                      /\ Lines!Emptied[i].quantity = 0
           /\ \A x : Total(Lines!Emptied, x) = 0
<1>1. PICK n \in Nat : n = Len(line) /\ line \in Seq(CartLine)
  BY DEF CartSound, CartTypeOK
<1>2. PICK e \in [1..n -> CartLine] :
          e = Lines!Emptied /\ \A i \in 1..n : e[i] = [line[i] EXCEPT !.quantity = 0]
  <2>1. \A i \in 1..n : line[i] \in CartLine
    BY <1>1
  <2>2. \A i \in 1..n : [line[i] EXCEPT !.quantity = 0] \in CartLine
    BY <2>1 DEF CartLine
  <2>3. Lines!Emptied = [i \in 1..n |-> [line[i] EXCEPT !.quantity = 0]]
    BY <1>1 DEF Lines!Emptied, Lines!Lines
  <2>4. [i \in 1..n |-> [line[i] EXCEPT !.quantity = 0]] \in [1..n -> CartLine]
    BY <2>2, Zenon
  <2>5. Lines!Emptied \in [1..n -> CartLine]
    BY <2>3, <2>4, Zenon
  <2>6. \A i \in 1..n : Lines!Emptied[i] = [line[i] EXCEPT !.quantity = 0]
    BY <2>3, Zenon
  <2> QED BY <2>5, <2>6, Zenon
<1>3. e \in Seq(CartLine)
  BY SeqDef
<1>4. Len(e) = n
  <2>1. DOMAIN e = 1..n /\ DOMAIN e = 1..Len(e) /\ Len(e) \in Nat
    BY <1>3, LenProperties
  <2> QED BY <2>1
<1>5. ASSUME NEW i \in 1..n
      PROVE  e[i].product = line[i].product /\ e[i].looked = line[i].looked /\ e[i].quantity = 0
  <2>1. line[i] \in CartLine
    BY <1>1
  <2> QED BY <1>2, <2>1 DEF CartLine
<1>6. \A x : Total(e, x) = 0
  BY <1>3, <1>4, <1>5, TotalNone
<1> QED BY <1>1, <1>2, <1>3, <1>4, <1>5, <1>6

LEMMA EmptyStep ==
    ASSUME CartSound, NEW r \in Requests, NEW q \in CartFrame,
           q.pc \in {"drop", "leave"}, q.process \in Processes, q.wrote = cartWrites + 1,
           cartRequest' = [cartRequest EXCEPT ![r] = q],
           cartWrites < MaxWrites, cartWrites' = cartWrites + 1, cache' = cache,
           line' = Lines!Emptied,
           owed' \in [Products -> Int], cartRaced' \subseteq Products,
           \A x \in Products \ cartRaced' : owed'[x] = 0
    PROVE  CartSound'
<1>1. /\ line' \in Seq(CartLine) /\ Len(line') = Len(line)
      /\ \A i \in 1..Len(line) : /\ line'[i].product = line[i].product
                                 /\ line'[i].looked = line[i].looked
                                 /\ line'[i].quantity = 0
      /\ \A x : Total(line', x) = 0
  BY EmptiedLines
<1>2. Lines!OneLineEach'
  BY <1>1, NoSecondLine
<1>3. Len(line') <= MaxLines /\ Len(line) <= Len(line')
  BY <1>1, LinesFit DEF CartSound, CartTypeOK
<1>4. \A i \in 1..Len(line) : /\ line'[i].product = line[i].product
                              /\ line'[i].quantity > 0 => line[i].quantity > 0
  BY <1>1
<1>5. \A x \in Products \ cartRaced' : owed'[x] = Total(line', x)
  BY <1>1
<1> QED BY <1>1, <1>2, <1>3, <1>4, <1>5, CartWriteStep

LEMMA ClearCartStep ==
    ASSUME CartSound, NEW r \in Requests, NEW p \in Processes, Lines!ClearCart(r, p)
    PROVE  CartSound'
<1>1. /\ cartWrites < MaxWrites /\ cartWrites' = cartWrites + 1 /\ cache' = cache
      /\ line' = Lines!Emptied /\ owed' = [x \in Products |-> 0] /\ cartRaced' = cartRaced
      /\ cartRequest' = [cartRequest EXCEPT ![r] =
            [Lines!Idle EXCEPT !.pc = "drop", !.process = p, !.wrote = cartWrites + 1]]
  BY DEF Lines!ClearCart, Lines!Goto
<1>2. cartWrites + 1 \in 0..MaxWrites
  BY <1>1, LinesFit DEF CartSound, CartTypeOK
<1>3. PICK q \in CartFrame :
          q = [Lines!Idle EXCEPT !.pc = "drop", !.process = p, !.wrote = cartWrites + 1]
  BY <1>2, IdleCart DEF CartFrame
<1>4. q.pc = "drop" /\ q.process = p /\ q.wrote = cartWrites + 1
  BY <1>3, IdleCart DEF CartFrame
<1>5. cartRequest' = [cartRequest EXCEPT ![r] = q]
  BY <1>1, <1>3
<1>6. owed' \in [Products -> Int] /\ cartRaced' \subseteq Products
      /\ \A x \in Products : owed'[x] = 0
  BY <1>1 DEF CartSound, CartTypeOK
<1> QED BY <1>1, <1>4, <1>5, <1>6, EmptyStep

(* What was put in while the order was being placed is deleted with the rest: *)
(* its product is raced.                                                      *)
LEMMA PlaceOrderStep ==
    ASSUME CartSound, NEW r \in Requests, Lines!PlaceOrder(r)
    PROVE  CartSound'
<1>1. PICK p \in CartFrame : p = cartRequest[r] /\ KnowsCopy(p) /\ p.pc = "order"
  BY DEF CartSound, CartTypeOK, Lines!PlaceOrder, Lines!At
<1>2. PICK items \in Seq(Nat) : items = p.cart.items
  BY <1>1 DEF KnowsCopy, CartCopy
<1>3. PICK l \in Seq(CartLine) : l = line
  BY DEF CartSound, CartTypeOK
<1> DEFINE was == WasIn(items, l)
<1>4. /\ \E q \in CartFrame : /\ q.pc = "leave" /\ q.process \in Processes
                              /\ q.wrote = cartWrites + 1
                              /\ cartRequest' = [cartRequest EXCEPT ![r] = q]
      /\ cartWrites < MaxWrites /\ cartWrites' = cartWrites + 1 /\ cache' = cache
      /\ line' = Lines!Emptied
  <2>1. "leave" \in {"drop", "leave"} /\ cartRequest[r].pc # "idle"
        /\ Lines!Write(r, "leave", Lines!Emptied)
    BY <1>1 DEF Lines!PlaceOrder
  <2> QED BY <2>1, CartWriterFrame
<1>5. owed' = [x \in Products |-> owed[x] - SumOf(was, LinesOf(l, x))]
  BY <1>1, <1>2, <1>3, OrderedSum
<1>6. cartRaced' = cartRaced \cup {l[i].product : i \in {j \in 1..Len(l) : l[j].quantity # was[j]}}
  BY <1>1, <1>2, <1>3 DEF Lines!PlaceOrder, Lines!Lines, WasIn
<1>7. \A i \in 1..Len(l) : l[i] \in CartLine /\ was[i] \in Nat
  BY DEF WasIn
<1> HIDE DEF was
<1>8. \A x \in Products : SumOf(was, LinesOf(l, x)) \in Int
  <2> SUFFICES ASSUME NEW x \in Products
               PROVE  SumOf(was, LinesOf(l, x)) \in Int
    OBVIOUS
  <2>1. IsFiniteSet(LinesOf(l, x)) /\ \A i \in LinesOf(l, x) : was[i] \in Int
    BY <1>7, LinesOfFinite
  <2> QED BY <2>1, SumRemove
<1>9. owed' \in [Products -> Int] /\ cartRaced' \subseteq Products
  <2>1. owed \in [Products -> Int] /\ cartRaced \subseteq Products
    BY DEF CartSound, CartTypeOK
  <2>2. owed' \in [Products -> Int]
    BY <1>5, <1>8, <2>1
  <2>3. \A i \in 1..Len(l) : l[i].product \in Products
    BY <1>7 DEF CartLine
  <2>4. cartRaced' \subseteq Products
    BY <1>6, <2>1, <2>3
  <2> QED BY <2>2, <2>4
<1>10. \A x \in Products \ cartRaced' : owed'[x] = 0
  <2> SUFFICES ASSUME NEW x \in Products \ cartRaced'
               PROVE  owed'[x] = 0
    OBVIOUS
  <2>1. owed[x] = Total(l, x) /\ owed[x] \in Int
    BY <1>3, <1>6, LostNow DEF CartSound, CartTypeOK
  <2>2. \A i \in LinesOf(l, x) : was[i] = QuantityIn(l)[i]
    <3>1. \A i \in LinesOf(l, x) : i \in 1..Len(l) /\ l[i].product = x
      BY DEF LinesOf
    <3>2. \A i \in LinesOf(l, x) : l[i].quantity = was[i]
      BY <1>6, <3>1
    <3> QED BY <3>1, <3>2, LinesOfFinite
  <2>3. SumOf(was, LinesOf(l, x)) = SumOf(QuantityIn(l), LinesOf(l, x))
    BY <2>2, LinesOfFinite, SumSame
  <2>4. owed'[x] = owed[x] - owed[x]
    BY <1>5, <2>1, <2>3 DEF Total
  <2> QED BY <2>1, <2>4
<1>11. PICK q \in CartFrame :
           /\ q.pc = "leave" /\ q.process \in Processes /\ q.wrote = cartWrites + 1
           /\ cartRequest' = [cartRequest EXCEPT ![r] = q]
  BY <1>4
<1> QED BY <1>4, <1>9, <1>10, <1>11, EmptyStep

-----------------------------------------------------------------------------
LEMMA InitCart ==
    ASSUME Lines!Init
    PROVE  CartSound
<1>1. line = <<>> /\ Len(line) = 0 /\ \A r \in Requests : cartRequest[r] = Lines!Idle
  BY DEF Lines!Init
<1>2. CartTypeOK
  <2>1. line \in Seq(CartLine) /\ cartRequest \in [Requests -> CartFrame]
    BY IdleCart DEF Lines!Init
  <2>2. cartWrites \in 0..MaxWrites /\ Len(line) <= MaxLines
    BY <1>1, LinesFit DEF Lines!Init
  <2> QED BY <2>1, <2>2 DEF CartTypeOK, Lines!Init
<1>3. \A r \in Requests : KnowsLine(cartRequest[r]) /\ KnowsCopy(cartRequest[r])
  BY <1>1, IdleCart DEF KnowsLine, KnowsCopy, Lines!Init
<1>4. \A r, v \in Requests : KeepsNewer(cartRequest[r], cartRequest[v])
  BY <1>1, IdleCart DEF KeepsNewer
<1>5. CopiesKnown
  BY DEF CopiesKnown, Lines!Init
<1>6. Lines!OneLineEach
  BY <1>1 DEF Lines!OneLineEach, Lines!Live, Lines!Lines
<1>7. Lines!NothingIsLost
  <2>1. \A x : Total(line, x) = 0
    <3>1. line \in Seq(CartLine)
      BY <1>2 DEF CartTypeOK
    <3>2. \A i \in 1..Len(line) : line[i].quantity = 0
      BY <1>1
    <3> QED BY <3>1, <3>2, TotalNone
  <2>2. \A x \in Products : owed[x] = 0
    BY DEF Lines!Init
  <2> QED BY <2>1, <2>2, LostNow
<1> QED BY <1>2, <1>3, <1>4, <1>5, <1>6, <1>7 DEF CartSound

LEMMA NextCart ==
    ASSUME CartSound, [Lines!Next]_cartVars
    PROVE  CartSound'
<1>1. ASSUME NEW r \in Requests, NEW p \in Processes, NEW x \in Products, NEW stock \in Stocks,
             Lines!AddItem(r, p, x, stock)
      PROVE  CartSound'
  BY <1>1, AddItemStep
<1>2. ASSUME NEW r \in Requests, NEW p \in Processes,
             \/ \E i \in Lines!Live, stock \in Stocks : Lines!UpdateItemRead(r, p, i, stock)
             \/ \E i \in Lines!Live : Lines!RemoveItemRead(r, p, i)
             \/ \E stock \in Stocks : Lines!PrepareCheckout(r, p, stock)
             \/ Lines!GetCart(r, p)
      PROVE  CartSound'
  BY <1>2, CartReadStep
<1>3. ASSUME NEW r \in Requests, NEW p \in Processes, Lines!ClearCart(r, p)
      PROVE  CartSound'
  BY <1>3, ClearCartStep
<1>4. ASSUME NEW r \in Requests,
             \/ Lines!FindCartLine(r) \/ Lines!CreateLine(r) \/ Lines!AddToLine(r)
             \/ Lines!PlaceOrder(r) \/ Lines!InvalidateCart(r) \/ Lines!LookUp(r)
             \/ Lines!Keep(r)
      PROVE  CartSound'
  BY <1>4, FindCartLineStep, CreateLineStep, AddToLineStep, PlaceOrderStep, InvalidateCartStep,
     LookUpStep, KeepStep
<1>5. ASSUME NEW r \in Requests, Lines!UpdateItem(r) \/ Lines!RemoveItem(r)
      PROVE  CartSound'
  <2>1. cartRequest[r].quantity \in Nat
    BY DEF CartSound, CartTypeOK, CartFrame
  <2>2. \E pc \in {"update", "remove"}, n \in Nat : Lines!SetLine(r, pc, n)
    BY <1>5, <2>1 DEF Lines!UpdateItem, Lines!RemoveItem
  <2> QED BY <2>2, SetLineStep
<1>6. ASSUME NEW r \in Requests, Lines!OrderFails(r) \/ Lines!Answer(r) \/ Lines!Fail(r)
      PROVE  CartSound'
  BY <1>6, CartIdleStep DEF Lines!OrderFails, Lines!Answer, Lines!Fail
<1>7. ASSUME NEW p \in Processes, Lines!Evict(p)
      PROVE  CartSound'
  BY <1>7, EvictStep
<1>8. CASE UNCHANGED cartVars
  <2>1. UNCHANGED <<line, cache, cartRequest, cartWrites, owed, cartRaced>>
    BY <1>8 DEF cartVars
  <2>2. cache' \in [Processes -> CartCopy \cup {None}] /\ CopiesKnown'
        /\ cartRequest' \in [Requests -> CartFrame]
    BY <2>1 DEF CartSound, CartTypeOK, CopiesKnown
  <2>3. \A r \in Requests : KnowsLine(cartRequest'[r]) /\ KnowsCopy(cartRequest[r])'
    BY <2>1 DEF CartSound, KnowsCopy
  <2>4. \A r, v \in Requests : KeepsNewer(cartRequest'[r], cartRequest'[v])
    BY <2>1 DEF CartSound
  <2> QED BY <2>1, <2>2, <2>3, <2>4, LinesStay
<1>9. Lines!Next => \/ \E r \in Requests, p \in Processes :
                          \/ \E stock \in Stocks, x \in Products : Lines!AddItem(r, p, x, stock)
                          \/ \E i \in Lines!Live, stock \in Stocks :
                                Lines!UpdateItemRead(r, p, i, stock)
                          \/ \E i \in Lines!Live : Lines!RemoveItemRead(r, p, i)
                          \/ \E stock \in Stocks : Lines!PrepareCheckout(r, p, stock)
                          \/ Lines!GetCart(r, p) \/ Lines!ClearCart(r, p)
                    \/ \E r \in Requests :
                          \/ Lines!FindCartLine(r) \/ Lines!CreateLine(r) \/ Lines!AddToLine(r)
                          \/ Lines!PlaceOrder(r) \/ Lines!InvalidateCart(r) \/ Lines!LookUp(r)
                          \/ Lines!Keep(r)
                          \/ Lines!UpdateItem(r) \/ Lines!RemoveItem(r)
                          \/ Lines!OrderFails(r) \/ Lines!Answer(r) \/ Lines!Fail(r)
                    \/ \E p \in Processes : Lines!Evict(p)
  BY DEF Lines!Next
<1> QED BY <1>1, <1>2, <1>3, <1>4, <1>5, <1>6, <1>7, <1>8, <1>9

(* A product has one line but for a creator who looked too early; what the    *)
(* customer put in is in the cart, taken out or ordered, unless requests      *)
(* raced; and the answer to a write shows it, unless a reader of the same     *)
(* process straddled it (addItem, updateItem, placeOrder, getCart).           *)
THEOREM CartIsSound == PartsSpec => []CartHolds
<1> DEFINE Inv == part = "cart" => CartSound
<1>1. PartsInit => Inv
  BY InitCart DEF PartsInit
<1>2. Inv /\ [PartsNext]_<<part, vars, ownVars>> => Inv'
  <2> SUFFICES ASSUME Inv, [PartsNext]_<<part, vars, ownVars>>, part' = "cart"
               PROVE  CartSound'
    OBVIOUS
  <2>1. part = "cart"
    BY DEF PartsNext
  <2>2. [Lines!Next]_cartVars
    BY <2>1 DEF PartsNext, ownVars
  <2> QED BY <2>1, <2>2, NextCart
<1>3. Inv => CartHolds
  BY CartImplies DEF CartHolds
<1> QED BY <1>1, <1>2, <1>3, PTL DEF PartsSpec

-----------------------------------------------------------------------------
(* Push campaigns.  What keeps a device from a second push is that a campaign  *)
(* is claimed by one worker at a time (overlapped says that it was not), that  *)
(* he sends what is PENDING, and that what he sent is PENDING no longer or is  *)
(* in his frame, from which it comes into excuses if he dies.                  *)

Labels == {"idle", "resolve", "inbox", "tokens", "deliveries", "pending", "send", "deactivate",
           "record", "finish", "failing"}
PushFrame == [pc : Labels, customers : SUBSET Audience, devices : SUBSET Devices,
              sent : SUBSET Devices, invalid : SUBSET Devices, batch : SUBSET Devices,
              attempt : Int]

AtWork(f) == f.pc \notin {"idle", "failing"}

PushTypeOK ==
    /\ worker \in [Servers -> PushFrame]
    /\ delivery \in [Devices -> {"none", "PENDING", "SENT", "FAILED", "OPENED"}]
    /\ pushes \in [Devices -> Nat]
    /\ excuses \in [Devices -> Nat]
    /\ admin \in [Requests -> {"idle", "send", "cancel"}]
    /\ active \subseteq Devices

\* What has been sent was not to be sent again, and is among the devices.
FrameFits(f) ==
    /\ f.pc \notin {"send", "deactivate", "record", "finish"} => f.sent = {}
    /\ f.pc = "send" => f.sent \cap f.batch = {} /\ f.batch \subseteq f.devices
    /\ f.pc = "deactivate" => f.batch = f.devices
    /\ f.pc \in {"send", "deactivate", "record"} => f.sent \subseteq f.devices

OneAtWork == \A p, q \in Servers : AtWork(worker[p]) /\ AtWork(worker[q]) => p = q

Pending == {d \in Devices : delivery[d] = "PENDING"}

\* A worker with frame f has all that is PENDING before him.
HasAll(f) ==
    /\ campaignStatus \notin {"SENT", "PARTIALLY_SENT"}
    /\ f.pc # "resolve" => totalRecipients = Cardinality(f.customers)
    /\ f.pc = "send" => \A d \in f.batch : pushes[d] <= excuses[d]
    /\ f.pc \in {"send", "deactivate"} => Pending \subseteq f.devices
    /\ f.pc = "record" => Pending \subseteq f.batch
    /\ f.pc = "finish" => f.customers = {} \/ Pending = {}

PushedOnce ==
    \A d \in Devices :
        /\ pushes[d] <= 1 + excuses[d]
        /\ /\ delivery[d] \in {"none", "PENDING"}
           /\ \A p \in Servers : d \notin Campaign!Unrecorded(worker[p])
           => pushes[d] <= excuses[d]

NobodyForgotten ==
    campaignStatus \in {"SENT", "PARTIALLY_SENT"} /\ totalRecipients > 0 => Pending = {}

QuietIsCancelled ==
    quiet => /\ campaignStatus = "CANCELLED"
             /\ \A p \in Servers : ~AtWork(worker[p])
             /\ \A a \in Requests : admin[a] # "send"

PushSound ==
    /\ PushTypeOK
    /\ \A p \in Servers : FrameFits(worker[p])
    /\ QuietIsCancelled
    /\ ~overlapped => /\ OneAtWork
                      /\ \A p \in Servers : AtWork(worker[p]) => HasAll(worker[p])
                      /\ PushedOnce
                      /\ NobodyForgotten

-----------------------------------------------------------------------------
LEMMA SamePushCardinality == \A S : Campaign!Cardinality(S) = Cardinality(S)
  BY DEF Campaign!Cardinality, Campaign!IsFiniteSet, Cardinality, IsFiniteSet

LEMMA PushImplies == PushSound => Campaign!EachDeviceOnce
  BY DEF PushSound, PushedOnce, NobodyForgotten, Pending, Campaign!EachDeviceOnce

LEMMA Counted1 ==
    ASSUME NEW f, f \in [Devices -> Nat], NEW S \in SUBSET Devices
    PROVE  /\ Campaign!Count(f, S) \in [Devices -> Nat]
           /\ \A d \in S : Campaign!Count(f, S)[d] = f[d] + 1
           /\ \A d \in Devices \ S : Campaign!Count(f, S)[d] = f[d]
  BY DEF Campaign!Count

LEMMA FrameOf ==
    ASSUME PushSound, NEW p \in Servers
    PROVE  worker[p] \in PushFrame /\ FrameFits(worker[p])
  BY DEF PushSound, PushTypeOK

LEMMA Moved ==
    ASSUME NEW f \in PushFrame, NEW pc \in Labels
    PROVE  \E g \in PushFrame :
              /\ g = [f EXCEPT !.pc = pc]
              /\ g.pc = pc /\ g.customers = f.customers /\ g.devices = f.devices
              /\ g.sent = f.sent /\ g.batch = f.batch
<1> DEFINE g == [f EXCEPT !.pc = pc]
<1>1. g \in PushFrame
  BY DEF PushFrame
<1>2. /\ g.pc = pc /\ g.customers = f.customers /\ g.devices = f.devices
      /\ g.sent = f.sent /\ g.batch = f.batch
  BY DEF PushFrame
<1> QED BY <1>1, <1>2

LEMMA RestsUnrecorded ==
    ASSUME NEW f, ~AtWork(f)
    PROVE  Campaign!Unrecorded(f) = {}
  BY DEF AtWork, Campaign!Unrecorded

(* A worker who goes on as f, alone at work unless workers overlap.            *)
LEMMA AtWorkStep ==
    ASSUME PushSound, NEW p \in Servers, AtWork(worker[p]),
           NEW f \in PushFrame, FrameFits(f), AtWork(f),
           worker' = [worker EXCEPT ![p] = f],
           UNCHANGED <<overlapped, quiet, campaignStatus, admin>>,
           delivery' \in [Devices -> {"none", "PENDING", "SENT", "FAILED", "OPENED"}],
           pushes' \in [Devices -> Nat], excuses' \in [Devices -> Nat], active' \subseteq Devices,
           ~overlapped =>
              /\ HasAll(f)'
              /\ \A d \in Devices :
                    /\ pushes'[d] <= 1 + excuses'[d]
                    /\ /\ delivery'[d] \in {"none", "PENDING"}
                       /\ d \notin Campaign!Unrecorded(f)
                       => pushes'[d] <= excuses'[d]
    PROVE  PushSound'
<1>1. /\ worker' \in [Servers -> PushFrame] /\ worker'[p] = f
      /\ \A q \in Servers \ {p} : worker'[q] = worker[q]
  BY DEF PushSound, PushTypeOK
<1>2. PushTypeOK'
  BY <1>1 DEF PushSound, PushTypeOK
<1>3. \A q \in Servers : FrameFits(worker'[q])
  BY <1>1 DEF PushSound
<1>4. QuietIsCancelled'
  BY DEF PushSound, QuietIsCancelled
<1>5. ASSUME ~overlapped
      PROVE  OneAtWork' /\ (\A q \in Servers : AtWork(worker[q]) => HasAll(worker[q]))'
             /\ PushedOnce' /\ NobodyForgotten'
  <2>1. \A q \in Servers \ {p} : ~AtWork(worker'[q])
    BY <1>1, <1>5 DEF PushSound, OneAtWork
  <2>2. OneAtWork'
    BY <2>1 DEF OneAtWork
  <2>3. (\A q \in Servers : AtWork(worker[q]) => HasAll(worker[q]))'
    <3> SUFFICES ASSUME NEW q \in Servers, AtWork(worker'[q])
                 PROVE  HasAll(worker[q])'
      OBVIOUS
    <3>1. q = p
      BY <2>1
    <3>2. HasAll(f)'
      BY <1>5
    <3> QED BY <1>1, <3>1, <3>2 DEF HasAll, Pending
  <2>4. PushedOnce'
    <3> SUFFICES ASSUME NEW d \in Devices
                 PROVE  /\ pushes'[d] <= 1 + excuses'[d]
                        /\ /\ delivery'[d] \in {"none", "PENDING"}
                           /\ \A q \in Servers : d \notin Campaign!Unrecorded(worker'[q])
                           => pushes'[d] <= excuses'[d]
      BY DEF PushedOnce, Campaign!Unrecorded
    <3>1. (\A q \in Servers : d \notin Campaign!Unrecorded(worker'[q])) =>
             d \notin Campaign!Unrecorded(f)
      BY <1>1
    <3> QED BY <1>5, <3>1
  <2>5. NobodyForgotten'
    BY <1>5 DEF PushSound, HasAll, NobodyForgotten
  <2> QED BY <2>2, <2>3, <2>4, <2>5
<1> QED BY <1>2, <1>3, <1>4, <1>5 DEF PushSound

(* A worker who comes to rest as f, or was at rest.                            *)
LEMMA RestStep ==
    ASSUME PushSound, NEW p \in Servers,
           NEW f \in PushFrame, FrameFits(f), ~AtWork(f),
           worker' = [worker EXCEPT ![p] = f],
           UNCHANGED <<overlapped, quiet, admin, pushes, active, totalRecipients>>,
           delivery' \in [Devices -> {"none", "PENDING", "SENT", "FAILED", "OPENED"}],
           excuses' \in [Devices -> Nat],
           quiet => campaignStatus' = campaignStatus,
           ~AtWork(worker[p]) => /\ UNCHANGED <<delivery, excuses>>
                                 /\ campaignStatus' \in {campaignStatus, "FAILED"},
           ~overlapped /\ AtWork(worker[p]) =>
              /\ \A d \in Devices :
                    /\ pushes[d] <= 1 + excuses'[d]
                    /\ delivery'[d] \in {"none", "PENDING"} => pushes[d] <= excuses'[d]
              /\ NobodyForgotten'
    PROVE  PushSound'
<1>1. /\ worker' \in [Servers -> PushFrame] /\ worker'[p] = f
      /\ \A q \in Servers \ {p} : worker'[q] = worker[q]
  BY DEF PushSound, PushTypeOK
<1>2. PushTypeOK'
  BY <1>1 DEF PushSound, PushTypeOK
<1>3. \A q \in Servers : FrameFits(worker'[q])
  BY <1>1 DEF PushSound
<1>4. QuietIsCancelled'
  BY <1>1 DEF PushSound, QuietIsCancelled
<1>5. ASSUME ~overlapped
      PROVE  OneAtWork' /\ (\A q \in Servers : AtWork(worker[q]) => HasAll(worker[q]))'
             /\ PushedOnce' /\ NobodyForgotten'
  <2>1. OneAtWork'
    BY <1>1, <1>5 DEF PushSound, OneAtWork
  <2>2. (\A q \in Servers : AtWork(worker[q]) => HasAll(worker[q]))'
    <3> SUFFICES ASSUME NEW q \in Servers, AtWork(worker'[q])
                 PROVE  HasAll(worker[q])'
      OBVIOUS
    <3>1. q # p /\ worker'[q] = worker[q] /\ AtWork(worker[q])
      BY <1>1
    <3>2. ~AtWork(worker[p])
      BY <1>5, <3>1 DEF PushSound, OneAtWork
    <3>3. HasAll(worker[q])
      BY <1>5, <3>1 DEF PushSound
    <3> QED BY <3>1, <3>2, <3>3 DEF HasAll, Pending
  <2>3. CASE AtWork(worker[p])
    <3>1. PushedOnce'
      BY <1>5, <2>3 DEF PushedOnce
    <3> QED BY <1>5, <2>1, <2>2, <2>3, <3>1
  <2>4. CASE ~AtWork(worker[p])
    <3>1. NobodyForgotten'
      BY <1>5, <2>4 DEF PushSound, NobodyForgotten, Pending
    <3>2. PushedOnce'
      <4> SUFFICES ASSUME NEW d \in Devices
                   PROVE  /\ pushes[d] <= 1 + excuses[d]
                          /\ /\ delivery[d] \in {"none", "PENDING"}
                             /\ \A q \in Servers : d \notin Campaign!Unrecorded(worker'[q])
                             => pushes[d] <= excuses[d]
        BY <2>4 DEF PushedOnce, Campaign!Unrecorded
      <4>1. Campaign!Unrecorded(worker[p]) = {}
        BY <2>4, RestsUnrecorded
      <4>2. (\A q \in Servers : d \notin Campaign!Unrecorded(worker'[q])) =>
               \A q \in Servers : d \notin Campaign!Unrecorded(worker[q])
        BY <1>1, <4>1
      <4> QED BY <1>5, <4>2 DEF PushSound, PushedOnce
    <3> QED BY <2>1, <2>2, <3>1, <3>2
  <2> QED BY <2>3, <2>4
<1> QED BY <1>2, <1>3, <1>4, <1>5 DEF PushSound

(* The workers stay where they are: somebody else writes.                      *)
LEMMA WorkersStayStep ==
    ASSUME PushSound,
           UNCHANGED <<worker, overlapped, pushes, excuses, totalRecipients>>,
           active' \subseteq Devices,
           admin' \in [Requests -> {"idle", "send", "cancel"}],
           delivery' \in [Devices -> {"none", "PENDING", "SENT", "FAILED", "OPENED"}],
           \A d \in Devices : delivery'[d] = delivery[d] \/ delivery'[d] = "OPENED",
           \/ campaignStatus' = campaignStatus
           \/ campaignStatus' \notin {"SENT", "PARTIALLY_SENT"},
           QuietIsCancelled'
    PROVE  PushSound'
<1>1. PushTypeOK' /\ (\A p \in Servers : FrameFits(worker[p]))'
  BY DEF PushSound, PushTypeOK
<1>2. Pending' \subseteq Pending
  BY DEF Pending
<1>3. ASSUME ~overlapped
      PROVE  OneAtWork' /\ (\A q \in Servers : AtWork(worker[q]) => HasAll(worker[q]))'
             /\ PushedOnce' /\ NobodyForgotten'
  <2>1. OneAtWork'
    BY <1>3 DEF PushSound, OneAtWork
  <2>2. (\A q \in Servers : AtWork(worker[q]) => HasAll(worker[q]))'
    <3> SUFFICES ASSUME NEW q \in Servers, AtWork(worker[q])
                 PROVE  HasAll(worker[q])'
      OBVIOUS
    <3>1. HasAll(worker[q])
      BY <1>3 DEF PushSound
    <3> QED BY <1>2, <3>1 DEF HasAll
  <2>3. PushedOnce'
    BY <1>3 DEF PushSound, PushedOnce, Campaign!Unrecorded
  <2>4. NobodyForgotten'
    BY <1>2, <1>3 DEF PushSound, NobodyForgotten
  <2> QED BY <2>1, <2>2, <2>3, <2>4
<1> QED BY <1>1, <1>3 DEF PushSound

-----------------------------------------------------------------------------
(* Administrators, the scheduler and the customers.                            *)
LEMMA CreateStep ==
    ASSUME PushSound, NEW p \in Servers, NEW s \in {"DRAFT", "SCHEDULED", "QUEUED"},
           Campaign!Create(p, s)
    PROVE  PushSound'
<1>1. QuietIsCancelled'
  BY DEF PushSound, QuietIsCancelled, Campaign!Create, Campaign!history
<1> QED BY <1>1, WorkersStayStep
        DEF PushSound, PushTypeOK, Campaign!Create, Campaign!tables, Campaign!history

LEMMA AdminReadsStep ==
    ASSUME PushSound, NEW a \in Requests, Campaign!SendDraftRead(a) \/ Campaign!CancelRead(a)
    PROVE  PushSound'
<1>1. PICK from \in {{"DRAFT"}, {"DRAFT", "SCHEDULED", "QUEUED"}}, op \in {"send", "cancel"} :
          Campaign!AdminReads(a, from, op)
  BY DEF Campaign!SendDraftRead, Campaign!CancelRead
<1>2. campaignStatus # "CANCELLED" /\ admin' = [admin EXCEPT ![a] = op]
  BY <1>1 DEF Campaign!AdminReads
<1>3. QuietIsCancelled'
  BY <1>1, <1>2 DEF PushSound, QuietIsCancelled, Campaign!AdminReads, Campaign!history
<1>4. admin' \in [Requests -> {"idle", "send", "cancel"}]
  BY <1>2 DEF PushSound, PushTypeOK
<1> QED BY <1>1, <1>3, <1>4, WorkersStayStep
        DEF PushSound, PushTypeOK, Campaign!AdminReads, Campaign!campaignVars, Campaign!tables,
            Campaign!history

LEMMA SendDraftStep ==
    ASSUME PushSound, NEW a \in Requests, NEW p \in Servers, Campaign!SendDraft(a, p)
    PROVE  PushSound'
<1>1. admin[a] = "send" /\ admin' = [admin EXCEPT ![a] = "idle"]
  BY DEF Campaign!SendDraft
<1>2. QuietIsCancelled'
  BY <1>1 DEF PushSound, QuietIsCancelled, Campaign!SendDraft, Campaign!history
<1>3. admin' \in [Requests -> {"idle", "send", "cancel"}]
  BY <1>1 DEF PushSound, PushTypeOK
<1> QED BY <1>2, <1>3, WorkersStayStep
        DEF PushSound, PushTypeOK, Campaign!SendDraft, Campaign!tables, Campaign!history

\* Whoever is at work, or has read a draft, keeps the campaign from being quiet.
LEMMA CancelStep ==
    ASSUME PushSound, NEW a \in Requests, Campaign!Cancel(a)
    PROVE  PushSound'
<1>1. /\ admin' = [admin EXCEPT ![a] = "idle"] /\ campaignStatus' = "CANCELLED"
      /\ worker' = worker
      /\ quiet' => Campaign!Working = {} /\ \A b \in Requests : admin[b] # "send"
  BY DEF Campaign!Cancel
<1>2. admin' \in [Requests -> {"idle", "send", "cancel"}]
  BY <1>1 DEF PushSound, PushTypeOK
<1>3. QuietIsCancelled'
  <2> SUFFICES ASSUME quiet'
               PROVE  /\ \A p \in Servers : ~AtWork(worker'[p])
                      /\ \A b \in Requests : admin'[b] # "send"
    BY <1>1 DEF QuietIsCancelled
  <2>1. \A p \in Servers : worker[p].pc = "idle"
    BY <1>1 DEF Campaign!Working, Campaign!At
  <2>2. \A b \in Requests : admin'[b] # "send"
    BY <1>1 DEF PushSound, PushTypeOK
  <2> QED BY <1>1, <2>1, <2>2 DEF AtWork
<1> QED BY <1>1, <1>2, <1>3, WorkersStayStep
        DEF PushSound, PushTypeOK, Campaign!Cancel, Campaign!tables

LEMMA ClockStep ==
    ASSUME PushSound, \/ Campaign!FallDue
                      \/ \E p \in Servers : Campaign!ProcessDueScheduled(p)
    PROVE  PushSound'
<1>1. UNCHANGED <<worker, overlapped, pushes, excuses, quiet, totalRecipients, campaignStatus,
                  active, admin, delivery>>
  BY DEF Campaign!FallDue, Campaign!ProcessDueScheduled, Campaign!campaignVars, Campaign!tables,
         Campaign!history
<1>2. QuietIsCancelled'
  BY <1>1 DEF PushSound, QuietIsCancelled
<1> QED BY <1>1, <1>2, WorkersStayStep DEF PushSound, PushTypeOK

LEMMA DeviceStep ==
    ASSUME PushSound, NEW d \in Devices, Campaign!Register(d) \/ Campaign!Release(d)
    PROVE  PushSound'
<1>1. UNCHANGED <<worker, overlapped, pushes, excuses, quiet, totalRecipients, campaignStatus,
                  admin, delivery>>
  BY DEF Campaign!Register, Campaign!Release, Campaign!campaignVars, Campaign!history
<1>2. active' \subseteq Devices
  BY DEF Campaign!Register, Campaign!Release, PushSound, PushTypeOK
<1>3. QuietIsCancelled'
  BY <1>1 DEF PushSound, QuietIsCancelled
<1> QED BY <1>1, <1>2, <1>3, WorkersStayStep DEF PushSound, PushTypeOK

LEMMA MarkAsReadStep ==
    ASSUME PushSound, NEW c \in Audience, Campaign!MarkAsRead(c)
    PROVE  PushSound'
<1>1. UNCHANGED <<worker, overlapped, pushes, excuses, quiet, totalRecipients, campaignStatus,
                  admin, active>>
  BY DEF Campaign!MarkAsRead, Campaign!campaignVars, Campaign!history
<1>2. /\ delivery' \in [Devices -> {"none", "PENDING", "SENT", "FAILED", "OPENED"}]
      /\ \A d \in Devices : delivery'[d] = delivery[d] \/ delivery'[d] = "OPENED"
  BY DEF Campaign!MarkAsRead, PushSound, PushTypeOK
<1>3. QuietIsCancelled'
  BY <1>1 DEF PushSound, QuietIsCancelled
<1> QED BY <1>1, <1>2, <1>3, WorkersStayStep DEF PushSound, PushTypeOK

-----------------------------------------------------------------------------
(* The worker.                                                                 *)

(* Only the status makes a worker claim, so that a cancelled campaign rests.   *)
LEMMA ClaimStep ==
    ASSUME PushSound, NEW p \in Servers, Campaign!Claim(p)
    PROVE  PushSound'
<1>1. worker[p].pc = "idle" /\ FrameFits(worker[p]) /\ worker[p] \in PushFrame
  BY FrameOf DEF Campaign!Claim, Campaign!At
<1>2. UNCHANGED <<pushes, excuses, quiet, totalRecipients, active, admin, delivery>>
  BY DEF Campaign!Claim, Campaign!tables
<1>3. CASE ~Campaign!Claimable
  <2>1. UNCHANGED <<worker, overlapped, campaignStatus>>
    BY <1>3 DEF Campaign!Claim
  <2>2. QuietIsCancelled'
    BY <1>2, <2>1 DEF PushSound, QuietIsCancelled
  <2> QED BY <1>2, <2>1, <2>2, WorkersStayStep DEF PushSound, PushTypeOK
<1>4. CASE Campaign!Claimable
  <2>1. PICK f \in PushFrame : /\ f = [worker[p] EXCEPT !.pc = "resolve"]
                               /\ FrameFits(f) /\ f.pc = "resolve"
    <3>1. "resolve" \in Labels
      BY DEF Labels
    <3>2. worker[p] \in PushFrame /\ worker[p].sent = {}
      BY <1>1 DEF FrameFits
    <3> QED BY <3>1, <3>2, Moved DEF FrameFits
  <2>2. /\ worker' = [worker EXCEPT ![p] = f] /\ campaignStatus' = "SENDING"
        /\ overlapped' <=> overlapped \/ Campaign!Working # {}
    BY <1>4, <2>1 DEF Campaign!Claim, Campaign!To, Campaign!Goto
  <2>3. ~quiet
    BY <1>4 DEF PushSound, QuietIsCancelled, Campaign!Claimable
  <2>4. /\ worker' \in [Servers -> PushFrame] /\ worker'[p] = f
        /\ \A q \in Servers \ {p} : worker'[q] = worker[q]
    BY <2>1, <2>2 DEF PushSound, PushTypeOK
  <2>5. PushTypeOK' /\ QuietIsCancelled' /\ (\A q \in Servers : FrameFits(worker[q]))'
    BY <1>2, <2>1, <2>3, <2>4 DEF PushSound, PushTypeOK, QuietIsCancelled
  <2>6. ASSUME ~overlapped'
        PROVE  OneAtWork' /\ (\A q \in Servers : AtWork(worker[q]) => HasAll(worker[q]))'
               /\ PushedOnce' /\ NobodyForgotten'
    <3>1. ~overlapped /\ \A q \in Servers : worker[q].pc = "idle"
      BY <2>2, <2>6 DEF Campaign!Working, Campaign!At
    <3>2. \A q \in Servers \ {p} : ~AtWork(worker'[q])
      BY <2>4, <3>1 DEF AtWork
    <3>3. OneAtWork'
      BY <3>2 DEF OneAtWork
    <3>4. HasAll(f)'
      BY <2>1, <2>2 DEF HasAll
    <3>5. (\A q \in Servers : AtWork(worker[q]) => HasAll(worker[q]))'
      <4> SUFFICES ASSUME NEW q \in Servers, AtWork(worker'[q])
                   PROVE  HasAll(worker[q])'
        OBVIOUS
      <4>1. q = p
        BY <3>2
      <4> QED BY <2>4, <3>4, <4>1 DEF HasAll, Pending
    <3>6. \A q \in Servers : /\ Campaign!Unrecorded(worker[q]) = {}
                             /\ Campaign!Unrecorded(worker'[q]) = {}
      BY <2>1, <2>4, <3>1 DEF Campaign!Unrecorded
    <3>7. PushedOnce'
      <4>1. \A d \in Devices : /\ pushes[d] <= 1 + excuses[d]
                               /\ delivery[d] \in {"none", "PENDING"} => pushes[d] <= excuses[d]
        BY <3>1, <3>6 DEF PushSound, PushedOnce
      <4> QED BY <1>2, <4>1 DEF PushedOnce
    <3>8. NobodyForgotten'
      BY <2>2 DEF NobodyForgotten
    <3> QED BY <3>3, <3>5, <3>7, <3>8
  <2> QED BY <2>5, <2>6 DEF PushSound
<1> QED BY <1>3, <1>4

\* A worker who changes nothing but his frame and the inboxes.
LEMMA ReadingStep ==
    ASSUME PushSound, NEW p \in Servers, AtWork(worker[p]), worker[p].sent = {},
           NEW f \in PushFrame, AtWork(f), f.sent = {},
           f.pc = "send" => f.batch \subseteq f.devices /\ f.batch \subseteq Pending
                            /\ Pending \subseteq f.devices,
           f.pc \in {"deactivate", "record"} => FALSE,
           f.pc = "finish" => f.customers = {} \/ Pending = {},
           ~overlapped /\ f.pc # "resolve" => totalRecipients' = Cardinality(f.customers),
           worker' = [worker EXCEPT ![p] = f],
           UNCHANGED <<overlapped, quiet, campaignStatus, admin, pushes, excuses, active, delivery>>
    PROVE  PushSound'
<1>1. FrameFits(f)
  BY DEF FrameFits
<1>2. /\ delivery \in [Devices -> {"none", "PENDING", "SENT", "FAILED", "OPENED"}]
      /\ pushes \in [Devices -> Nat] /\ excuses \in [Devices -> Nat] /\ active \subseteq Devices
  BY DEF PushSound, PushTypeOK
<1>3. ASSUME ~overlapped
      PROVE  /\ HasAll(f)'
             /\ \A d \in Devices : /\ pushes[d] <= 1 + excuses[d]
                                   /\ delivery[d] \in {"none", "PENDING"} => pushes[d] <= excuses[d]
  <2>1. \A d \in Devices : /\ pushes[d] <= 1 + excuses[d]
                           /\ delivery[d] \in {"none", "PENDING"} => pushes[d] <= excuses[d]
    <3>1. Campaign!Unrecorded(worker[p]) = {}
      BY DEF Campaign!Unrecorded
    <3>2. \A q \in Servers \ {p} : Campaign!Unrecorded(worker[q]) = {}
      BY <1>3, RestsUnrecorded DEF PushSound, OneAtWork
    <3> QED BY <1>3, <3>1, <3>2 DEF PushSound, PushedOnce
  <2>2. campaignStatus \notin {"SENT", "PARTIALLY_SENT"}
    BY <1>3 DEF PushSound, HasAll
  <2>3. f.pc = "send" => \A d \in f.batch : pushes[d] <= excuses[d]
    BY <2>1 DEF Pending
  <2>4. Pending' = Pending
    BY DEF Pending
  <2>5. HasAll(f)'
    BY <1>3, <2>2, <2>3, <2>4 DEF HasAll
  <2> QED BY <2>1, <2>5
<1> QED BY <1>1, <1>2, <1>3, AtWorkStep

LEMMA ResolveRecipientsStep ==
    ASSUME PushSound, NEW p \in Servers, NEW customers \in SUBSET Audience,
           Campaign!ResolveRecipients(p, customers)
    PROVE  PushSound'
<1>1. worker[p].pc = "resolve" /\ FrameFits(worker[p]) /\ worker[p] \in PushFrame
  BY FrameOf DEF Campaign!ResolveRecipients, Campaign!At
<1>2. PICK f \in PushFrame : /\ f = [worker[p] EXCEPT !.customers = customers, !.pc = "inbox"]
                             /\ f.pc = "inbox" /\ f.customers = customers
                             /\ f.sent = worker[p].sent
  <2> DEFINE g == [worker[p] EXCEPT !.customers = customers, !.pc = "inbox"]
  <2>1. g \in PushFrame
    BY <1>1 DEF PushFrame, Labels
  <2>2. g.pc = "inbox" /\ g.customers = customers /\ g.sent = worker[p].sent
    BY <1>1 DEF PushFrame
  <2> QED BY <2>1, <2>2
<1>3. worker' = [worker EXCEPT ![p] = f] /\ totalRecipients' = Cardinality(customers)
  BY <1>2, SamePushCardinality DEF Campaign!ResolveRecipients, Campaign!Goto
<1>4. UNCHANGED <<overlapped, quiet, campaignStatus, admin, pushes, excuses, active, delivery>>
  BY DEF Campaign!ResolveRecipients, Campaign!tables, Campaign!history
<1>5. AtWork(worker[p]) /\ worker[p].sent = {}
  BY <1>1 DEF AtWork, FrameFits
<1>6. AtWork(f)
  BY <1>2 DEF AtWork
<1> QED BY <1>2, <1>3, <1>4, <1>5, <1>6, ReadingStep

LEMMA TotalKnown ==
    ASSUME PushSound, NEW p \in Servers, AtWork(worker[p]), worker[p].pc # "resolve", ~overlapped
    PROVE  totalRecipients = Cardinality(worker[p].customers)
  BY DEF PushSound, HasAll

LEMMA CreateInboxRowsStep ==
    ASSUME PushSound, NEW p \in Servers, Campaign!CreateInboxRows(p)
    PROVE  PushSound'
<1>1. worker[p].pc = "inbox" /\ FrameFits(worker[p]) /\ worker[p] \in PushFrame
  BY FrameOf DEF Campaign!CreateInboxRows, Campaign!At
<1>2. PICK pc \in {"finish", "tokens"} :
          /\ pc = IF worker[p].customers = {} THEN "finish" ELSE "tokens"
          /\ pc \in Labels
  BY DEF Labels
<1>3. PICK f \in PushFrame : /\ f = [worker[p] EXCEPT !.pc = pc]
                             /\ f.pc = pc /\ f.customers = worker[p].customers
                             /\ f.sent = worker[p].sent
  BY <1>1, <1>2, Moved
<1>4. worker' = [worker EXCEPT ![p] = f]
  BY <1>2, <1>3 DEF Campaign!CreateInboxRows, Campaign!To, Campaign!Goto
<1>5. UNCHANGED <<overlapped, quiet, campaignStatus, admin, pushes, excuses, active, delivery,
                  totalRecipients>>
  BY DEF Campaign!CreateInboxRows, Campaign!campaignVars, Campaign!history
<1>6. AtWork(worker[p]) /\ worker[p].sent = {}
  BY <1>1 DEF AtWork, FrameFits
<1>7. AtWork(f)
  BY <1>3 DEF AtWork
<1>8. ~overlapped => totalRecipients' = Cardinality(f.customers)
  BY <1>1, <1>3, <1>5, <1>6, TotalKnown
<1> QED BY <1>2, <1>3, <1>4, <1>5, <1>6, <1>7, <1>8, ReadingStep

LEMMA FindTokensStep ==
    ASSUME PushSound, NEW p \in Servers, Campaign!FindTokens(p)
    PROVE  PushSound'
<1>1. worker[p].pc = "tokens" /\ FrameFits(worker[p]) /\ worker[p] \in PushFrame
  BY FrameOf DEF Campaign!FindTokens, Campaign!At
<1>2. PICK devices \in SUBSET Devices :
          devices = {d \in active : OwnerOf[d] \in worker[p].customers}
  BY DEF PushSound, PushTypeOK
<1>3. PICK f \in PushFrame : /\ f = [worker[p] EXCEPT !.devices = devices, !.pc = "deliveries"]
                             /\ f.pc = "deliveries" /\ f.customers = worker[p].customers
                             /\ f.sent = worker[p].sent
  <2> DEFINE g == [worker[p] EXCEPT !.devices = devices, !.pc = "deliveries"]
  <2>1. g \in PushFrame
    BY <1>1 DEF PushFrame, Labels
  <2>2. g.pc = "deliveries" /\ g.customers = worker[p].customers /\ g.sent = worker[p].sent
    BY <1>1 DEF PushFrame
  <2> QED BY <2>1, <2>2
<1>4. worker' = [worker EXCEPT ![p] = f]
  BY <1>2, <1>3 DEF Campaign!FindTokens, Campaign!Goto
<1>5. UNCHANGED <<overlapped, quiet, campaignStatus, admin, pushes, excuses, active, delivery,
                  totalRecipients>>
  BY DEF Campaign!FindTokens, Campaign!campaignVars, Campaign!tables, Campaign!history
<1>6. AtWork(worker[p]) /\ worker[p].sent = {}
  BY <1>1 DEF AtWork, FrameFits
<1>7. AtWork(f)
  BY <1>3 DEF AtWork
<1>8. ~overlapped => totalRecipients' = Cardinality(f.customers)
  BY <1>1, <1>3, <1>5, <1>6, TotalKnown
<1> QED BY <1>3, <1>4, <1>5, <1>6, <1>7, <1>8, ReadingStep

\* All that is PENDING is taken along, also what an earlier worker has left.
LEMMA FindPendingStep ==
    ASSUME PushSound, NEW p \in Servers, Campaign!FindPending(p)
    PROVE  PushSound'
<1>1. worker[p].pc = "pending" /\ FrameFits(worker[p]) /\ worker[p] \in PushFrame
  BY FrameOf DEF Campaign!FindPending, Campaign!At
<1>2. PICK pending \in SUBSET Devices : pending = Pending
  BY DEF Pending
<1>3. PICK pc \in {"finish", "send"} :
          /\ pc = IF pending = {} THEN "finish" ELSE "send"
          /\ pc \in Labels
  BY DEF Labels
<1>4. PICK f \in PushFrame :
          /\ f = [worker[p] EXCEPT !.devices = pending, !.batch = pending, !.pc = pc]
          /\ f.pc = pc /\ f.customers = worker[p].customers
          /\ f.sent = worker[p].sent /\ f.batch = pending /\ f.devices = pending
  <2> DEFINE g == [worker[p] EXCEPT !.devices = pending, !.batch = pending, !.pc = pc]
  <2>1. g \in PushFrame
    BY <1>1, <1>3 DEF PushFrame
  <2>2. /\ g.pc = pc /\ g.customers = worker[p].customers /\ g.sent = worker[p].sent
        /\ g.batch = pending /\ g.devices = pending
    BY <1>1 DEF PushFrame
  <2> QED BY <2>1, <2>2
<1>5. worker' = [worker EXCEPT ![p] = f]
  BY <1>2, <1>3, <1>4 DEF Campaign!FindPending, Campaign!Goto, Pending
<1>6. UNCHANGED <<overlapped, quiet, campaignStatus, admin, pushes, excuses, active, delivery,
                  totalRecipients>>
  BY DEF Campaign!FindPending, Campaign!campaignVars, Campaign!tables, Campaign!history
<1>7. AtWork(worker[p]) /\ worker[p].sent = {}
  BY <1>1 DEF AtWork, FrameFits
<1>8. AtWork(f)
  BY <1>4 DEF AtWork
<1>9. ~overlapped => totalRecipients' = Cardinality(f.customers)
  BY <1>1, <1>4, <1>6, <1>7, TotalKnown
<1> QED BY <1>2, <1>3, <1>4, <1>5, <1>6, <1>7, <1>8, <1>9, ReadingStep

LEMMA CreateDeliveriesStep ==
    ASSUME PushSound, NEW p \in Servers, Campaign!CreateDeliveries(p)
    PROVE  PushSound'
<1>1. worker[p].pc = "deliveries" /\ FrameFits(worker[p]) /\ worker[p] \in PushFrame
  BY FrameOf DEF Campaign!CreateDeliveries, Campaign!At
<1>2. PICK f \in PushFrame : /\ f = [worker[p] EXCEPT !.pc = "pending"]
                             /\ f.pc = "pending" /\ f.customers = worker[p].customers
                             /\ f.sent = worker[p].sent
  <2>1. "pending" \in Labels
    BY DEF Labels
  <2> QED BY <1>1, <2>1, Moved
<1>3. worker' = [worker EXCEPT ![p] = f]
  BY <1>2 DEF Campaign!CreateDeliveries, Campaign!To, Campaign!Goto
<1>4. UNCHANGED <<overlapped, quiet, campaignStatus, admin, pushes, excuses, active,
                  totalRecipients>>
  BY DEF Campaign!CreateDeliveries, Campaign!campaignVars, Campaign!history
<1>5. AtWork(worker[p]) /\ worker[p].sent = {} /\ AtWork(f) /\ FrameFits(f)
  BY <1>1, <1>2 DEF AtWork, FrameFits
<1>6. /\ delivery' \in [Devices -> {"none", "PENDING", "SENT", "FAILED", "OPENED"}]
      /\ \A d \in Devices : delivery'[d] \in {"none", "PENDING"} => delivery[d] \in {"none", "PENDING"}
  BY DEF Campaign!CreateDeliveries, Campaign!NewDelivery, PushSound, PushTypeOK
<1>7. /\ pushes \in [Devices -> Nat] /\ excuses \in [Devices -> Nat] /\ active \subseteq Devices
  BY DEF PushSound, PushTypeOK
<1>8. ASSUME ~overlapped
      PROVE  /\ HasAll(f)'
             /\ \A d \in Devices :
                   /\ pushes[d] <= 1 + excuses[d]
                   /\ delivery'[d] \in {"none", "PENDING"} => pushes[d] <= excuses[d]
  <2>1. \A q \in Servers : Campaign!Unrecorded(worker[q]) = {}
    <3>1. Campaign!Unrecorded(worker[p]) = {}
      BY <1>5 DEF Campaign!Unrecorded
    <3>2. \A q \in Servers \ {p} : Campaign!Unrecorded(worker[q]) = {}
      BY <1>5, <1>8, RestsUnrecorded DEF PushSound, OneAtWork
    <3> QED BY <3>1, <3>2
  <2>2. \A d \in Devices : /\ pushes[d] <= 1 + excuses[d]
                           /\ delivery[d] \in {"none", "PENDING"} => pushes[d] <= excuses[d]
    BY <1>8, <2>1 DEF PushSound, PushedOnce
  <2>3. /\ campaignStatus \notin {"SENT", "PARTIALLY_SENT"}
        /\ totalRecipients = Cardinality(f.customers)
    BY <1>1, <1>2, <1>5, <1>8 DEF PushSound, HasAll
  <2>4. HasAll(f)'
    BY <1>2, <1>4, <2>3 DEF HasAll
  <2> QED BY <1>6, <2>2, <2>4
<1> QED BY <1>2, <1>3, <1>4, <1>5, <1>6, <1>7, <1>8, AtWorkStep

(* FCM has answered a worker, or failed him: he goes on with what is to be     *)
(* tried again, or with what he knows to be sent.                              *)
LEMMA AttemptedStep ==
    ASSUME PushSound, NEW p \in Servers, worker[p].pc = "send",
           NEW reached \in SUBSET worker[p].batch, NEW h \in PushFrame,
           h.pc = "send" /\ h.devices = worker[p].devices /\ h.customers = worker[p].customers,
           NEW lost \in SUBSET reached, h.sent = worker[p].sent \cup (reached \ lost),
           NEW again \in SUBSET worker[p].batch, again \cap (reached \ lost) = {},
           Campaign!Attempted(p, h, again),
           pushes' = Campaign!Count(pushes, reached),
           excuses' = Campaign!Count(excuses, lost),
           UNCHANGED <<overlapped, quiet, campaignStatus, admin, active, delivery, totalRecipients>>
    PROVE  PushSound'
<1>1. /\ worker[p] \in PushFrame /\ AtWork(worker[p])
      /\ worker[p].sent \cap worker[p].batch = {} /\ worker[p].batch \subseteq worker[p].devices
      /\ worker[p].sent \subseteq worker[p].devices
  BY FrameOf DEF AtWork, FrameFits
<1>2. PICK f \in PushFrame :
          /\ worker' = [worker EXCEPT ![p] = f]
          /\ f.customers = h.customers /\ f.devices = h.devices /\ f.sent = h.sent
          /\ \/ f.pc = "deactivate" /\ f.batch = h.devices
             \/ f.pc = "send" /\ f.batch = again
  <2>1. CASE Campaign!Goto(p, [h EXCEPT !.pc = "deactivate", !.batch = h.devices])
    <3> DEFINE g == [h EXCEPT !.pc = "deactivate", !.batch = h.devices]
    <3>1. g \in PushFrame
      BY DEF PushFrame, Labels
    <3>2. /\ g.customers = h.customers /\ g.devices = h.devices /\ g.sent = h.sent
          /\ g.pc = "deactivate" /\ g.batch = h.devices
      BY DEF PushFrame
    <3>3. worker' = [worker EXCEPT ![p] = g]
      BY <2>1 DEF Campaign!Goto
    <3> QED BY <3>1, <3>2, <3>3
  <2>2. CASE Campaign!Goto(p, [h EXCEPT !.attempt = @ + 1, !.batch = again])
    <3> DEFINE g == [h EXCEPT !.attempt = @ + 1, !.batch = again]
    <3>1. g \in PushFrame
      <4>1. PICK n \in Int : n = h.attempt + 1
        BY DEF PushFrame
      <4>2. again \in SUBSET Devices
        BY <1>1 DEF PushFrame
      <4>3. [h EXCEPT !.attempt = n, !.batch = again] \in PushFrame
        BY <4>2 DEF PushFrame
      <4>4. g = [h EXCEPT !.attempt = n, !.batch = again]
        BY <4>1
      <4> QED BY <4>3, <4>4
    <3>2. /\ g.customers = h.customers /\ g.devices = h.devices /\ g.sent = h.sent
          /\ g.pc = "send" /\ g.batch = again
      BY DEF PushFrame
    <3>3. worker' = [worker EXCEPT ![p] = g]
      BY <2>2 DEF Campaign!Goto
    <3> QED BY <3>1, <3>2, <3>3
  <2> QED BY <2>1, <2>2 DEF Campaign!Attempted
<1>3. AtWork(f) /\ FrameFits(f)
  BY <1>1, <1>2 DEF AtWork, FrameFits
<1>4. /\ delivery' \in [Devices -> {"none", "PENDING", "SENT", "FAILED", "OPENED"}]
      /\ pushes \in [Devices -> Nat] /\ excuses \in [Devices -> Nat] /\ active' \subseteq Devices
      /\ reached \in SUBSET Devices /\ lost \in SUBSET Devices
  BY <1>1 DEF PushSound, PushTypeOK, PushFrame
<1>5. /\ pushes' \in [Devices -> Nat] /\ excuses' \in [Devices -> Nat]
      /\ \A d \in reached : pushes'[d] = pushes[d] + 1
      /\ \A d \in Devices \ reached : pushes'[d] = pushes[d]
      /\ \A d \in lost : excuses'[d] = excuses[d] + 1
      /\ \A d \in Devices \ lost : excuses'[d] = excuses[d]
  BY <1>4, Counted1
<1>6. ASSUME ~overlapped
      PROVE  /\ HasAll(f)'
             /\ \A d \in Devices :
                   /\ pushes'[d] <= 1 + excuses'[d]
                   /\ /\ delivery'[d] \in {"none", "PENDING"}
                      /\ d \notin Campaign!Unrecorded(f)
                      => pushes'[d] <= excuses'[d]
  <2>1. HasAll(worker[p])
    BY <1>1, <1>6 DEF PushSound
  <2>2. \A d \in worker[p].batch : pushes[d] <= excuses[d]
    BY <2>1 DEF HasAll
  <2>3. \A d \in Devices : /\ pushes[d] <= 1 + excuses[d]
                           /\ /\ delivery[d] \in {"none", "PENDING"}
                              /\ d \notin worker[p].sent
                              => pushes[d] <= excuses[d]
    <3>1. \A q \in Servers \ {p} : Campaign!Unrecorded(worker[q]) = {}
      BY <1>1, <1>6, RestsUnrecorded DEF PushSound, OneAtWork
    <3>2. Campaign!Unrecorded(worker[p]) = worker[p].sent
      BY DEF Campaign!Unrecorded
    <3> QED BY <1>6, <3>1, <3>2 DEF PushSound, PushedOnce
  <2>4. Campaign!Unrecorded(f) = h.sent
    BY <1>2 DEF Campaign!Unrecorded
  <2>5. ASSUME NEW d \in Devices
        PROVE  /\ pushes'[d] <= 1 + excuses'[d]
               /\ delivery[d] \in {"none", "PENDING"} /\ d \notin h.sent => pushes'[d] <= excuses'[d]
               /\ d \in again => pushes'[d] <= excuses'[d]
    <3>1. pushes[d] \in Nat /\ excuses[d] \in Nat
      BY <1>4
    <3>2. CASE d \in reached
      BY <1>5, <2>2, <3>1, <3>2
    <3>3. CASE d \notin reached
      BY <1>5, <2>2, <2>3, <3>1, <3>3
    <3> QED BY <3>2, <3>3
  <2>6. HasAll(f)'
    <3>1. /\ campaignStatus \notin {"SENT", "PARTIALLY_SENT"}
          /\ totalRecipients = Cardinality(f.customers)
          /\ Pending \subseteq f.devices
      BY <1>2, <2>1 DEF HasAll
    <3>2. f.pc = "send" => \A d \in f.batch : pushes'[d] <= excuses'[d]
      BY <1>1, <1>2, <2>5 DEF PushFrame
    <3>3. f.pc \in {"send", "deactivate"} /\ Pending' = Pending
      BY <1>2 DEF Pending
    <3> QED BY <3>1, <3>2, <3>3 DEF HasAll
  <2> QED BY <2>4, <2>5, <2>6
<1> QED BY <1>1, <1>2, <1>3, <1>4, <1>5, <1>6, AtWorkStep

LEMMA SendChunkStep ==
    ASSUME PushSound, NEW p \in Servers, NEW reached \in SUBSET worker[p].batch,
           NEW invalid \in SUBSET (worker[p].batch \ reached),
           NEW transient \in SUBSET (worker[p].batch \ (reached \cup invalid)),
           Campaign!SendChunk(p, reached, invalid, transient)
    PROVE  PushSound'
<1>1. worker[p].pc = "send" /\ worker[p] \in PushFrame
  BY FrameOf DEF Campaign!SendChunk, Campaign!At
<1>2. PICK h \in PushFrame :
          /\ h = [worker[p] EXCEPT !.sent = @ \cup reached, !.invalid = @ \cup invalid]
          /\ h.pc = "send" /\ h.devices = worker[p].devices /\ h.customers = worker[p].customers
          /\ h.sent = worker[p].sent \cup reached
  <2> DEFINE g == [worker[p] EXCEPT !.sent = @ \cup reached, !.invalid = @ \cup invalid]
  <2>1. PICK sent \in SUBSET Devices, bad \in SUBSET Devices :
            sent = worker[p].sent \cup reached /\ bad = worker[p].invalid \cup invalid
    BY <1>1 DEF PushFrame
  <2>2. [worker[p] EXCEPT !.sent = sent, !.invalid = bad] \in PushFrame
    BY <1>1 DEF PushFrame
  <2>3. g = [worker[p] EXCEPT !.sent = sent, !.invalid = bad]
    BY <2>1
  <2>4. /\ g.pc = "send" /\ g.devices = worker[p].devices /\ g.customers = worker[p].customers
        /\ g.sent = worker[p].sent \cup reached
    BY <1>1 DEF PushFrame
  <2> QED BY <2>2, <2>3, <2>4
<1>3. Campaign!Attempted(p, h, transient) /\ pushes' = Campaign!Count(pushes, reached)
  BY <1>2 DEF Campaign!SendChunk
<1>4. excuses' = Campaign!Count(excuses, {})
  BY DEF Campaign!SendChunk, Campaign!Count, PushSound, PushTypeOK
<1>5. UNCHANGED <<overlapped, quiet, campaignStatus, admin, active, delivery, totalRecipients>>
  BY DEF Campaign!SendChunk, Campaign!campaignVars, Campaign!tables
<1>6. /\ {} \in SUBSET reached /\ h.sent = worker[p].sent \cup (reached \ {})
      /\ transient \in SUBSET worker[p].batch /\ transient \cap (reached \ {}) = {}
  BY <1>2
<1> QED BY <1>1, <1>2, <1>3, <1>4, <1>5, <1>6, AttemptedStep

LEMMA SendFailsStep ==
    ASSUME PushSound, NEW p \in Servers, NEW reached \in SUBSET worker[p].batch,
           Campaign!SendFails(p, reached)
    PROVE  PushSound'
<1>1. worker[p].pc = "send" /\ worker[p] \in PushFrame
  BY FrameOf DEF Campaign!SendFails, Campaign!At
<1>2. PICK h \in PushFrame : h = worker[p]
  BY <1>1
<1>3. /\ Campaign!Attempted(p, h, worker[p].batch)
      /\ pushes' = Campaign!Count(pushes, reached) /\ excuses' = Campaign!Count(excuses, reached)
  BY <1>2 DEF Campaign!SendFails
<1>4. UNCHANGED <<overlapped, quiet, campaignStatus, admin, active, delivery, totalRecipients>>
  BY DEF Campaign!SendFails, Campaign!campaignVars, Campaign!tables
<1>5. /\ reached \in SUBSET reached /\ h.sent = worker[p].sent \cup (reached \ reached)
      /\ worker[p].batch \in SUBSET worker[p].batch
      /\ worker[p].batch \cap (reached \ reached) = {}
  BY <1>2
<1> QED BY <1>1, <1>2, <1>3, <1>4, <1>5, AttemptedStep

LEMMA DeactivateTokensStep ==
    ASSUME PushSound, NEW p \in Servers, Campaign!DeactivateTokens(p)
    PROVE  PushSound'
<1>1. worker[p].pc = "deactivate" /\ FrameFits(worker[p]) /\ worker[p] \in PushFrame
  BY FrameOf DEF Campaign!DeactivateTokens, Campaign!At
<1>2. PICK f \in PushFrame :
          /\ f = [worker[p] EXCEPT !.pc = "record"]
          /\ f.pc = "record" /\ f.customers = worker[p].customers /\ f.sent = worker[p].sent
          /\ f.devices = worker[p].devices /\ f.batch = worker[p].batch
  <2>1. "record" \in Labels
    BY DEF Labels
  <2> QED BY <1>1, <2>1, Moved
<1>3. worker' = [worker EXCEPT ![p] = f]
  BY <1>2 DEF Campaign!DeactivateTokens, Campaign!To, Campaign!Goto
<1>4. UNCHANGED <<overlapped, quiet, campaignStatus, admin, pushes, excuses, delivery,
                  totalRecipients>>
  BY DEF Campaign!DeactivateTokens, Campaign!campaignVars, Campaign!history
<1>5. AtWork(worker[p]) /\ AtWork(f) /\ FrameFits(f) /\ f.batch = f.devices
      /\ f.sent \subseteq f.devices
  BY <1>1, <1>2 DEF AtWork, FrameFits
<1>6. /\ delivery \in [Devices -> {"none", "PENDING", "SENT", "FAILED", "OPENED"}]
      /\ pushes \in [Devices -> Nat] /\ excuses \in [Devices -> Nat] /\ active' \subseteq Devices
  BY DEF Campaign!DeactivateTokens, PushSound, PushTypeOK
<1>7. ASSUME ~overlapped
      PROVE  /\ HasAll(f)'
             /\ \A d \in Devices :
                   /\ pushes[d] <= 1 + excuses[d]
                   /\ /\ delivery[d] \in {"none", "PENDING"}
                      /\ d \notin Campaign!Unrecorded(f)
                      => pushes[d] <= excuses[d]
  <2>1. Campaign!Unrecorded(worker[p]) = f.sent /\ Campaign!Unrecorded(f) = f.sent
    BY <1>1, <1>2, <1>5 DEF Campaign!Unrecorded
  <2>2. \A q \in Servers \ {p} : Campaign!Unrecorded(worker[q]) = {}
    BY <1>5, <1>7, RestsUnrecorded DEF PushSound, OneAtWork
  <2>3. HasAll(worker[p])
    BY <1>5, <1>7 DEF PushSound
  <2>4. HasAll(f)'
    BY <1>1, <1>2, <1>4, <1>5, <2>3 DEF HasAll, Pending
  <2> QED BY <1>7, <2>1, <2>2, <2>4 DEF PushSound, PushedOnce
<1> QED BY <1>2, <1>3, <1>4, <1>5, <1>6, <1>7, AtWorkStep

\* What is recorded is PENDING no longer.
LEMMA RecordedRows ==
    ASSUME PushSound, NEW f, NEW S \in SUBSET Devices
    PROVE  /\ Campaign!Recorded(f, S) \in [Devices -> {"none", "PENDING", "SENT", "FAILED", "OPENED"}]
           /\ \A d \in S : Campaign!Recorded(f, S)[d] \in {"SENT", "FAILED"}
           /\ \A d \in Devices \ S : Campaign!Recorded(f, S)[d] = delivery[d]
  BY DEF Campaign!Recorded, PushSound, PushTypeOK

LEMMA RecordResultStep ==
    ASSUME PushSound, NEW p \in Servers, NEW d \in Devices, Campaign!RecordResult(p, d)
    PROVE  PushSound'
<1>1. /\ worker[p].pc = "record" /\ FrameFits(worker[p]) /\ worker[p] \in PushFrame
      /\ d \in worker[p].batch
  BY FrameOf DEF Campaign!RecordResult, Campaign!At
<1>2. PICK left \in SUBSET Devices : left = worker[p].batch \ {d}
  BY <1>1 DEF PushFrame
<1>3. PICK pc \in {"finish", "record"} : /\ pc = IF left = {} THEN "finish" ELSE "record"
                                         /\ pc \in Labels
  BY DEF Labels
<1>4. PICK f \in PushFrame :
          /\ f = [worker[p] EXCEPT !.batch = left, !.pc = pc]
          /\ f.pc = pc /\ f.customers = worker[p].customers /\ f.sent = worker[p].sent
          /\ f.devices = worker[p].devices /\ f.batch = left
  <2> DEFINE g == [worker[p] EXCEPT !.batch = left, !.pc = pc]
  <2>1. g \in PushFrame
    BY <1>1, <1>3 DEF PushFrame
  <2>2. /\ g.pc = pc /\ g.customers = worker[p].customers /\ g.sent = worker[p].sent
        /\ g.devices = worker[p].devices /\ g.batch = left
    BY <1>1 DEF PushFrame
  <2> QED BY <2>1, <2>2
<1>5. /\ worker' = [worker EXCEPT ![p] = f]
      /\ delivery' = Campaign!Recorded(worker[p], {d})
  BY <1>2, <1>3, <1>4 DEF Campaign!RecordResult, Campaign!Goto
<1>6. UNCHANGED <<overlapped, quiet, campaignStatus, admin, pushes, excuses, active,
                  totalRecipients>>
  BY DEF Campaign!RecordResult, Campaign!campaignVars, Campaign!history
<1>7. AtWork(worker[p]) /\ AtWork(f) /\ FrameFits(f)
  BY <1>1, <1>3, <1>4 DEF AtWork, FrameFits
<1>8. /\ delivery' \in [Devices -> {"none", "PENDING", "SENT", "FAILED", "OPENED"}]
      /\ delivery'[d] \in {"SENT", "FAILED"}
      /\ \A e \in Devices \ {d} : delivery'[e] = delivery[e]
  BY <1>5, RecordedRows
<1>9. pushes \in [Devices -> Nat] /\ excuses \in [Devices -> Nat] /\ active \subseteq Devices
  BY DEF PushSound, PushTypeOK
<1>10. ASSUME ~overlapped
       PROVE  /\ HasAll(f)'
              /\ \A e \in Devices :
                    /\ pushes[e] <= 1 + excuses[e]
                    /\ /\ delivery'[e] \in {"none", "PENDING"}
                       /\ e \notin Campaign!Unrecorded(f)
                       => pushes[e] <= excuses[e]
  <2>1. \A e \in Devices \ {d} : e \in Campaign!Unrecorded(worker[p]) => e \in Campaign!Unrecorded(f)
    BY <1>1, <1>2, <1>3, <1>4 DEF Campaign!Unrecorded
  <2>2. \A q \in Servers \ {p} : Campaign!Unrecorded(worker[q]) = {}
    BY <1>7, <1>10, RestsUnrecorded DEF PushSound, OneAtWork
  <2>3. HasAll(worker[p])
    BY <1>7, <1>10 DEF PushSound
  <2>4. Pending' \subseteq left
    BY <1>1, <1>2, <1>8, <2>3 DEF HasAll, Pending
  <2>5. HasAll(f)'
    BY <1>1, <1>3, <1>4, <1>6, <2>3, <2>4 DEF HasAll
  <2>6. \A e \in Devices :
           /\ pushes[e] <= 1 + excuses[e]
           /\ delivery'[e] \in {"none", "PENDING"} /\ e \notin Campaign!Unrecorded(f)
              => pushes[e] <= excuses[e]
    BY <1>8, <1>10, <2>1, <2>2 DEF PushSound, PushedOnce
  <2> QED BY <2>5, <2>6
<1> QED BY <1>4, <1>5, <1>6, <1>7, <1>8, <1>9, <1>10, AtWorkStep

LEMMA RestingFrame ==
    /\ Campaign!Idle \in PushFrame /\ FrameFits(Campaign!Idle) /\ ~AtWork(Campaign!Idle)
    /\ [Campaign!Idle EXCEPT !.pc = "failing"] \in PushFrame
    /\ FrameFits([Campaign!Idle EXCEPT !.pc = "failing"])
    /\ ~AtWork([Campaign!Idle EXCEPT !.pc = "failing"])
  BY DEF Campaign!Idle, PushFrame, Labels, FrameFits, AtWork

LEMMA FinishStep ==
    ASSUME PushSound, NEW p \in Servers, Campaign!Finish(p)
    PROVE  PushSound'
<1>1. worker[p].pc = "finish" /\ AtWork(worker[p]) /\ worker' = [worker EXCEPT ![p] = Campaign!Idle]
  BY DEF Campaign!Finish, Campaign!At, Campaign!Goto, AtWork
<1>2. UNCHANGED <<overlapped, quiet, admin, pushes, excuses, active, delivery, totalRecipients>>
  BY DEF Campaign!Finish, Campaign!tables, Campaign!history
<1>3. ~quiet
  BY <1>1 DEF PushSound, QuietIsCancelled
<1>4. /\ delivery \in [Devices -> {"none", "PENDING", "SENT", "FAILED", "OPENED"}]
      /\ excuses \in [Devices -> Nat]
  BY DEF PushSound, PushTypeOK
<1>5. ASSUME ~overlapped
      PROVE  /\ \A d \in Devices :
                   /\ pushes[d] <= 1 + excuses[d]
                   /\ delivery[d] \in {"none", "PENDING"} => pushes[d] <= excuses[d]
             /\ NobodyForgotten'
  <2>1. Campaign!Unrecorded(worker[p]) = {}
    BY <1>1 DEF Campaign!Unrecorded
  <2>2. \A q \in Servers \ {p} : Campaign!Unrecorded(worker[q]) = {}
    BY <1>1, <1>5, RestsUnrecorded DEF PushSound, OneAtWork
  <2>3. HasAll(worker[p])
    BY <1>1, <1>5 DEF PushSound
  <2>4. NobodyForgotten'
    <3>1. worker[p].customers = {} => ~(totalRecipients > 0)
      BY <1>1, <2>3, FS_EmptySet DEF HasAll
    <3>2. worker[p].customers = {} \/ Pending = {}
      BY <1>1, <2>3 DEF HasAll
    <3> QED BY <1>2, <3>1, <3>2 DEF NobodyForgotten, Pending
  <2> QED BY <1>5, <2>1, <2>2, <2>4 DEF PushSound, PushedOnce
<1> QED BY <1>1, <1>2, <1>3, <1>4, <1>5, RestingFrame, RestStep

(* A worker that throws or dies leaves what it had sent PENDING; it is counted *)
(* in excuses, for another worker will send it again.                          *)
LEMMA DiesStep ==
    ASSUME PushSound, NEW p \in Servers, AtWork(worker[p]),
           NEW f \in PushFrame, FrameFits(f), ~AtWork(f), worker' = [worker EXCEPT ![p] = f],
           NEW written \in SUBSET Devices, delivery' = Campaign!Recorded(worker[p], written),
           excuses' = Campaign!Count(excuses, Campaign!Unrecorded(worker[p]) \ written),
           UNCHANGED <<overlapped, quiet, campaignStatus, admin, pushes, active, totalRecipients>>
    PROVE  PushSound'
<1>1. PICK lost \in SUBSET Devices : lost = Campaign!Unrecorded(worker[p]) \ written
  BY FrameOf DEF Campaign!Unrecorded, PushFrame
<1>2. pushes \in [Devices -> Nat] /\ excuses \in [Devices -> Nat]
  BY DEF PushSound, PushTypeOK
<1>3. /\ excuses' \in [Devices -> Nat]
      /\ \A d \in lost : excuses'[d] = excuses[d] + 1
      /\ \A d \in Devices \ lost : excuses'[d] = excuses[d]
  BY <1>1, <1>2, Counted1
<1>4. /\ delivery' \in [Devices -> {"none", "PENDING", "SENT", "FAILED", "OPENED"}]
      /\ \A d \in written : delivery'[d] \in {"SENT", "FAILED"}
      /\ \A d \in Devices \ written : delivery'[d] = delivery[d]
  BY RecordedRows
<1>5. ASSUME ~overlapped
      PROVE  /\ \A d \in Devices :
                   /\ pushes[d] <= 1 + excuses'[d]
                   /\ delivery'[d] \in {"none", "PENDING"} => pushes[d] <= excuses'[d]
             /\ NobodyForgotten'
  <2>1. \A q \in Servers \ {p} : Campaign!Unrecorded(worker[q]) = {}
    BY <1>5, RestsUnrecorded DEF PushSound, OneAtWork
  <2>2. campaignStatus \notin {"SENT", "PARTIALLY_SENT"}
    BY <1>5 DEF PushSound, HasAll
  <2>3. ASSUME NEW d \in Devices
        PROVE  /\ pushes[d] <= 1 + excuses'[d]
               /\ delivery'[d] \in {"none", "PENDING"} => pushes[d] <= excuses'[d]
    <3>1. PICK a \in Nat, x \in Nat, y \in Nat : a = pushes[d] /\ x = excuses[d] /\ y = excuses'[d]
      BY <1>2, <1>3
    <3>4. y = IF d \in lost THEN x + 1 ELSE x
      BY <1>3, <3>1
    <3>2. a <= 1 + x
      BY <1>5, <3>1 DEF PushSound, PushedOnce
    <3>3. ASSUME delivery'[d] \in {"none", "PENDING"}
          PROVE  a <= y
      <4>1. d \notin written /\ delivery[d] \in {"none", "PENDING"}
        BY <1>4, <3>3
      <4>2. CASE d \in lost
        BY <3>2, <3>4, <4>2
      <4>3. CASE d \notin lost
        <5>1. \A q \in Servers : d \notin Campaign!Unrecorded(worker[q])
          BY <1>1, <2>1, <4>1, <4>3
        <5>2. a <= x
          BY <1>5, <3>1, <4>1, <5>1 DEF PushSound, PushedOnce
        <5> QED BY <3>4, <4>3, <5>2
      <4> QED BY <4>2, <4>3
    <3> QED BY <3>1, <3>2, <3>3, <3>4
  <2> QED BY <2>2, <2>3 DEF NobodyForgotten
<1> QED BY <1>3, <1>4, <1>5, RestStep

LEMMA ThrowStep ==
    ASSUME PushSound, NEW p \in Servers, NEW written \in SUBSET worker[p].batch,
           Campaign!Throw(p, written)
    PROVE  PushSound'
<1>1. AtWork(worker[p]) /\ worker[p] \in PushFrame
  BY FrameOf DEF Campaign!Throw, Campaign!At, AtWork
<1>2. PICK f \in PushFrame : f = [Campaign!Idle EXCEPT !.pc = "failing"] /\ FrameFits(f) /\ ~AtWork(f)
  BY RestingFrame
<1>3. written \in SUBSET Devices
  BY <1>1 DEF PushFrame
<1>4. /\ worker' = [worker EXCEPT ![p] = f]
      /\ delivery' = Campaign!Recorded(worker[p], written)
      /\ excuses' = Campaign!Count(excuses, Campaign!Unrecorded(worker[p]) \ written)
      /\ UNCHANGED <<overlapped, quiet, campaignStatus, admin, pushes, active, totalRecipients>>
  BY <1>2 DEF Campaign!Throw, Campaign!Goto, Campaign!campaignVars
<1> QED BY <1>1, <1>2, <1>3, <1>4, DiesStep

LEMMA RestartStep ==
    ASSUME PushSound, NEW p \in Servers, Campaign!Restart(p)
    PROVE  PushSound'
<1>1. /\ worker' = [worker EXCEPT ![p] = Campaign!Idle]
      /\ excuses' = Campaign!Count(excuses, Campaign!Unrecorded(worker[p]))
      /\ UNCHANGED <<overlapped, quiet, campaignStatus, admin, pushes, active, delivery,
                     totalRecipients>>
  BY DEF Campaign!Restart, Campaign!Goto, Campaign!campaignVars, Campaign!tables
<1>2. CASE AtWork(worker[p])
  <2>1. delivery' = Campaign!Recorded(worker[p], {})
    BY <1>1 DEF Campaign!Recorded, PushSound, PushTypeOK
  <2>2. excuses' = Campaign!Count(excuses, Campaign!Unrecorded(worker[p]) \ {})
    <3>1. Campaign!Unrecorded(worker[p]) \ {} = Campaign!Unrecorded(worker[p])
      OBVIOUS
    <3> QED BY <1>1, <3>1
  <2>3. {} \in SUBSET Devices
    OBVIOUS
  <2> QED BY <1>1, <1>2, <2>1, <2>2, <2>3, RestingFrame, DiesStep
<1>3. CASE ~AtWork(worker[p])
  <2>1. Campaign!Unrecorded(worker[p]) = {}
    BY <1>3, RestsUnrecorded
  <2>2. excuses' = excuses /\ excuses \in [Devices -> Nat]
    BY <1>1, <2>1 DEF Campaign!Count, PushSound, PushTypeOK
  <2>3. delivery \in [Devices -> {"none", "PENDING", "SENT", "FAILED", "OPENED"}]
    BY DEF PushSound, PushTypeOK
  <2> QED BY <1>1, <1>3, <2>2, <2>3, RestingFrame, RestStep
<1> QED BY <1>2, <1>3

LEMMA FailureStep ==
    ASSUME PushSound, NEW p \in Servers, Campaign!ClaimFails(p) \/ Campaign!MarkFailed(p)
    PROVE  PushSound'
<1>1. /\ delivery \in [Devices -> {"none", "PENDING", "SENT", "FAILED", "OPENED"}]
      /\ excuses \in [Devices -> Nat]
  BY DEF PushSound, PushTypeOK
<1>2. CASE Campaign!ClaimFails(p)
  <2>1. worker[p] \in PushFrame /\ worker[p].sent = {} /\ ~AtWork(worker[p])
    BY <1>2, FrameOf DEF Campaign!ClaimFails, Campaign!At, FrameFits, AtWork
  <2>2. PICK f \in PushFrame : f = [worker[p] EXCEPT !.pc = "failing"] /\ f.pc = "failing" /\ f.sent = {}
    <3>1. "failing" \in Labels
      BY DEF Labels
    <3> QED BY <2>1, <3>1, Moved
  <2>3. FrameFits(f) /\ ~AtWork(f)
    BY <2>2 DEF FrameFits, AtWork
  <2>4. /\ worker' = [worker EXCEPT ![p] = f]
        /\ UNCHANGED <<overlapped, quiet, campaignStatus, admin, pushes, excuses, active, delivery,
                       totalRecipients>>
    BY <1>2, <2>2 DEF Campaign!ClaimFails, Campaign!To, Campaign!Goto, Campaign!campaignVars,
                      Campaign!tables, Campaign!history
  <2> QED BY <1>1, <2>1, <2>3, <2>4, RestStep
<1>3. CASE Campaign!MarkFailed(p)
  <2>1. ~AtWork(worker[p]) /\ worker' = [worker EXCEPT ![p] = Campaign!Idle]
    BY <1>3 DEF Campaign!MarkFailed, Campaign!At, Campaign!Goto, AtWork
  <2>2. /\ campaignStatus' \in {campaignStatus, "FAILED"}
        /\ quiet => campaignStatus' = campaignStatus
    BY <1>3 DEF Campaign!MarkFailed, Campaign!Claimable, PushSound, QuietIsCancelled
  <2>3. UNCHANGED <<overlapped, quiet, admin, pushes, excuses, active, delivery, totalRecipients>>
    BY <1>3 DEF Campaign!MarkFailed, Campaign!tables, Campaign!history
  <2> QED BY <1>1, <2>1, <2>2, <2>3, RestingFrame, RestStep
<1> QED BY <1>2, <1>3

-----------------------------------------------------------------------------
LEMMA InitPush == Campaign!Init => PushSound
<1> SUFFICES ASSUME Campaign!Init
             PROVE  PushSound
  OBVIOUS
<1>1. \A p \in Servers : worker[p] = Campaign!Idle /\ Campaign!Unrecorded(worker[p]) = {}
  BY DEF Campaign!Init, Campaign!Idle, Campaign!Unrecorded
<1>2. PushTypeOK
  BY RestingFrame DEF Campaign!Init, PushTypeOK
<1>3. \A p \in Servers : FrameFits(worker[p]) /\ ~AtWork(worker[p])
  BY <1>1, RestingFrame
<1>4. QuietIsCancelled /\ NobodyForgotten
  BY DEF Campaign!Init, QuietIsCancelled, NobodyForgotten
<1>5. PushedOnce
  BY DEF Campaign!Init, PushedOnce
<1> QED BY <1>2, <1>3, <1>4, <1>5 DEF PushSound, OneAtWork

LEMMA NextPush == PushSound /\ [Campaign!Next]_pushVars => PushSound'
<1> SUFFICES ASSUME PushSound, [Campaign!Next]_pushVars
             PROVE  PushSound'
  OBVIOUS
<1>1. CASE UNCHANGED pushVars
  <2>1. QuietIsCancelled'
    BY <1>1 DEF PushSound, QuietIsCancelled, pushVars
  <2> QED BY <1>1, <2>1, WorkersStayStep DEF pushVars, PushSound, PushTypeOK
<1>2. CASE \E p \in Servers : \/ \E s \in {"DRAFT", "SCHEDULED", "QUEUED"} : Campaign!Create(p, s)
                              \/ \E a \in Requests : Campaign!SendDraft(a, p)
  BY <1>2, CreateStep, SendDraftStep
<1>3. CASE \/ \E a \in Requests : \/ Campaign!SendDraftRead(a) \/ Campaign!CancelRead(a)
                                  \/ Campaign!Cancel(a)
           \/ Campaign!FallDue
           \/ \E p \in Servers : Campaign!ProcessDueScheduled(p)
  BY <1>3, AdminReadsStep, CancelStep, ClockStep
<1>4. CASE \/ \E d \in Devices : Campaign!Register(d) \/ Campaign!Release(d)
           \/ \E c \in Audience : Campaign!MarkAsRead(c)
  BY <1>4, DeviceStep, MarkAsReadStep
<1>5. CASE \E p \in Servers :
              \/ Campaign!Claim(p) \/ Campaign!ClaimFails(p) \/ Campaign!MarkFailed(p)
              \/ Campaign!Finish(p) \/ Campaign!Restart(p)
              \/ \E written \in SUBSET worker[p].batch : Campaign!Throw(p, written)
  BY <1>5, ClaimStep, FailureStep, FinishStep, RestartStep, ThrowStep
<1>6. CASE \E p \in Servers :
              \/ \E customers \in SUBSET Audience : Campaign!ResolveRecipients(p, customers)
              \/ Campaign!CreateInboxRows(p) \/ Campaign!FindTokens(p)
              \/ Campaign!CreateDeliveries(p) \/ Campaign!FindPending(p)
              \/ Campaign!DeactivateTokens(p)
              \/ \E d \in Devices : Campaign!RecordResult(p, d)
  BY <1>6, ResolveRecipientsStep, CreateInboxRowsStep, FindTokensStep, CreateDeliveriesStep,
     FindPendingStep, DeactivateTokensStep, RecordResultStep
<1>7. CASE \E p \in Servers : \E reached \in SUBSET worker[p].batch :
              \/ Campaign!SendFails(p, reached)
              \/ \E invalid \in SUBSET (worker[p].batch \ reached) :
                    \E transient \in SUBSET (worker[p].batch \ (reached \cup invalid)) :
                        Campaign!SendChunk(p, reached, invalid, transient)
  BY <1>7, SendFailsStep, SendChunkStep
<1> QED BY <1>1, <1>2, <1>3, <1>4, <1>5, <1>6, <1>7 DEF Campaign!Next

LEMMA PushInvariant ==
    PartsSpec => [](part \in {"workers", "devices"} => PushSound)
<1> DEFINE Inv == part \in {"workers", "devices"} => PushSound
<1>1. PartsInit => Inv
  BY InitPush DEF PartsInit
<1>2. Inv /\ [PartsNext]_<<part, vars, ownVars>> => Inv'
  <2> SUFFICES ASSUME Inv, [PartsNext]_<<part, vars, ownVars>>,
                      part' \in {"workers", "devices"}
               PROVE  PushSound'
    OBVIOUS
  <2>1. part \in {"workers", "devices"}
    BY DEF PartsNext
  <2>2. [Campaign!Next]_pushVars
    BY <2>1 DEF PartsNext, ownVars
  <2> QED BY <2>1, <2>2, NextPush
<1> QED BY <1>1, <1>2, PTL DEF PartsSpec

(* As long as no two workers are at the campaign at once, no device gets it    *)
(* twice, but for once each time that FCM's answer was lost or the worker died *)
(* before it wrote it down; and when it is said to be sent, no device has been *)
(* forgotten (claim, sendToDevices).                                           *)
THEOREM NoDeviceTwice == PartsSpec => []EachDeviceOnce
<1>1. (part \in {"workers", "devices"} => PushSound) => EachDeviceOnce
  BY PushImplies DEF EachDeviceOnce
<1> QED BY <1>1, PushInvariant, PTL

(* A campaign that was cancelled while no worker was at it and no request was  *)
(* about to send it reaches nobody any more: it stays in the queues, but is    *)
(* claimed by its status (processCampaign).                                    *)
THEOREM CancelledForGood == PartsSpec => CancelledStaysQuiet
<1> DEFINE Inv == part \in {"workers", "devices"} => PushSound
<1>1. Inv /\ [PartsNext]_<<part, vars, ownVars>> =>
         [quiet => UNCHANGED <<pushes, inbox>>]_(Campaign!vars)
  <2> SUFFICES ASSUME Inv, [PartsNext]_<<part, vars, ownVars>>, quiet
               PROVE  UNCHANGED <<pushes, inbox>>
    OBVIOUS
  <2>1. CASE UNCHANGED pushVars
    BY <2>1 DEF pushVars
  <2>2. CASE part \in {"workers", "devices"} /\ Campaign!Next
    <3>1. \A p \in Servers : worker[p].pc \in {"idle", "failing"}
      BY <2>2 DEF PushSound, QuietIsCancelled, AtWork
    <3> USE DEF Campaign!At, Campaign!campaignVars, Campaign!tables, Campaign!history
    <3>2. CASE \E p \in Servers : \/ \E s \in {"DRAFT", "SCHEDULED", "QUEUED"} : Campaign!Create(p, s)
                                  \/ \E a \in Requests : Campaign!SendDraft(a, p)
                                  \/ Campaign!ProcessDueScheduled(p)
      BY <3>2 DEF Campaign!Create, Campaign!SendDraft, Campaign!ProcessDueScheduled
    <3>3. CASE \/ \E a \in Requests : \/ Campaign!SendDraftRead(a) \/ Campaign!CancelRead(a)
                                      \/ Campaign!Cancel(a)
               \/ Campaign!FallDue
      BY <3>3 DEF Campaign!SendDraftRead, Campaign!CancelRead, Campaign!AdminReads,
                  Campaign!Cancel, Campaign!FallDue
    <3>4. CASE \/ \E d \in Devices : Campaign!Register(d) \/ Campaign!Release(d)
               \/ \E c \in Audience : Campaign!MarkAsRead(c)
      BY <3>4 DEF Campaign!Register, Campaign!Release, Campaign!MarkAsRead
    <3>5. CASE \E p \in Servers :
                  \/ Campaign!Claim(p) \/ Campaign!ClaimFails(p) \/ Campaign!MarkFailed(p)
                  \/ Campaign!Restart(p)
                  \/ \E written \in SUBSET worker[p].batch : Campaign!Throw(p, written)
      BY <3>5 DEF Campaign!Claim, Campaign!ClaimFails, Campaign!MarkFailed, Campaign!Restart,
                  Campaign!Throw
    <3>6. ~\E p \in Servers :
              \/ \E customers \in SUBSET Audience : Campaign!ResolveRecipients(p, customers)
              \/ Campaign!CreateInboxRows(p) \/ Campaign!FindTokens(p)
              \/ Campaign!CreateDeliveries(p) \/ Campaign!FindPending(p)
              \/ Campaign!DeactivateTokens(p) \/ Campaign!Finish(p)
              \/ \E d \in Devices : Campaign!RecordResult(p, d)
      BY <3>1 DEF Campaign!ResolveRecipients, Campaign!CreateInboxRows, Campaign!FindTokens,
                  Campaign!CreateDeliveries, Campaign!FindPending, Campaign!DeactivateTokens,
                  Campaign!Finish, Campaign!RecordResult
    <3>7. ~\E p \in Servers : \E reached \in SUBSET worker[p].batch :
              \/ Campaign!SendFails(p, reached)
              \/ \E invalid \in SUBSET (worker[p].batch \ reached) :
                    \E transient \in SUBSET (worker[p].batch \ (reached \cup invalid)) :
                        Campaign!SendChunk(p, reached, invalid, transient)
      BY <3>1 DEF Campaign!SendFails, Campaign!SendChunk
    <3> HIDE DEF Campaign!At, Campaign!campaignVars, Campaign!tables, Campaign!history
    <3> QED BY <2>2, <3>2, <3>3, <3>4, <3>5, <3>6, <3>7 DEF Campaign!Next
  <2> QED BY <2>1, <2>2 DEF PartsNext, ownVars
<1> QED BY <1>1, PushInvariant, PTL DEF PartsSpec, CancelledStaysQuiet, Campaign!CancelledStaysQuiet

-----------------------------------------------------------------------------
(* The windows.  What a customer carries from one step to the next is a        *)
(* window of some hours at some moment (IsWindow), and the hours he has been   *)
(* given were in force not long before.                                        *)

LEMMA Quotient ==
    ASSUME NEW t \in Int, NEW d \in Nat \ {0}
    PROVE  /\ t \div d \in Int /\ t % d \in Int
           /\ t = d * (t \div d) + (t % d)
           /\ 0 <= t % d /\ t % d < d
  OBVIOUS

LEMMA TimesMono ==
    ASSUME NEW a \in Int, NEW b \in Int, NEW d \in Nat, a <= b
    PROVE  d * a <= d * b
<1>1. (b - a) \in Nat
  OBVIOUS
<1>2. d * (b - a) \in Nat
  BY <1>1
<1>3. d * (b - a) = d * b - d * a
  OBVIOUS
<1> QED BY <1>2, <1>3

LEMMA MultipleOf ==
    ASSUME NEW a \in Int, NEW d \in Nat \ {0}
    PROVE  a % d = 0 <=> \E k \in Int : a = d * k
<1>1. a % d = 0 => \E k \in Int : a = d * k
  BY Quotient
<1>2. ASSUME NEW k \in Int, a = d * k
      PROVE  a % d = 0
  <2>1. PICK r \in Int, q \in Int :
           r = a % d /\ q = a \div d /\ a = d * q + r /\ 0 <= r /\ r < d
    BY Quotient
  <2>2. d * (k - q) = r
    BY <2>1, <1>2
  <2>3. CASE k - q >= 1
    <3>1. d * 1 <= d * (k - q)
      BY <2>3, TimesMono
    <3> QED BY <3>1, <2>1, <2>2
  <2>4. CASE k - q <= -1
    <3>1. d * (k - q) <= d * (-1)
      BY <2>4, TimesMono
    <3> QED BY <3>1, <2>1, <2>2
  <2>5. CASE k - q = 0
    BY <2>1, <2>2, <2>5
  <2> QED BY <2>3, <2>4, <2>5
<1> QED BY <1>1, <1>2

\* A distance of multiples is one.
LEMMA MultiplesApart ==
    ASSUME NEW a \in Int, NEW b \in Int, NEW d \in Nat \ {0}, a % d = 0
    PROVE  b % d = 0 <=> (a + b) % d = 0
<1>1. PICK k \in Int : a = d * k
  BY MultipleOf
<1>2. ASSUME b % d = 0
      PROVE  (a + b) % d = 0
  <2>1. PICK j \in Int : b = d * j
    BY <1>2, MultipleOf
  <2>2. a + b = d * (k + j) /\ k + j \in Int /\ a + b \in Int
    BY <1>1, <2>1
  <2> QED BY <2>2, MultipleOf
<1>3. ASSUME (a + b) % d = 0
      PROVE  b % d = 0
  <2>1. PICK j \in Int : a + b = d * j
    <3>1. a + b \in Int
      OBVIOUS
    <3> QED BY <1>3, <3>1, MultipleOf
  <2>2. b = d * (j - k) /\ j - k \in Int
    BY <1>1, <2>1
  <2> QED BY <2>2, MultipleOf
<1> QED BY <1>2, <1>3

\* Different multiples are that far apart.
LEMMA StepsApart ==
    ASSUME NEW o \in Int, NEW a \in Int, NEW b \in Int, NEW d \in Nat \ {0},
           (a - o) % d = 0, (b - o) % d = 0, a < b
    PROVE  a + d <= b
<1>1. a - o \in Int /\ b - o \in Int
  OBVIOUS
<1>2. PICK k \in Int : a - o = d * k
  BY <1>1, MultipleOf
<1>3. PICK j \in Int : b - o = d * j
  BY <1>1, MultipleOf
<1>4. CASE j <= k
  <2>1. d * j <= d * k
    BY <1>4, TimesMono
  <2> QED BY <1>2, <1>3, <2>1
<1>5. CASE k + 1 <= j
  <2>1. d * (k + 1) <= d * j
    BY <1>5, TimesMono
  <2>2. d * (k + 1) = d * k + d
    OBVIOUS
  <2> QED BY <1>2, <1>3, <2>1, <2>2
<1> QED BY <1>4, <1>5

\* The days follow the minutes.
LEMMA DaysFollow ==
    ASSUME NEW t \in Nat, NEW u \in Nat, t <= u
    PROVE  /\ Windows!Today(t) \in Int /\ Windows!Today(u) \in Int
           /\ Windows!Today(t) <= Windows!Today(u)
           /\ Windows!Minute(t) \in 0..(DayMinutes - 1)
           /\ t = Windows!Today(t) * DayMinutes + Windows!Minute(t)
<1>1. DayMinutes \in Nat \ {0}
  BY WindowsAssumption DEF Windows!ConstantsFit
<1>2. PICK m \in Int, a \in Int :
         /\ a = t \div DayMinutes /\ m = t % DayMinutes
         /\ t = DayMinutes * a + m /\ 0 <= m /\ m < DayMinutes
  BY <1>1, Quotient
<1>3. PICK n \in Int, b \in Int :
         /\ b = u \div DayMinutes /\ n = u % DayMinutes
         /\ u = DayMinutes * b + n /\ 0 <= n /\ n < DayMinutes
  BY <1>1, Quotient
<1>4. CASE a <= b
  <2>1. a * DayMinutes = DayMinutes * a
    BY <1>1
  <2> QED BY <1>1, <1>2, <1>3, <1>4, <2>1 DEF Windows!Today, Windows!Minute
<1>5. CASE b + 1 <= a
  <2>1. DayMinutes * (b + 1) <= DayMinutes * a
    BY <1>1, <1>5, TimesMono
  <2>2. DayMinutes * (b + 1) = DayMinutes * b + DayMinutes
    BY <1>1
  <2> QED BY <1>1, <1>2, <1>3, <2>1, <2>2
<1> QED BY <1>4, <1>5

-----------------------------------------------------------------------------
DayWindow == [day : Int, start : Int, end : Int]

HoursOf(c) == Windows!ResolveEffectiveHours(Windows!ResolveHubHours(hub), c)

IsWindow(w, c, t) ==
    /\ w \in DayWindow
    /\ w.day \in Windows!Today(t)..(Windows!Today(t) + Horizon - 1)
    /\ w.day \notin c.closed
    /\ HoursOf(c).open <= w.start /\ w.end <= HoursOf(c).close
    /\ w.end = w.start + c.duration
    /\ (w.start - HoursOf(c).open) % c.duration = 0
    /\ w.day = Windows!Today(t) => Windows!Open(w, HoursOf(c), Windows!Minute(t))

\* A load and a hub for which the windows are cut.
LoadFits == hub \in HubHours /\ lead \in Leads

LEMMA HoursFit ==
    ASSUME LoadFits, NEW c \in OperatingHours
    PROVE  LET h == Windows!ResolveHubHours(hub) IN
           /\ h.open \in Nat /\ h.close \in Nat
           /\ c.open \in Nat /\ c.close \in Nat /\ c.duration \in Nat \ {0}
           /\ c.close <= DayMinutes
           /\ HoursOf(c).open \in Nat /\ HoursOf(c).close \in Nat
           /\ c.open <= HoursOf(c).open /\ HoursOf(c).close <= c.close
           /\ c.open < c.close /\ Windows!Meet(h, c) =>
                 /\ HoursOf(c).open = Windows!Better(h.open, c.open)
                 /\ HoursOf(c).close = Windows!Worse(h.close, c.close)
           /\ ~Windows!Meet(h, c) => HoursOf(c).open = c.open
<1> DEFINE h == Windows!ResolveHubHours(hub)
<1>1. h.open \in Nat /\ h.close \in Nat
  <2>1. h \in HubHours \cup {DefaultHours} /\ h # None
    BY WindowsAssumption DEF Windows!ConstantsFit, Windows!ResolveHubHours, LoadFits
  <2> HIDE DEF h
  <2> QED BY <2>1, WindowsAssumption DEF Windows!ConstantsFit
<1>2. /\ c.open \in Nat /\ c.close \in Nat /\ c.duration \in Nat \ {0}
      /\ c.close <= DayMinutes /\ DayMinutes \in Nat
  BY WindowsAssumption DEF Windows!ConstantsFit
<1>3. HoursOf(c) = LET open == Windows!Better(h.open, c.open)
                       close == Windows!Worse(h.close, c.close)
                   IN IF close <= open THEN [open |-> c.open, close |-> c.close]
                      ELSE [open |-> open, close |-> close]
  BY DEF HoursOf, Windows!ResolveEffectiveHours
<1> HIDE DEF h
<1>4. /\ HoursOf(c).open \in Nat /\ HoursOf(c).close \in Nat
      /\ c.open <= HoursOf(c).open /\ HoursOf(c).close <= c.close
  BY <1>1, <1>2, <1>3 DEF Windows!Better, Windows!Worse
<1>5. c.open < c.close /\ Windows!Meet(h, c) =>
         /\ HoursOf(c).open = Windows!Better(h.open, c.open)
         /\ HoursOf(c).close = Windows!Worse(h.close, c.close)
  BY <1>1, <1>2, <1>3 DEF Windows!Better, Windows!Worse, Windows!Meet
<1>6. ~Windows!Meet(h, c) => HoursOf(c).open = c.open
  BY <1>1, <1>2, <1>3 DEF Windows!Better, Windows!Worse, Windows!Meet
<1> QED BY <1>1, <1>2, <1>4, <1>5, <1>6 DEF h

LEMMA WindowsAre ==
    ASSUME LoadFits, NEW c \in OperatingHours, NEW t \in Nat, NEW w
    PROVE  w \in Windows!Windows(c, t) <=> IsWindow(w, c, t)
<1> DEFINE g == HoursOf(c)
           last == Windows!Today(t) + Horizon - 1
<1>1. /\ g.open \in Nat /\ g.close \in Nat /\ c.duration \in Nat \ {0}
      /\ Windows!Today(t) \in Int /\ Horizon \in Nat
  BY HoursFit, DaysFollow, WindowsAssumption DEF Windows!ConstantsFit
<1>2. \A v : v \in Windows!BuildDurationSlots(g, c.duration) <=>
                \E s \in g.open..(g.close - c.duration) :
                   (s - g.open) % c.duration = 0 /\ v = [start |-> s, end |-> s + c.duration]
  BY DEF Windows!BuildDurationSlots
<1>3. w \in Windows!Windows(c, t) <=>
         \E d \in Windows!Today(t)..last :
            /\ d \notin c.closed
            /\ \E v \in Windows!BuildDurationSlots(g, c.duration) :
                  /\ d = Windows!Today(t) => Windows!Open(v, g, Windows!Minute(t))
                  /\ w = [day |-> d, start |-> v.start, end |-> v.end]
  <2>1. \A d : w \in Windows!GenerateSlotWindowsForDate(d, c, t) <=>
           /\ d \notin c.closed
           /\ \E v \in Windows!BuildDurationSlots(g, c.duration) :
                 /\ d = Windows!Today(t) => Windows!Open(v, g, Windows!Minute(t))
                 /\ w = [day |-> d, start |-> v.start, end |-> v.end]
    BY DEF Windows!GenerateSlotWindowsForDate, HoursOf
  <2>2. w \in Windows!Windows(c, t) <=>
           \E d \in Windows!Today(t)..last : w \in Windows!GenerateSlotWindowsForDate(d, c, t)
    BY DEF Windows!Windows
  <2> QED BY <2>1, <2>2
<1> HIDE DEF g, last
<1>4. ASSUME w \in Windows!Windows(c, t)
      PROVE  IsWindow(w, c, t)
  <2>1. PICK d \in Windows!Today(t)..last, s \in g.open..(g.close - c.duration) :
           /\ d \notin c.closed
           /\ (s - g.open) % c.duration = 0
           /\ d = Windows!Today(t) =>
                 Windows!Open([start |-> s, end |-> s + c.duration], g, Windows!Minute(t))
           /\ w = [day |-> d, start |-> s, end |-> s + c.duration]
    BY <1>2, <1>3, <1>4
  <2>2. d \in Int /\ s \in Int /\ s + c.duration \in Int /\ g.open <= s /\ s + c.duration <= g.close
    BY <1>1 DEF last
  <2>3. w \in DayWindow /\ w.day = d /\ w.start = s /\ w.end = s + c.duration
    BY <2>1, <2>2 DEF DayWindow
  <2>4. w.day = Windows!Today(t) => Windows!Open(w, g, Windows!Minute(t))
    BY <2>1, <2>3 DEF Windows!Open
  <2> QED BY <2>1, <2>2, <2>3, <2>4 DEF IsWindow, g, last
<1>5. ASSUME IsWindow(w, c, t)
      PROVE  w \in Windows!Windows(c, t)
  <2> DEFINE v == [start |-> w.start, end |-> w.end]
  <2>1. /\ w \in DayWindow /\ w.day \in Windows!Today(t)..last /\ w.day \notin c.closed
        /\ g.open <= w.start /\ w.end <= g.close /\ w.end = w.start + c.duration
        /\ (w.start - g.open) % c.duration = 0
        /\ w.day = Windows!Today(t) => Windows!Open(w, g, Windows!Minute(t))
    BY <1>5 DEF IsWindow, g, last
  <2>2. w.start \in g.open..(g.close - c.duration)
    BY <1>1, <2>1 DEF DayWindow
  <2>3. v \in Windows!BuildDurationSlots(g, c.duration)
    BY <1>2, <2>1, <2>2
  <2>4. w = [day |-> w.day, start |-> v.start, end |-> v.end]
    BY <2>1 DEF DayWindow
  <2>5. w.day = Windows!Today(t) => Windows!Open(v, g, Windows!Minute(t))
    BY <2>1 DEF Windows!Open
  <2> HIDE DEF v
  <2> QED BY <1>3, <2>1, <2>3, <2>4, <2>5
<1> QED BY <1>4, <1>5

\* Windows of one day and the same hours are cut one after the other.
LEMMA WindowsApart ==
    ASSUME LoadFits, NEW c \in OperatingHours, NEW t \in Nat, NEW v, NEW w,
           IsWindow(v, c, t), IsWindow(w, c, t), v # w, v.day = w.day
    PROVE  v.end <= w.start \/ w.end <= v.start
<1> PICK o \in Int, d \in Nat \ {0} : o = HoursOf(c).open /\ d = c.duration
  BY HoursFit
<1>1. /\ v \in DayWindow /\ w \in DayWindow /\ v.end = v.start + d /\ w.end = w.start + d
      /\ (v.start - o) % d = 0 /\ (w.start - o) % d = 0
  BY DEF IsWindow
<1>2. v.start \in Int /\ w.start \in Int
  BY <1>1 DEF DayWindow
<1>3. v.start # w.start
  BY <1>1 DEF DayWindow
<1>4. CASE v.start < w.start
  BY <1>1, <1>2, <1>4, StepsApart
<1>5. CASE w.start < v.start
  BY <1>1, <1>2, <1>5, StepsApart
<1> QED BY <1>2, <1>3, <1>4, <1>5

\* A moment n of day b comes more than l after moment m of day a.
LEMMA EndsLater ==
    ASSUME NEW D \in Nat \ {0}, NEW a \in Int, NEW b \in Int, NEW m \in Nat, NEW n \in Int,
           NEW l \in Nat, m < D,
           (a = b /\ n > m + l) \/ (a + 1 <= b /\ l <= n)
    PROVE  b * D + n > a * D + m + l
<1>1. CASE a = b /\ n > m + l
  <2> PICK z \in Int : z = a * D /\ z = b * D
    BY <1>1
  <2> QED BY <1>1
<1>2. CASE a + 1 <= b /\ l <= n
  <2>1. D * (a + 1) <= D * b
    BY <1>2, TimesMono
  <2>2. D * (a + 1) = a * D + D /\ D * b = b * D /\ a * D \in Int /\ b * D \in Int
    OBVIOUS
  <2> QED BY <1>2, <2>1, <2>2
<1> QED BY <1>1, <1>2

\* What is offered at t of the hours c.
LEMMA WindowFits ==
    ASSUME LoadFits, NEW c \in OperatingHours, NEW t \in Nat, NEW w, IsWindow(w, c, t)
    PROVE  LET h == Windows!ResolveHubHours(hub) IN
           /\ w.day \notin c.closed
           /\ c.open <= w.start /\ w.end <= c.close
           /\ w.end = w.start + c.duration
           /\ Windows!Meet(h, c) => h.open <= w.start /\ w.end <= h.close
           /\ w.day = Windows!Today(t) \/ lead <= w.end =>
                 w.day * DayMinutes + w.end > t + lead
           /\ (w.start - c.open) % c.duration = 0 <=> Windows!Aligned(c)
<1> DEFINE h == Windows!ResolveHubHours(hub)
<1> PICK o \in Nat, e \in Nat, d \in Nat \ {0} :
       o = HoursOf(c).open /\ e = HoursOf(c).close /\ d = c.duration
  BY HoursFit
<1>1. /\ h.open \in Nat /\ h.close \in Nat /\ c.open \in Nat /\ c.close \in Nat
      /\ c.open <= o /\ e <= c.close
      /\ c.open < c.close /\ Windows!Meet(h, c) =>
            o = Windows!Better(h.open, c.open) /\ e = Windows!Worse(h.close, c.close)
      /\ ~Windows!Meet(h, c) => o = c.open
  BY HoursFit
<1> HIDE DEF h
<1>2. /\ w.day \in Int /\ w.start \in Int /\ w.end \in Int
      /\ w.end = w.start + d /\ o <= w.start /\ w.end <= e
      /\ (w.start - o) % d = 0 /\ w.day \notin c.closed
      /\ w.day = Windows!Today(t) => Windows!Open(w, HoursOf(c), Windows!Minute(t))
  BY DEF IsWindow, DayWindow
<1>3. c.open < c.close /\ c.open <= w.start /\ w.end <= c.close
  BY <1>1, <1>2
<1>4. Windows!Meet(h, c) => h.open <= w.start /\ w.end <= h.close
  BY <1>1, <1>2, <1>3 DEF Windows!Better, Windows!Worse
<1>5. w.day = Windows!Today(t) \/ lead <= w.end => w.day * DayMinutes + w.end > t + lead
  <2> PICK D \in Nat \ {0} : D = DayMinutes
    BY WindowsAssumption DEF Windows!ConstantsFit
  <2> PICK a \in Int : a = Windows!Today(t)
    BY DaysFollow
  <2> PICK m \in Nat : m = Windows!Minute(t) /\ m < D /\ t = a * D + m
    BY DaysFollow
  <2>1. lead \in Nat
    BY WindowsAssumption DEF LoadFits, Windows!ConstantsFit
  <2>2. a <= w.day
    BY <1>2, WindowsAssumption DEF IsWindow, Windows!ConstantsFit
  <2>3. w.day = a => w.end > m + lead
    BY <1>2 DEF Windows!Open
  <2>4. w.day = a \/ (a + 1 <= w.day /\ lead <= w.end) => w.day * D + w.end > a * D + m + lead
    BY <1>2, <2>1, <2>3, EndsLater
  <2>5. a * D + m + lead = t + lead /\ w.day * D = w.day * DayMinutes
    OBVIOUS
  <2>6. w.day = a \/ a + 1 <= w.day
    BY <1>2, <2>2
  <2>7. ASSUME w.day = a \/ lead <= w.end
        PROVE  w.day * DayMinutes + w.end > t + lead
    <3>1. w.day = a \/ (a + 1 <= w.day /\ lead <= w.end)
      BY <2>6, <2>7
    <3>2. w.day * D + w.end > a * D + m + lead
      BY <2>4, <3>1
    <3>3. w.day * D + w.end = w.day * DayMinutes + w.end
      BY <2>5
    <3> QED BY <2>5, <3>2, <3>3, Zenon
  <2> QED BY <2>7
<1>6. (w.start - c.open) % d = 0 <=> Windows!Aligned(c)
  <2>1. CASE o = c.open
    <3>1. Windows!Meet(h, c) => h.open <= c.open
      BY <1>1, <1>3, <2>1 DEF Windows!Better
    <3> QED BY <1>2, <2>1, <3>1 DEF Windows!Aligned, h
  <2>2. CASE o # c.open
    <3>1. Windows!Meet(h, c) /\ o = h.open /\ ~(h.open <= c.open)
      BY <1>1, <1>3, <2>2 DEF Windows!Better
    <3>2. Windows!Aligned(c) <=> (o - c.open) % d = 0
      BY <3>1 DEF Windows!Aligned, h
    <3>3. w.start - o \in Int /\ o - c.open \in Int
          /\ (w.start - o) + (o - c.open) = w.start - c.open
      BY <1>1, <1>2
    <3>4. (o - c.open) % d = 0 <=> ((w.start - o) + (o - c.open)) % d = 0
      BY <1>2, <3>3, MultiplesApart
    <3> QED BY <3>2, <3>3, <3>4
  <2> QED BY <2>1, <2>2
<1> QED BY <1>2, <1>3, <1>4, <1>5, <1>6 DEF h

LEMMA OffersAlwaysFit ==
    ASSUME LoadFits, hours \in OperatingHours, now \in Nat
    PROVE  Windows!OffersFit
<1> DEFINE h == Windows!ResolveHubHours(hub)
<1>1. \A w : w \in Windows!Windows(hours, now) <=> IsWindow(w, hours, now)
  BY WindowsAre
<1> SUFFICES ASSUME NEW w \in Windows!Windows(hours, now)
             PROVE  /\ w.day \notin hours.closed
                    /\ hours.open <= w.start /\ w.end <= hours.close
                    /\ Windows!Meet(h, hours) => h.open <= w.start /\ w.end <= h.close
                    /\ w.day = Windows!Today(now) \/ lead <= w.end =>
                          w.day * DayMinutes + w.end > now + lead
                    /\ \A v \in Windows!Windows(hours, now) \ {w} :
                          v.day = w.day => v.end <= w.start \/ w.end <= v.start
  BY DEF Windows!OffersFit
<1>2. IsWindow(w, hours, now)
  BY <1>1
<1>3. \A v \in Windows!Windows(hours, now) \ {w} :
         v.day = w.day => v.end <= w.start \/ w.end <= v.start
  BY <1>1, <1>2, WindowsApart
<1> HIDE DEF h
<1>4. /\ w.day \notin hours.closed
      /\ hours.open <= w.start /\ w.end <= hours.close
      /\ Windows!Meet(h, hours) => h.open <= w.start /\ w.end <= h.close
      /\ w.day = Windows!Today(now) \/ lead <= w.end => w.day * DayMinutes + w.end > now + lead
  BY <1>2, WindowFits DEF h
<1> QED BY <1>3, <1>4

-----------------------------------------------------------------------------
WindowSteps == {"idle", "offer", "choose", "rebuild", "found", "validate", "done"}
Preferences == {"TODAY", "TOMORROW", "SCHEDULED"}
Results == {"accepted", "gone", "hours", "preference"}
OrNone(S) == S \cup {None}

WindowFrame ==
    [pc : WindowSteps, process : OrNone(Servers), config : OrNone(OperatingHours),
     fetched : BOOLEAN, at : Nat, window : OrNone(DayWindow), preference : OrNone(Preferences),
     offered : OrNone(OperatingHours), rebuilt : OrNone(OperatingHours),
     result : OrNone(Results)]

Reading(q) == q.pc \in {"offer", "rebuild", "validate"}

\* The window was among those of hours c at some moment before.
Had(q, c) == c # None /\ \E t \in 0..q.at : IsWindow(q.window, c, t)

\* ... of those that the preference allows.
Preferred(q) ==
    \E t \in 0..q.at :
        /\ IsWindow(q.window, q.offered, t)
        /\ Windows!SlotMatchesPreference(q.preference, q.window, Windows!Today(t))

\* What OfferedIsAccepted says of a request.
Judged(q) ==
    /\ q.result = "hours" /\ q.rebuilt = q.config => ~Windows!Aligned(q.config)
    /\ q.result = "gone" /\ q.offered = q.config =>
          q.window.day * DayMinutes + q.window.start < q.at + lead
    /\ q.result = "preference" =>
          q.window.day < Windows!Today(now) + (IF q.preference = "TOMORROW" THEN 1 ELSE 0)
    /\ q.result = "accepted" =>
          /\ Windows!InForce(q.config, q.at - CacheTtl)
          /\ q.window.day \notin q.config.closed
          /\ q.config.open <= q.window.start /\ q.window.end <= q.config.close
          /\ q.rebuilt = q.config => Windows!Aligned(q.config)

KnowsHours(q) ==
    /\ q.at <= now
    /\ q.config # None => Windows!InForce(q.config, q.at - CacheTtl)
    /\ Reading(q) => q.config # None /\ (q.fetched => Windows!InForce(q.config, q.at))
    /\ q.pc \in {"offer", "rebuild", "found", "validate"} => q.process \in Servers
    /\ q.pc \in {"choose", "rebuild", "found", "validate"} => q.offered # None /\ Preferred(q)
    /\ q.pc \in {"found", "validate"} => Had(q, q.rebuilt)
    /\ q.pc = "done" => q.config # None
    /\ q.pc # "done" => q.result = None
    /\ q.pc \notin {"idle", "offer"} => q.window \in DayWindow
    /\ Judged(q)

WindowTypeOK ==
    /\ LoadFits
    /\ hours \in OperatingHours
    /\ \A p \in Servers : hoursCache[p] # None =>
          /\ hoursCache[p].value \in OperatingHours
          /\ hoursCache[p].at \in 0..now
          /\ Windows!InForce(hoursCache[p].value, hoursCache[p].at)
    /\ now \in 0..MaxTime
    /\ pastHours \in Seq([config : OperatingHours, until : Nat])
    /\ windowRequest \in [Audience -> WindowFrame]

WindowsSound ==
    /\ WindowTypeOK
    /\ DOMAIN hoursCache = Servers
    /\ \A r \in Audience : KnowsHours(windowRequest[r])

LEMMA WindowsImply ==
    ASSUME WindowsSound
    PROVE  Windows!OfferedIsAccepted
<1>1. now \in Nat
  BY WindowsAssumption DEF WindowsSound, WindowTypeOK, Windows!ConstantsFit
<1>2. Windows!TypeOK
  BY DEF WindowsSound, WindowTypeOK, WindowFrame, WindowSteps, OrNone, Results,
         Windows!TypeOK
<1>3. Windows!OffersFit
  BY <1>1, OffersAlwaysFit DEF WindowsSound, WindowTypeOK
<1>4. \A r \in Audience : Judged(windowRequest[r])
  BY DEF WindowsSound, KnowsHours
<1> QED BY <1>2, <1>3, <1>4 DEF Windows!OfferedIsAccepted, Judged

LEMMA InitWindows ==
    ASSUME Windows!Init
    PROVE  WindowsSound
<1>1. /\ LoadFits /\ hours \in OperatingHours /\ now = 0 /\ pastHours = <<>>
      /\ hoursCache = [p \in Servers |-> None]
      /\ windowRequest = [r \in Audience |-> Windows!Idle]
  BY DEF Windows!Init, LoadFits
<1>2. Windows!Idle \in WindowFrame
  BY DEF Windows!Idle, WindowFrame, WindowSteps, OrNone
<1>3. KnowsHours(Windows!Idle)
  BY <1>1, WindowsAssumption
     DEF KnowsHours, Judged, Reading, Windows!Idle, Windows!ConstantsFit
<1>4. WindowTypeOK
  BY <1>1, <1>2, WindowsAssumption DEF WindowTypeOK, Windows!ConstantsFit
<1> QED BY <1>1, <1>3, <1>4 DEF WindowsSound

\* Time passes and hours are given up: what was in force by then stays so.
Later ==
    /\ hub' = hub /\ lead' = lead
    /\ now \in Nat /\ now' \in Nat /\ now <= now'
    /\ \A c \in OperatingHours, s \in Int :
          s <= now /\ Windows!InForce(c, s) => Windows!InForce(c, s)'

LEMMA HadStays ==
    ASSUME hub' = hub, lead' = lead, NEW w, NEW c, NEW t
    PROVE  IsWindow(w, c, t)' <=> IsWindow(w, c, t)
BY DEF IsWindow, HoursOf, Windows!ResolveHubHours, Windows!ResolveEffectiveHours,
       Windows!Better, Windows!Worse, Windows!Open, Windows!Today, Windows!Minute

LEMMA AlignedStays ==
    ASSUME hub' = hub, NEW c
    PROVE  Windows!Aligned(c)' <=> Windows!Aligned(c)
BY DEF Windows!Aligned, Windows!Meet, Windows!ResolveHubHours

LEMMA KnowsLater ==
    ASSUME Later, NEW q \in WindowFrame, KnowsHours(q)
    PROVE  KnowsHours(q)'
<1>1. \A c, t : IsWindow(q.window, c, t)' <=> IsWindow(q.window, c, t)
  BY HadStays DEF Later
<1>2. \A c : Windows!Aligned(c)' <=> Windows!Aligned(c)
  BY AlignedStays DEF Later
<1>3. q.at \in Nat /\ q.at <= now /\ q.at <= now' /\ q.at - CacheTtl \in Int
      /\ q.at - CacheTtl <= now
  BY WindowsAssumption DEF KnowsHours, Later, WindowFrame, Windows!ConstantsFit
<1>4. q.config # None =>
         /\ Windows!InForce(q.config, q.at - CacheTtl)'
         /\ Windows!InForce(q.config, q.at) => Windows!InForce(q.config, q.at)'
  BY <1>3 DEF KnowsHours, Later, WindowFrame, OrNone
<1>5. q.offered # None /\ Preferred(q) => Preferred(q)'
  BY <1>1 DEF Preferred, Windows!SlotMatchesPreference, Windows!Today
<1>6. Had(q, q.rebuilt) => Had(q, q.rebuilt)'
  BY <1>1 DEF Had
<1>7. Judged(q)'
  <2>1. Windows!Today(now) \in Int /\ Windows!Today(now') \in Int
        /\ Windows!Today(now) <= Windows!Today(now')
    BY DaysFollow DEF Later
  <2>2. q.result = "preference" => q.window \in DayWindow
    BY WindowsAssumption DEF KnowsHours, WindowFrame, Windows!ConstantsFit
  <2>3. ASSUME q.result = "preference"
        PROVE  q.window.day < Windows!Today(now') + (IF q.preference = "TOMORROW" THEN 1 ELSE 0)
    <3>1. q.window.day < Windows!Today(now) + (IF q.preference = "TOMORROW" THEN 1 ELSE 0)
      BY <2>3 DEF KnowsHours, Judged
    <3>2. q.window.day \in Int
      BY <2>2, <2>3 DEF DayWindow
    <3> QED BY <2>1, <3>1, <3>2
  <2>4. q.result = "accepted" => Windows!InForce(q.config, q.at - CacheTtl)'
    BY <1>4, WindowsAssumption DEF KnowsHours, WindowFrame, Windows!ConstantsFit
  <2>5. Windows!Today(now)' = Windows!Today(now') /\ lead' = lead
    BY DEF Windows!Today, Later
  <2> QED BY <1>2, <2>3, <2>4, <2>5 DEF KnowsHours, Judged
<1> QED BY <1>3, <1>4, <1>5, <1>6, <1>7 DEF KnowsHours, Reading

\* Hours that a process keeps were in force when it asked for them.
Keepable(k) ==
    k # None => /\ k.value \in OperatingHours /\ k.at \in 0..now
                /\ Windows!InForce(k.value, k.at)

LEMMA FramesLater ==
    ASSUME WindowsSound, Later, windowRequest' \in [Audience -> WindowFrame],
           \A v \in Audience : KnowsHours(windowRequest'[v])
    PROVE  \A v \in Audience : KnowsHours(windowRequest[v])'
<1> SUFFICES ASSUME NEW v \in Audience
             PROVE  KnowsHours(windowRequest[v])'
  OBVIOUS
<1> PICK q \in WindowFrame : q = windowRequest'[v]
  OBVIOUS
<1>1. KnowsHours(q)'
  BY KnowsLater
<1> QED BY <1>1 DEF KnowsHours, Judged, Reading, Had, Preferred

LEMMA RequestStep ==
    ASSUME WindowsSound, NEW r \in Audience, NEW q \in WindowFrame, KnowsHours(q),
           windowRequest' = [windowRequest EXCEPT ![r] = q],
           UNCHANGED <<hours, hub, lead, now, pastHours>>,
           \/ UNCHANGED hoursCache
           \/ \E p \in Servers : \E k : Keepable(k) /\ hoursCache' = [hoursCache EXCEPT ![p] = k]
    PROVE  WindowsSound'
<1>1. /\ windowRequest' \in [Audience -> WindowFrame]
      /\ \A v \in Audience : KnowsHours(windowRequest'[v])
  BY DEF WindowsSound, WindowTypeOK
<1>2. now \in Nat /\ Later
  BY WindowsAssumption
     DEF WindowsSound, WindowTypeOK, Later, Windows!InForce, Windows!ConstantsFit
<1>3. \A v \in Audience : KnowsHours(windowRequest[v])'
  BY <1>1, <1>2, FramesLater
<1>4. DOMAIN hoursCache' = Servers /\ \A p \in Servers : Keepable(hoursCache'[p])
  BY DEF WindowsSound, WindowTypeOK, Keepable
<1>5. WindowTypeOK'
  <2>1. \A p \in Servers : Keepable(hoursCache[p])'
    BY <1>4 DEF Keepable, Windows!InForce
  <2> QED BY <1>1, <1>2, <2>1 DEF WindowsSound, WindowTypeOK, LoadFits, Keepable
<1> QED BY <1>3, <1>4, <1>5 DEF WindowsSound

LEMMA InForceBefore ==
    ASSUME WindowsSound, NEW c, NEW s \in Int, NEW t \in Int, s <= t, Windows!InForce(c, t)
    PROVE  Windows!InForce(c, s)
<1>1. \A k \in 1..Len(pastHours) : pastHours[k].until \in Nat
  <2>1. pastHours \in Seq([config : OperatingHours, until : Nat])
    BY DEF WindowsSound, WindowTypeOK
  <2>2. \A k \in 1..Len(pastHours) : pastHours[k] \in [config : OperatingHours, until : Nat]
    BY <2>1, ElementOfSeq
  <2> QED BY <2>2
<1> QED BY <1>1 DEF Windows!InForce

\* getConfig: the hours that a request is given.
LEMMA GivenHours ==
    ASSUME WindowsSound, NEW r \in Audience, NEW p \in Servers,
           NEW pc \in {"offer", "rebuild", "validate"},
           Windows!GetConfig(r, p, pc),
           windowRequest[r].pc = (CASE pc = "offer" -> "idle" [] pc = "rebuild" -> "choose"
                                    [] OTHER -> "found")
    PROVE  WindowsSound'
<1> PICK f \in WindowFrame : f = windowRequest[r] /\ KnowsHours(f)
  BY DEF WindowsSound, WindowTypeOK
<1> PICK c \in OperatingHours, b \in BOOLEAN :
       /\ c = (IF Windows!Fresh(p) THEN hoursCache[p].value ELSE hours)
       /\ b = ~Windows!Fresh(p)
  BY DEF WindowsSound, WindowTypeOK, Windows!Fresh
<1>1. now \in Nat /\ CacheTtl \in Nat /\ None \notin OperatingHours
  BY WindowsAssumption DEF WindowsSound, WindowTypeOK, Windows!ConstantsFit
<1>2. Windows!InForce(c, now - CacheTtl) /\ (b => Windows!InForce(c, now))
  <2>0. b <=> ~Windows!Fresh(p)
    BY Zenon
  <2>1. CASE Windows!Fresh(p)
    <3>1. /\ hoursCache[p].at \in Int /\ now - CacheTtl <= hoursCache[p].at
          /\ Windows!InForce(c, hoursCache[p].at)
      BY <1>1, <2>1 DEF WindowsSound, WindowTypeOK, Windows!Fresh
    <3>2. Windows!InForce(c, now - CacheTtl)
      BY <1>1, <3>1, InForceBefore
    <3> QED BY <2>0, <2>1, <3>2, Zenon
  <2>2. CASE ~Windows!Fresh(p)
    BY <2>2 DEF Windows!InForce
  <2> QED BY <2>1, <2>2
<1> DEFINE q == [f EXCEPT !.pc = pc, !.process = p, !.at = now, !.fetched = b, !.config = c]
<1>3. /\ windowRequest' = [windowRequest EXCEPT ![r] = q]
      /\ UNCHANGED <<hours, hoursCache, hub, lead, now, pastHours>>
  BY DEF Windows!GetConfig, Windows!Goto
<1>4. PICK g \in WindowFrame :
         /\ g = q /\ g.pc = pc /\ g.process = p /\ g.at = now /\ g.fetched = b /\ g.config = c
         /\ g.window = f.window /\ g.preference = f.preference /\ g.offered = f.offered
         /\ g.rebuilt = f.rebuilt /\ g.result = f.result
  <2>1. q \in WindowFrame
    <3>1. pc \in WindowSteps
      BY DEF WindowSteps
    <3>2. p \in OrNone(Servers) /\ c \in OrNone(OperatingHours) /\ now \in Nat
      BY <1>1 DEF OrNone
    <3>3. CASE b = TRUE
      BY <3>1, <3>2, <3>3 DEF WindowFrame
    <3>4. CASE b = FALSE
      BY <3>1, <3>2, <3>4 DEF WindowFrame
    <3> QED BY <3>3, <3>4
  <2>2. /\ q.pc = pc /\ q.process = p /\ q.at = now /\ q.fetched = b /\ q.config = c
        /\ q.window = f.window /\ q.preference = f.preference /\ q.offered = f.offered
        /\ q.rebuilt = f.rebuilt /\ q.result = f.result
    BY DEF WindowFrame
  <2> HIDE DEF q
  <2> QED BY <2>1, <2>2
<1> HIDE DEF q
<1>5. f.at <= now /\ f.at \in Nat /\ f.result = None
  BY DEF KnowsHours, WindowFrame
<1>6. f.pc # "idle" => Preferred(g) /\ f.offered # None
  BY <1>1, <1>4, <1>5 DEF KnowsHours, Preferred
<1>7. f.pc = "found" => Had(g, g.rebuilt)
  BY <1>1, <1>4, <1>5 DEF KnowsHours, Had
<1>8. Judged(g)
  BY <1>4, <1>5, WindowsAssumption DEF Judged, Windows!ConstantsFit
<1>9. KnowsHours(g)
  BY <1>1, <1>2, <1>4, <1>5, <1>6, <1>7, <1>8 DEF KnowsHours, Reading
<1> QED BY <1>3, <1>4, <1>9, RequestStep

LEMMA AskForOptionsKeeps ==
    ASSUME WindowsSound, NEW r \in Audience, NEW p \in Servers, Windows!AskForOptions(r, p)
    PROVE  WindowsSound'
BY GivenHours DEF Windows!AskForOptions, Windows!At

LEMMA PlaceOrderKeeps ==
    ASSUME WindowsSound, NEW r \in Audience, NEW p \in Servers, Windows!PlaceOrder(r, p)
    PROVE  WindowsSound'
BY GivenHours DEF Windows!PlaceOrder, Windows!At

LEMMA ReadHoursKeeps ==
    ASSUME WindowsSound, NEW r \in Audience, Windows!ReadHours(r)
    PROVE  WindowsSound'
<1>1. windowRequest[r].pc = "found" /\ windowRequest[r].process \in Servers
  BY DEF Windows!ReadHours, Windows!At, WindowsSound, KnowsHours
<1>2. Windows!GetConfig(r, windowRequest[r].process, "validate")
  BY DEF Windows!ReadHours
<1> QED BY <1>1, <1>2, GivenHours

\* What a request has read of the row may be kept.
LEMMA KeptHours ==
    ASSUME WindowsSound, NEW r \in Audience, Reading(windowRequest[r]), Windows!Keeps(r)
    PROVE  \/ UNCHANGED hoursCache
           \/ \E p \in Servers : \E k : Keepable(k) /\ hoursCache' = [hoursCache EXCEPT ![p] = k]
<1> PICK f \in WindowFrame : f = windowRequest[r] /\ KnowsHours(f)
  BY DEF WindowsSound, WindowTypeOK
<1>1. f.at \in 0..now /\ now \in Nat
  BY WindowsAssumption
     DEF KnowsHours, WindowFrame, WindowsSound, WindowTypeOK, Windows!ConstantsFit
<1>2. f.process \in Servers /\ f.config \in OperatingHours
  BY DEF KnowsHours, Reading, WindowFrame, OrNone
<1>3. CASE f.fetched
  <2> DEFINE k == [value |-> f.config, at |-> f.at]
  <2>1. Windows!InForce(f.config, f.at)
    BY <1>3 DEF KnowsHours, Reading
  <2>2. Keepable(k)
    BY <1>1, <1>2, <2>1 DEF Keepable
  <2>3. hoursCache' = [hoursCache EXCEPT ![f.process] = k]
    BY <1>3 DEF Windows!Keeps
  <2> QED BY <1>2, <2>2, <2>3
<1>4. CASE ~f.fetched
  BY <1>4 DEF Windows!Keeps
<1> QED BY <1>3, <1>4

LEMMA BuildOptionsKeeps ==
    ASSUME WindowsSound, NEW r \in Audience, Windows!BuildOptions(r)
    PROVE  WindowsSound'
<1> PICK f \in WindowFrame : f = windowRequest[r] /\ KnowsHours(f)
  BY DEF WindowsSound, WindowTypeOK
<1>1. f.pc = "offer" /\ f.config \in OperatingHours /\ f.at \in Nat /\ LoadFits
      /\ None \notin OperatingHours
  BY WindowsAssumption DEF Windows!BuildOptions, Windows!At, KnowsHours, Reading, WindowFrame,
                           OrNone, WindowsSound, WindowTypeOK, Windows!ConstantsFit
<1>2. PICK w \in Windows!Windows(f.config, f.at),
           preference \in {"TODAY", "TOMORROW", "SCHEDULED"} :
         /\ Windows!SlotMatchesPreference(preference, w, Windows!Today(f.at))
         /\ Windows!Goto(r, [f EXCEPT !.pc = "choose", !.window = w, !.preference = preference,
                                      !.offered = f.config, !.config = None])
  BY DEF Windows!BuildOptions
<1>3. IsWindow(w, f.config, f.at) /\ w \in DayWindow
  BY <1>1, WindowsAre DEF IsWindow
<1> DEFINE q == [f EXCEPT !.pc = "choose", !.window = w, !.preference = preference,
                          !.offered = f.config, !.config = None]
<1>4. PICK g \in WindowFrame :
         /\ g = q /\ g.pc = "choose" /\ g.at = f.at /\ g.config = None /\ g.window = w
         /\ g.preference = preference /\ g.offered = f.config /\ g.result = f.result
  <2>1. q \in WindowFrame
    <3>1. /\ "choose" \in WindowSteps /\ w \in OrNone(DayWindow)
          /\ preference \in OrNone(Preferences)
          /\ f.config \in OrNone(OperatingHours) /\ None \in OrNone(OperatingHours)
      BY <1>1, <1>3 DEF WindowSteps, OrNone, Preferences
    <3> QED BY <3>1 DEF WindowFrame
  <2>2. /\ q.pc = "choose" /\ q.at = f.at /\ q.config = None /\ q.window = w
        /\ q.preference = preference /\ q.offered = f.config /\ q.result = f.result
    BY DEF WindowFrame
  <2> HIDE DEF q
  <2> QED BY <2>1, <2>2
<1>5. windowRequest' = [windowRequest EXCEPT ![r] = g]
  BY <1>2, <1>4 DEF Windows!Goto
<1> HIDE DEF q
<1>6. f.at \in 0..f.at
  BY <1>1
<1>7. Preferred(g)
  BY <1>2, <1>3, <1>4, <1>6 DEF Preferred
<1>8. g.result = None /\ Judged(g)
  BY <1>1, <1>4, WindowsAssumption DEF KnowsHours, Judged, Windows!ConstantsFit
<1>9. KnowsHours(g)
  BY <1>1, <1>3, <1>4, <1>7, <1>8 DEF KnowsHours, Reading
<1>10. Reading(windowRequest[r]) /\ Windows!Keeps(r)
       /\ UNCHANGED <<hours, hub, lead, now, pastHours>>
  BY <1>1 DEF Windows!BuildOptions, Reading
<1> QED BY <1>5, <1>9, <1>10, KeptHours, RequestStep

\* A window that was there before and is not there under the same hours has
\* begun, or the load could not be there when it begins.
LEMMA GoneIsLate ==
    ASSUME LoadFits, NEW c \in OperatingHours, NEW t \in Nat, NEW u \in Nat, t <= u, NEW w,
           IsWindow(w, c, t), ~IsWindow(w, c, u)
    PROVE  w.day * DayMinutes + w.start < u + lead
<1> PICK D \in Nat \ {0} : D = DayMinutes
  BY WindowsAssumption DEF Windows!ConstantsFit
<1> PICK a \in Int, b \in Int : a = Windows!Today(t) /\ b = Windows!Today(u) /\ a <= b
  BY DaysFollow
<1> PICK m \in Nat : m = Windows!Minute(u) /\ m < D /\ u = b * D + m
  BY DaysFollow
<1>1. lead \in Nat /\ Horizon \in Nat
  BY WindowsAssumption DEF LoadFits, Windows!ConstantsFit
<1>2. PICK d \in Int, s \in Int, e \in Int :
         /\ w \in DayWindow /\ d = w.day /\ s = w.start /\ e = w.end
         /\ d \in a..(a + Horizon - 1) /\ s < D /\ s < e
  <2>1. /\ w \in DayWindow /\ w.day \in a..(a + Horizon - 1)
        /\ w.end <= HoursOf(c).close /\ w.end = w.start + c.duration
    BY DEF IsWindow
  <2>2. /\ HoursOf(c).close \in Nat /\ c.duration \in Nat \ {0} /\ c.close \in Nat
        /\ HoursOf(c).close <= c.close /\ c.close <= D
    BY HoursFit
  <2>3. w.day \in Int /\ w.start \in Int /\ w.end \in Int
    BY <2>1 DEF DayWindow
  <2> QED BY <2>1, <2>2, <2>3
<1>3. (d = b /\ s < m + lead) \/ d + 1 <= b
  <2>1. CASE d \in b..(b + Horizon - 1)
    <3>1. d = b /\ ~Windows!Open(w, HoursOf(c), m)
      BY <1>2, <2>1 DEF IsWindow
    <3> QED BY <1>1, <1>2, <3>1 DEF Windows!Open
  <2>2. CASE d \notin b..(b + Horizon - 1)
    BY <1>1, <1>2, <2>2
  <2> QED BY <2>1, <2>2
<1>4. CASE d = b /\ s < m + lead
  <2> PICK z \in Int : z = b * D
    OBVIOUS
  <2>1. z = w.day * DayMinutes /\ u = z + m
    BY <1>2, <1>4
  <2> QED BY <1>1, <1>2, <1>4, <2>1
<1>5. CASE d + 1 <= b
  <2>1. D * (d + 1) <= D * b
    BY <1>5, TimesMono
  <2>2. D * (d + 1) = d * D + D /\ D * b = b * D /\ d * D \in Int /\ b * D \in Int
    OBVIOUS
  <2> QED BY <1>1, <1>2, <2>1, <2>2
<1> QED BY <1>3, <1>4, <1>5

LEMMA FindSlotKeeps ==
    ASSUME WindowsSound, NEW r \in Audience, Windows!FindSlot(r)
    PROVE  WindowsSound'
<1> PICK f \in WindowFrame : f = windowRequest[r] /\ KnowsHours(f)
  BY DEF WindowsSound, WindowTypeOK
<1>1. /\ f.pc = "rebuild" /\ f.config \in OperatingHours /\ f.at \in Nat /\ LoadFits
      /\ f.process \in Servers /\ f.window \in DayWindow /\ f.result = None
      /\ f.offered # None /\ Preferred(f)
  BY DEF Windows!FindSlot, Windows!At, KnowsHours, Reading, WindowFrame, OrNone,
         WindowsSound, WindowTypeOK
<1>2. None \notin OperatingHours \cup {"accepted", "gone", "hours", "preference"}
  BY WindowsAssumption DEF Windows!ConstantsFit
<1>3. Reading(windowRequest[r]) /\ Windows!Keeps(r)
      /\ UNCHANGED <<hours, hub, lead, now, pastHours>>
  BY <1>1 DEF Windows!FindSlot, Reading
<1>4. CASE IsWindow(f.window, f.config, f.at)
  <2> DEFINE q == [f EXCEPT !.pc = "found", !.rebuilt = f.config, !.config = None]
  <2>1. Windows!Goto(r, q)
    BY <1>1, <1>4, WindowsAre DEF Windows!FindSlot
  <2>2. PICK g \in WindowFrame :
           /\ g = q /\ g.pc = "found" /\ g.at = f.at /\ g.config = None /\ g.window = f.window
           /\ g.preference = f.preference /\ g.offered = f.offered /\ g.result = f.result
           /\ g.rebuilt = f.config /\ g.process = f.process
    <3>1. q \in WindowFrame
      <4>1. "found" \in WindowSteps /\ {f.config, None} \subseteq OrNone(OperatingHours)
        BY <1>1 DEF WindowSteps, OrNone
      <4> QED BY <4>1 DEF WindowFrame
    <3>2. /\ q.pc = "found" /\ q.at = f.at /\ q.config = None /\ q.window = f.window
          /\ q.preference = f.preference /\ q.offered = f.offered /\ q.result = f.result
          /\ q.rebuilt = f.config /\ q.process = f.process
      BY DEF WindowFrame
    <3> HIDE DEF q
    <3> QED BY <3>1, <3>2
  <2>3. windowRequest' = [windowRequest EXCEPT ![r] = g]
    BY <2>1, <2>2 DEF Windows!Goto
  <2> HIDE DEF q
  <2>4. Preferred(g)
    BY <1>1, <2>2 DEF Preferred
  <2>5. f.at \in 0..f.at
    BY <1>1
  <2>6. Had(g, g.rebuilt)
    BY <1>1, <1>2, <1>4, <2>2, <2>5 DEF Had
  <2>7. Judged(g)
    BY <1>1, <1>2, <2>2 DEF Judged
  <2>8. KnowsHours(g)
    BY <1>1, <2>2, <2>4, <2>6, <2>7 DEF KnowsHours, Reading
  <2> QED BY <1>3, <2>3, <2>8, KeptHours, RequestStep
<1>5. CASE ~IsWindow(f.window, f.config, f.at)
  <2> DEFINE q == [f EXCEPT !.pc = "done", !.rebuilt = f.config, !.result = "gone"]
  <2>1. Windows!Goto(r, q)
    BY <1>1, <1>5, WindowsAre DEF Windows!FindSlot
  <2>2. PICK g \in WindowFrame :
           /\ g = q /\ g.pc = "done" /\ g.at = f.at /\ g.config = f.config
           /\ g.window = f.window /\ g.offered = f.offered /\ g.result = "gone"
    <3>1. q \in WindowFrame
      <4>1. /\ "done" \in WindowSteps /\ f.config \in OrNone(OperatingHours)
            /\ "gone" \in OrNone(Results)
        BY <1>1 DEF WindowSteps, OrNone, Results
      <4> QED BY <4>1 DEF WindowFrame
    <3>2. /\ q.pc = "done" /\ q.at = f.at /\ q.config = f.config
          /\ q.window = f.window /\ q.offered = f.offered /\ q.result = "gone"
      BY DEF WindowFrame
    <3> HIDE DEF q
    <3> QED BY <3>1, <3>2
  <2>3. windowRequest' = [windowRequest EXCEPT ![r] = g]
    BY <2>1, <2>2 DEF Windows!Goto
  <2> HIDE DEF q
  <2>4. f.offered = f.config => f.window.day * DayMinutes + f.window.start < f.at + lead
    <3> SUFFICES ASSUME f.offered = f.config
                 PROVE  f.window.day * DayMinutes + f.window.start < f.at + lead
      OBVIOUS
    <3>1. PICK t \in 0..f.at : IsWindow(f.window, f.config, t)
      BY <1>1 DEF Preferred
    <3> QED BY <1>1, <1>5, <3>1, GoneIsLate
  <2>5. Judged(g)
    BY <2>2, <2>4 DEF Judged
  <2>6. KnowsHours(g)
    BY <1>1, <1>2, <2>2, <2>5 DEF KnowsHours, Reading
  <2> QED BY <1>3, <2>3, <2>6, KeptHours, RequestStep
<1> QED BY <1>4, <1>5

LEMMA ValidateKeeps ==
    ASSUME WindowsSound, NEW r \in Audience, Windows!Validate(r)
    PROVE  WindowsSound'
<1> PICK f \in WindowFrame : f = windowRequest[r] /\ KnowsHours(f)
  BY DEF WindowsSound, WindowTypeOK
<1>1. /\ f.pc = "validate" /\ f.config \in OperatingHours /\ f.at \in Nat /\ f.at <= now
      /\ now \in Nat /\ LoadFits /\ f.window \in DayWindow
      /\ Preferred(f) /\ Had(f, f.rebuilt)
      /\ Windows!InForce(f.config, f.at - CacheTtl)
  BY WindowsAssumption DEF Windows!Validate, Windows!At, KnowsHours, Reading, WindowFrame,
                           OrNone, WindowsSound, WindowTypeOK, Windows!ConstantsFit
<1>2. None \notin OperatingHours \cup {"accepted", "gone", "hours", "preference"}
  BY WindowsAssumption DEF Windows!ConstantsFit
<1>3. Reading(windowRequest[r]) /\ Windows!Keeps(r)
      /\ UNCHANGED <<hours, hub, lead, now, pastHours>>
  BY <1>1 DEF Windows!Validate, Reading
<1>4. PICK result \in {"accepted", "hours", "preference"} :
         /\ result = (IF ~Windows!ValidateSlotAgainstOperatingRules(f.window, f.config)
                      THEN "hours"
                      ELSE IF ~Windows!SlotMatchesPreference(f.preference, f.window,
                                                             Windows!Today(now))
                      THEN "preference" ELSE "accepted")
         /\ Windows!Goto(r, [f EXCEPT !.pc = "done", !.result = result])
  BY DEF Windows!Validate
<1> DEFINE q == [f EXCEPT !.pc = "done", !.result = result]
<1>5. PICK g \in WindowFrame :
         /\ g = q /\ g.pc = "done" /\ g.at = f.at /\ g.config = f.config
         /\ g.window = f.window /\ g.preference = f.preference /\ g.rebuilt = f.rebuilt
         /\ g.result = result
  <2>1. q \in WindowFrame
    <3>1. "done" \in WindowSteps /\ result \in OrNone(Results)
      BY DEF WindowSteps, OrNone, Results
    <3> QED BY <3>1 DEF WindowFrame
  <2>2. /\ q.pc = "done" /\ q.at = f.at /\ q.config = f.config
        /\ q.window = f.window /\ q.preference = f.preference /\ q.rebuilt = f.rebuilt
        /\ q.result = result
    BY DEF WindowFrame
  <2> HIDE DEF q
  <2> QED BY <2>1, <2>2
<1>6. windowRequest' = [windowRequest EXCEPT ![r] = g]
  BY <1>4, <1>5 DEF Windows!Goto
<1> HIDE DEF q
<1>7. f.rebuilt = f.config =>
         /\ f.window.day \notin f.config.closed
         /\ f.config.open <= f.window.start /\ f.window.end <= f.config.close
         /\ f.window.end = f.window.start + f.config.duration
         /\ (f.window.start - f.config.open) % f.config.duration = 0
               <=> Windows!Aligned(f.config)
  <2> SUFFICES ASSUME f.rebuilt = f.config
               PROVE  /\ f.window.day \notin f.config.closed
                      /\ f.config.open <= f.window.start /\ f.window.end <= f.config.close
                      /\ f.window.end = f.window.start + f.config.duration
                      /\ (f.window.start - f.config.open) % f.config.duration = 0
                            <=> Windows!Aligned(f.config)
    OBVIOUS
  <2>1. PICK t \in 0..f.at : IsWindow(f.window, f.config, t)
    BY <1>1 DEF Had
  <2>2. t \in Nat
    BY <1>1
  <2> QED BY <1>1, <2>1, <2>2, WindowFits
<1>8. result = "hours" /\ f.rebuilt = f.config => ~Windows!Aligned(f.config)
  <2>1. f.window.start \in Int /\ f.config.duration \in Int
    BY <1>1, HoursFit DEF DayWindow
  <2> QED BY <1>4, <1>7, <2>1 DEF Windows!ValidateSlotAgainstOperatingRules
<1>9. result = "preference" =>
         f.window.day < Windows!Today(now) + (IF f.preference = "TOMORROW" THEN 1 ELSE 0)
  <2> SUFFICES ASSUME result = "preference"
               PROVE  f.window.day
                         < Windows!Today(now) + (IF f.preference = "TOMORROW" THEN 1 ELSE 0)
    OBVIOUS
  <2>1. PICK t \in 0..f.at :
           Windows!SlotMatchesPreference(f.preference, f.window, Windows!Today(t))
    BY <1>1 DEF Preferred
  <2>2. t \in Nat /\ t <= now
    BY <1>1
  <2>3. PICK a \in Int, b \in Int : a = Windows!Today(t) /\ b = Windows!Today(now) /\ a <= b
    BY <1>1, <2>2, DaysFollow
  <2>4. ~Windows!SlotMatchesPreference(f.preference, f.window, b)
    BY <1>4, <2>3
  <2>5. f.window.day \in Int
    BY <1>1 DEF DayWindow
  <2>6. CASE f.preference = "TODAY"
    BY <2>1, <2>3, <2>4, <2>5, <2>6 DEF Windows!SlotMatchesPreference
  <2>7. CASE f.preference = "TOMORROW"
    BY <2>1, <2>3, <2>4, <2>5, <2>7 DEF Windows!SlotMatchesPreference
  <2>8. CASE f.preference \notin {"TODAY", "TOMORROW"}
    <3>1. f.window.day < b
      BY <2>4, <2>3, <2>5, <2>8 DEF Windows!SlotMatchesPreference
    <3> QED BY <2>3, <2>5, <2>8, <3>1
  <2> QED BY <2>6, <2>7, <2>8
<1>10. result = "accepted" =>
         /\ f.window.day \notin f.config.closed
         /\ f.config.open <= f.window.start /\ f.window.end <= f.config.close
         /\ f.rebuilt = f.config => Windows!Aligned(f.config)
  BY <1>4, <1>7 DEF Windows!ValidateSlotAgainstOperatingRules
<1>11. Judged(g)
  BY <1>1, <1>4, <1>5, <1>8, <1>9, <1>10 DEF Judged
<1>12. KnowsHours(g)
  BY <1>1, <1>2, <1>5, <1>11 DEF KnowsHours, Reading
<1> QED BY <1>3, <1>6, <1>12, KeptHours, RequestStep

\* An administrator's edit: the hours given up are in force until now.
LEMMA UpdateConfigKeeps ==
    ASSUME WindowsSound, NEW p \in Servers, Windows!UpdateConfig(p)
    PROVE  WindowsSound'
<1>1. PICK c \in OperatingHours :
         hours' = c /\ pastHours' = Append(pastHours, [config |-> hours, until |-> now])
  BY DEF Windows!UpdateConfig
<1>2. hoursCache' = [hoursCache EXCEPT ![p] = None] /\ UNCHANGED <<hub, lead, now, windowRequest>>
  BY DEF Windows!UpdateConfig
<1>3. now \in Nat /\ LoadFits /\ hours \in OperatingHours
      /\ pastHours \in Seq([config : OperatingHours, until : Nat])
  BY WindowsAssumption DEF WindowsSound, WindowTypeOK, Windows!ConstantsFit
<1>4. /\ Len(pastHours') = Len(pastHours) + 1 /\ Len(pastHours) \in Nat
      /\ \A k \in 1..Len(pastHours) : pastHours'[k] = pastHours[k]
      /\ pastHours'[Len(pastHours) + 1] = [config |-> hours, until |-> now]
      /\ pastHours' \in Seq([config : OperatingHours, until : Nat])
  BY <1>1, <1>3
<1>5. ASSUME NEW d \in OperatingHours, NEW s \in Int, s <= now, Windows!InForce(d, s)
      PROVE  Windows!InForce(d, s)'
  <2>1. CASE hours = d
    <3>1. Len(pastHours) + 1 \in 1..Len(pastHours')
      BY <1>4
    <3>2. pastHours'[Len(pastHours) + 1].config = d /\ pastHours'[Len(pastHours) + 1].until >= s
      BY <1>3, <1>4, <1>5, <2>1
    <3> QED BY <3>1, <3>2 DEF Windows!InForce
  <2>2. ASSUME NEW k \in 1..Len(pastHours), pastHours[k].config = d, pastHours[k].until >= s
        PROVE  Windows!InForce(d, s)'
    <3>1. k \in 1..Len(pastHours') /\ pastHours'[k] = pastHours[k]
      BY <1>4
    <3> QED BY <2>2, <3>1 DEF Windows!InForce
  <2> QED BY <1>5, <2>1, <2>2 DEF Windows!InForce
<1>6. Later
  BY <1>2, <1>3, <1>5 DEF Later
<1>7. \A v \in Audience : KnowsHours(windowRequest[v])'
  BY <1>2, <1>6, FramesLater DEF WindowsSound, WindowTypeOK
<1>8. DOMAIN hoursCache' = Servers
  BY <1>2 DEF WindowsSound
<1>9. \A x \in Servers : Keepable(hoursCache[x])'
  <2> SUFFICES ASSUME NEW x \in Servers, hoursCache'[x] # None
               PROVE  Keepable(hoursCache[x])'
    BY DEF Keepable
  <2>1. hoursCache'[x] = hoursCache[x]
    BY <1>2 DEF WindowsSound
  <2> PICK k : k = hoursCache[x] /\ k # None
    BY <2>1
  <2>2. k.value \in OperatingHours /\ k.at \in 0..now /\ Windows!InForce(k.value, k.at)
    BY DEF WindowsSound, WindowTypeOK
  <2>3. Windows!InForce(k.value, k.at)'
    BY <1>3, <1>5, <2>2
  <2> QED BY <1>2, <2>1, <2>2, <2>3 DEF Keepable
<1>10. WindowTypeOK'
  BY <1>1, <1>2, <1>4, <1>9 DEF WindowsSound, WindowTypeOK, LoadFits, Keepable
<1> QED BY <1>7, <1>8, <1>10 DEF WindowsSound

LEMMA TickKeeps ==
    ASSUME WindowsSound, Windows!Tick
    PROVE  WindowsSound'
<1>1. /\ now \in Nat /\ now' = now + 1 /\ now' \in 0..MaxTime
      /\ UNCHANGED <<hours, hoursCache, hub, lead, pastHours, windowRequest>>
  BY WindowsAssumption DEF Windows!Tick, WindowsSound, WindowTypeOK, Windows!ConstantsFit
<1>2. Later
  BY <1>1 DEF Later, Windows!InForce
<1>3. \A v \in Audience : KnowsHours(windowRequest[v])'
  BY <1>1, <1>2, FramesLater DEF WindowsSound, WindowTypeOK
<1>4. WindowTypeOK'
  <2>1. \A k \in 0..now : k \in 0..now'
    BY <1>1
  <2> QED BY <1>1, <2>1 DEF WindowsSound, WindowTypeOK, LoadFits, Windows!InForce
<1> QED BY <1>1, <1>3, <1>4 DEF WindowsSound

LEMMA NextWindows ==
    ASSUME WindowsSound, Windows!Next
    PROVE  WindowsSound'
BY AskForOptionsKeeps, PlaceOrderKeeps, BuildOptionsKeeps, FindSlotKeeps, ReadHoursKeeps,
   ValidateKeeps, UpdateConfigKeeps, TickKeeps
   DEF Windows!Next

\* At rest the windows stay at nothing.
LEMMA WindowsRest ==
    ASSUME WindowsSound, UNCHANGED windowVars
    PROVE  WindowsSound'
<1>1. /\ hours' = hours /\ hoursCache' = hoursCache /\ hub' = hub /\ lead' = lead
      /\ now' = now /\ pastHours' = pastHours /\ windowRequest' = windowRequest
  BY DEF windowVars
<1>2. Later
  BY <1>1, WindowsAssumption
     DEF Later, Windows!InForce, WindowsSound, WindowTypeOK, Windows!ConstantsFit
<1>3. \A v \in Audience : KnowsHours(windowRequest[v])'
  BY <1>1, <1>2, FramesLater DEF WindowsSound, WindowTypeOK
<1>4. WindowTypeOK'
  BY <1>1 DEF WindowsSound, WindowTypeOK, LoadFits, Windows!InForce
<1> QED BY <1>1, <1>3, <1>4 DEF WindowsSound

(* A window that is found again is accepted under the same hours, unless the *)
(* hub opens in the middle of an operating window or midnight has turned the *)
(* preference; it is lost under the same hours only when its time has come;  *)
(* no process accepts by hours given up longer ago than it may keep them;    *)
(* and what is offered fits the hours and the load (placeOrder, getConfig,   *)
(* generateSlotWindowsForDate).                                              *)
THEOREM OfferedWindowsKept == PartsSpec => []OfferedIsAccepted
<1> DEFINE IInv == part = "windows" => WindowsSound
<1>1. PartsInit => IInv
  BY InitWindows DEF PartsInit
<1>2. IInv /\ [PartsNext]_<<part, vars, ownVars>> => IInv'
  <2> SUFFICES ASSUME IInv, [PartsNext]_<<part, vars, ownVars>>, part' = "windows"
               PROVE  WindowsSound'
    OBVIOUS
  <2>1. part = "windows" /\ WindowsSound
    BY DEF PartsNext
  <2>2. Windows!Next \/ UNCHANGED windowVars
    BY <2>1 DEF PartsNext, ownVars
  <2> HIDE DEF IInv
  <2> QED BY <2>1, <2>2, NextWindows, WindowsRest
<1>3. IInv => OfferedIsAccepted
  BY WindowsImply DEF OfferedIsAccepted
<1> HIDE DEF IInv
<1> QED BY <1>1, <1>2, <1>3, PTL DEF PartsSpec

-----------------------------------------------------------------------------
(* The vehicles.  The sums, the restrictions and the kinds that the load has   *)
(* come to are those of the lines so far (LoadIs); once the whole cart is      *)
(* loaded the load stays, and what is chosen is chosen for it.                 *)

\* The running totals of a sequence of amounts.
LEMMA TotalsExist ==
    ASSUME NEW n \in Nat, NEW g
    PROVE  \E u : u = [i \in 0..n |-> IF i = 0 THEN 0 ELSE u[i - 1] + g[i]]
<1> DEFINE Table(m, u) == u = [i \in 0..m |-> IF i = 0 THEN 0 ELSE u[i - 1] + g[i]]
           G == {m \in Nat : \E u : Table(m, u)}
<1>1. 0 \in G
  <2>1. Table(0, [i \in 0..0 |-> 0])
    OBVIOUS
  <2> QED BY <2>1
<1>2. ASSUME NEW m \in Nat, m \in G
      PROVE  m + 1 \in G
  <2>1. PICK u : Table(m, u)
    BY <1>2
  <2> DEFINE v == [i \in 0..(m + 1) |-> IF i = m + 1 THEN u[m] + g[m + 1] ELSE u[i]]
  <2>2. ASSUME NEW i \in 0..(m + 1)
        PROVE  v[i] = IF i = 0 THEN 0 ELSE v[i - 1] + g[i]
    <3>1. CASE i = m + 1
      BY <3>1
    <3>2. CASE i \in 0..m
      BY <2>1, <3>2
    <3> QED BY <3>1, <3>2
  <2>3. Table(m + 1, v)
    BY <2>2
  <2> HIDE DEF v, Table
  <2>4. \E w : Table(m + 1, w)
    BY <2>3
  <2> QED BY <2>4
<1> HIDE DEF G
<1>3. n \in G
  BY <1>1, <1>2, NumberInduction
<1> QED BY <1>3 DEF G

Weights(u) ==
    u = [i \in 0..Len(cart) |->
           IF i = 0 THEN 0
           ELSE u[i - 1] + Product[cart[i].product].weight * cart[i].quantity]
Volumes(u) ==
    u = [i \in 0..Len(cart) |->
           IF i = 0 THEN 0
           ELSE u[i - 1] + Product[cart[i].product].volume * cart[i].quantity]

LEMMA WeightTotal ==
    ASSUME Len(cart) \in Nat
    PROVE  \E u : Weights(u) /\ Vehicles!TotalWeight = u[Len(cart)]
<1> DEFINE w == CHOOSE u : Weights(u)
           g == [i \in 1..Len(cart) |-> Product[cart[i].product].weight * cart[i].quantity]
<1>1. PICK u : u = [i \in 0..Len(cart) |-> IF i = 0 THEN 0 ELSE u[i - 1] + g[i]]
  BY TotalsExist
<1>2. \A i \in 0..Len(cart) :
         (IF i = 0 THEN 0 ELSE u[i - 1] + g[i])
            = (IF i = 0 THEN 0
               ELSE u[i - 1] + Product[cart[i].product].weight * cart[i].quantity)
  OBVIOUS
<1>3. Weights(u)
  BY <1>1, <1>2 DEF Weights
<1>4. Weights(w)
  BY <1>3
<1>5. Vehicles!TotalWeight = w[Len(cart)]
  BY DEF Vehicles!TotalWeight, Vehicles!Sum, Weights
<1> QED BY <1>4, <1>5

LEMMA VolumeTotal ==
    ASSUME Len(cart) \in Nat
    PROVE  \E u : Volumes(u) /\ Vehicles!TotalVolume = u[Len(cart)]
<1> DEFINE w == CHOOSE u : Volumes(u)
           g == [i \in 1..Len(cart) |-> Product[cart[i].product].volume * cart[i].quantity]
<1>1. PICK u : u = [i \in 0..Len(cart) |-> IF i = 0 THEN 0 ELSE u[i - 1] + g[i]]
  BY TotalsExist
<1>2. \A i \in 0..Len(cart) :
         (IF i = 0 THEN 0 ELSE u[i - 1] + g[i])
            = (IF i = 0 THEN 0
               ELSE u[i - 1] + Product[cart[i].product].volume * cart[i].quantity)
  OBVIOUS
<1>3. Volumes(u)
  BY <1>1, <1>2 DEF Volumes
<1>4. Volumes(w)
  BY <1>3
<1>5. Vehicles!TotalVolume = w[Len(cart)]
  BY DEF Vehicles!TotalVolume, Vehicles!Sum, Volumes
<1> QED BY <1>4, <1>5

-----------------------------------------------------------------------------
NeedsOf(i) == Vehicles!Restriction(Product[cart[i].product])
KindOf(i) == Product[cart[i].product].kind

\* What the load is after n lines.
LoadIs(n) ==
    /\ load.weight \in Nat /\ load.volume \in Nat /\ load.quantity \in Nat
    /\ \A u : Weights(u) => load.weight = u[n]
    /\ \A u : Volumes(u) => load.volume = u[n]
    /\ load.weighed <=> load.weight > 0
    /\ load.measured <=> load.volume > 0
    /\ load.allowed = None => \A i \in 1..n : NeedsOf(i) = None
    /\ load.allowed # None =>
          /\ load.allowed \subseteq Vehicles!VehicleType
          /\ \A t \in Vehicles!VehicleType :
                t \in load.allowed <=> \A i \in 1..n : NeedsOf(i) # None => t \in NeedsOf(i)
    /\ load.kinds = {KindOf(i) : i \in 1..n} \ {None}

\* The administrators' restrictions fit the types of vehicles there are.
LEMMA CartFits ==
    ASSUME cart \in Carts
    PROVE  /\ Len(cart) \in Nat
           /\ \A i \in 1..Len(cart) :
                 /\ Vehicles!ProductFits(Product[cart[i].product])
                 /\ cart[i].quantity \in Nat \ {0}
                 /\ NeedsOf(i) = None \/ NeedsOf(i) \in SUBSET Vehicles!VehicleType
                 /\ KindOf(i) = "RMC" => NeedsOf(i) = {Mixer} /\ NeedsOf(i) # None
<1>1. cart \in Seq([product : DOMAIN Product, quantity : Nat \ {0}])
  BY VehiclesAssumption DEF Vehicles!ConstantsFit
<1>2. \A i \in 1..Len(cart) : cart[i] \in [product : DOMAIN Product, quantity : Nat \ {0}]
  BY <1>1, ElementOfSeq
<1>3. \A i \in 1..Len(cart) : Vehicles!ProductFits(Product[cart[i].product])
  BY <1>2, VehiclesAssumption DEF Vehicles!ConstantsFit
<1>4. /\ Mixer \in Vehicles!VehicleType
      /\ \A S \in SUBSET Vehicles!VehicleType : S # None
      /\ \A k \in DOMAIN ProfileOf : ProfileOf[k] \in SUBSET Vehicles!VehicleType
  BY VehiclesAssumption DEF Vehicles!ConstantsFit
<1>5. ASSUME NEW i \in 1..Len(cart)
      PROVE  /\ NeedsOf(i) = None \/ NeedsOf(i) \in SUBSET Vehicles!VehicleType
             /\ KindOf(i) = "RMC" => NeedsOf(i) = {Mixer} /\ NeedsOf(i) # None
  <2> PICK p : p = Product[cart[i].product]
    OBVIOUS
  <2>1. /\ p.kind \in DOMAIN ProfileOf \cup {None, "RMC"}
        /\ p.allowed # None => p.allowed \in SUBSET Vehicles!VehicleType
    BY <1>3 DEF Vehicles!ProductFits
  <2>2. {Mixer} \in SUBSET Vehicles!VehicleType /\ {Mixer} # None
    BY <1>4
  <2>3. NeedsOf(i) = Vehicles!Restriction(p) /\ KindOf(i) = p.kind
    BY DEF NeedsOf, KindOf
  <2>4. CASE p.kind = "RMC"
    BY <2>2, <2>3, <2>4 DEF Vehicles!Restriction
  <2>5. CASE p.kind # "RMC"
    BY <1>4, <2>1, <2>3, <2>5 DEF Vehicles!Restriction
  <2> QED BY <2>4, <2>5
<1> QED BY <1>1, <1>2, <1>3, <1>5

LEMMA PermitsAre ==
    ASSUME NEW t
    PROVE  Vehicles!Permits(t) <=>
              \A i \in 1..Len(cart) : NeedsOf(i) # None => t \in NeedsOf(i)
BY DEF Vehicles!Permits, NeedsOf

\* The whole cart is loaded.
AllLoaded == cart \in Carts /\ LoadIs(Len(cart))

LEMMA LoadedTotals ==
    ASSUME AllLoaded
    PROVE  load.weight = Vehicles!TotalWeight /\ load.volume = Vehicles!TotalVolume
<1>1. Len(cart) \in Nat
  BY CartFits DEF AllLoaded
<1> QED BY <1>1, WeightTotal, VolumeTotal DEF AllLoaded, LoadIs

LEMMA LoadedPermits ==
    ASSUME AllLoaded, NEW t
    PROVE  /\ load.allowed = None => Vehicles!Permits(t)
           /\ load.allowed # None /\ t \in load.allowed => Vehicles!Permits(t)
           /\ load.allowed # None /\ t \in Vehicles!VehicleType /\ Vehicles!Permits(t) =>
                 t \in load.allowed
BY PermitsAre DEF AllLoaded, LoadIs

\* A vehicle that passes the restrictions suits every line, and the other way round.
LEMMA LoadedSuits ==
    ASSUME AllLoaded, NEW t \in Vehicles!VehicleType, NEW v
    PROVE  Vehicles!PassesProductRestrictions(t, v) <=> Vehicles!Suits(t, v)
<1>1. /\ (load.allowed # None => t \in load.allowed) <=> Vehicles!Permits(t)
  BY LoadedPermits
<1>2. Vehicles!Permits(t) /\ "RMC" \in load.kinds => t = Mixer
  <2> SUFFICES ASSUME Vehicles!Permits(t), "RMC" \in load.kinds
               PROVE  t = Mixer
    OBVIOUS
  <2>1. PICK i \in 1..Len(cart) : KindOf(i) = "RMC"
    BY DEF AllLoaded, LoadIs
  <2>2. NeedsOf(i) = {Mixer} /\ NeedsOf(i) # None
    BY <2>1, CartFits DEF AllLoaded
  <2> QED BY <2>2, PermitsAre
<1>3. load.kinds \subseteq v.kinds <=>
         \A i \in 1..Len(cart) : Product[cart[i].product].kind \in v.kinds \cup {None}
  BY DEF AllLoaded, LoadIs, KindOf
<1> QED BY <1>1, <1>2, <1>3 DEF Vehicles!PassesProductRestrictions, Vehicles!Suits

-----------------------------------------------------------------------------
LEMMA CeilingIs ==
    ASSUME NEW a \in Nat \ {0}, NEW b \in Nat \ {0}
    PROVE  /\ Vehicles!Ceiling(a, b) \in Nat \ {0}
           /\ a <= Vehicles!Ceiling(a, b) * b
           /\ (Vehicles!Ceiling(a, b) - 1) * b < a
<1> PICK q \in Int, r \in Int :
       /\ q = (a + b - 1) \div b /\ r = (a + b - 1) % b
       /\ a + b - 1 = b * q + r /\ 0 <= r /\ r < b
  BY Quotient
<1>1. q = Vehicles!Ceiling(a, b)
  BY DEF Vehicles!Ceiling
<1>2. CASE q <= 0
  <2>1. b * q <= b * 0
    BY <1>2, TimesMono
  <2> QED BY <2>1
<1>3. q * b = b * q /\ (q - 1) * b = b * q - b
  OBVIOUS
<1> QED BY <1>1, <1>2, <1>3

-----------------------------------------------------------------------------
Selects(f, e) == Vehicles!SelectVehicleForLoad(f, e)

Permitted(f) ==
    {t \in Vehicles!Configured(f) : Vehicles!PassesProductRestrictions(t, f[t])}
Eligible(f) == {t \in Permitted(f) : Vehicles!CanCarry(f[t])}

Bulky(e) == e.bulkKg # None /\ load.weight >= e.bulkKg
Tiered(f) == Vehicles!Configured(f) = {} \/ ~(load.weighed \/ load.measured)

\* The branches of selectVehicleForLoad.
LEMMA Branches ==
    ASSUME NEW f, NEW e
    PROVE  /\ Bulky(e) => Selects(f, e) = {[mode |-> "BULK_QUOTE", type |-> None, count |-> 0]}
           /\ ~Bulky(e) /\ load.allowed = {} => Selects(f, e) = {Vehicles!Unavailable}
           /\ ~Bulky(e) /\ load.allowed # {} /\ Tiered(f) => Selects(f, e) = {Vehicles!Fallback(e)}
           /\ ~Bulky(e) /\ load.allowed # {} /\ ~Tiered(f) /\ Eligible(f) # {} =>
                 Selects(f, e) = {[mode |-> "CAPACITY", type |-> t, count |-> 1] :
                                     t \in Vehicles!First(f, Eligible(f))}
           /\ ~Bulky(e) /\ load.allowed # {} /\ ~Tiered(f) /\ Eligible(f) = {}
              /\ Permitted(f) = {} => Selects(f, e) = {Vehicles!Unavailable}
           /\ ~Bulky(e) /\ load.allowed # {} /\ ~Tiered(f) /\ Eligible(f) = {}
              /\ Permitted(f) # {} =>
                 Selects(f, e) = {Vehicles!Trips(t, Vehicles!RequiredVehicleCount(f[t]), e) :
                                     t \in Vehicles!Last(f, Permitted(f))}
<1> DEFINE P == Permitted(f)
           E == Eligible(f)
           S == Selects(f, e)
<1>1. S = IF Bulky(e) THEN {[mode |-> "BULK_QUOTE", type |-> None, count |-> 0]}
          ELSE IF load.allowed = {} THEN {Vehicles!Unavailable}
          ELSE IF Tiered(f) THEN {Vehicles!Fallback(e)}
          ELSE IF E # {}
            THEN {[mode |-> "CAPACITY", type |-> t, count |-> 1] : t \in Vehicles!First(f, E)}
          ELSE IF P = {} THEN {Vehicles!Unavailable}
          ELSE {Vehicles!Trips(t, Vehicles!RequiredVehicleCount(f[t]), e) :
                   t \in Vehicles!Last(f, P)}
  BY DEF Selects, Vehicles!SelectVehicleForLoad, Bulky, Tiered, Permitted, Eligible
<1> HIDE DEF S, P, E
<1>2. /\ Bulky(e) => S = {[mode |-> "BULK_QUOTE", type |-> None, count |-> 0]}
      /\ ~Bulky(e) /\ load.allowed = {} => S = {Vehicles!Unavailable}
      /\ ~Bulky(e) /\ load.allowed # {} /\ Tiered(f) => S = {Vehicles!Fallback(e)}
  BY <1>1, Zenon
<1>3. ~Bulky(e) /\ load.allowed # {} /\ ~Tiered(f) =>
         /\ E # {} => S = {[mode |-> "CAPACITY", type |-> t, count |-> 1] :
                              t \in Vehicles!First(f, E)}
         /\ E = {} /\ P = {} => S = {Vehicles!Unavailable}
         /\ E = {} /\ P # {} =>
               S = {Vehicles!Trips(t, Vehicles!RequiredVehicleCount(f[t]), e) :
                       t \in Vehicles!Last(f, P)}
  BY <1>1, Zenon
<1> QED BY <1>2, <1>3 DEF S, P, E

\* A set of numbered things has a first and a last one.
LEMMA RankedEnds ==
    ASSUME NEW S \in SUBSET Vehicles!VehicleType, S # {}
    PROVE  /\ \E u \in S : \A w \in S : Vehicles!Rank(u) <= Vehicles!Rank(w)
           /\ \E u \in S : \A w \in S : Vehicles!Rank(w) <= Vehicles!Rank(u)
<1> DEFINE n == Len(Ranked)
           I == {Vehicles!Rank(u) : u \in S}
           J == {n + 1 - i : i \in I}
<1>1. n \in Nat
  BY VehiclesAssumption DEF Vehicles!ConstantsFit
<1>2. \A u \in S : Vehicles!Rank(u) \in 1..n
  BY DEF Vehicles!Rank, Vehicles!VehicleType
<1> HIDE DEF n
<1>3. I \in SUBSET (1..n) /\ I # {}
  BY <1>2
<1>4. J \in SUBSET (1..n) /\ J # {}
  BY <1>1, <1>3
<1>5. PICK m \in I : \A k \in I : k <= m
  BY <1>1, <1>3, LargestExists
<1>6. PICK j \in J : \A k \in J : k <= j
  BY <1>1, <1>4, LargestExists
<1>7. PICK l \in I : j = n + 1 - l
  BY <1>6
<1>8. \A k \in I : l <= k
  <2> SUFFICES ASSUME NEW k \in I
               PROVE  l <= k
    OBVIOUS
  <2>1. n + 1 - k <= n + 1 - l
    BY <1>6, <1>7
  <2>2. k \in Int /\ l \in Int
    BY <1>3
  <2> QED BY <1>1, <2>1, <2>2
<1>9. \E u \in S : \A w \in S : Vehicles!Rank(w) <= Vehicles!Rank(u)
  BY <1>5
<1>10. \E u \in S : \A w \in S : Vehicles!Rank(u) <= Vehicles!Rank(w)
  BY <1>7, <1>8
<1> QED BY <1>9, <1>10

\* The tier of the quantity is one of the vehicles allowed.
LEMMA ClampIsAllowed ==
    ASSUME load.allowed # None, load.allowed # {},
           load.allowed \subseteq Vehicles!VehicleType, NEW t
    PROVE  Vehicles!ClampToAllowed(t) \in load.allowed
<1> DEFINE A == load.allowed
           above == {u \in A : Vehicles!Rank(u) >= Vehicles!Rank(t)}
<1>1. Vehicles!ClampToAllowed(t) =
         IF A = None \/ t \in A THEN t
         ELSE IF above # {}
              THEN CHOOSE u \in above : \A w \in above : Vehicles!Rank(u) <= Vehicles!Rank(w)
              ELSE CHOOSE u \in A : \A w \in A : Vehicles!Rank(w) <= Vehicles!Rank(u)
  BY DEF Vehicles!ClampToAllowed
<1>2. above \subseteq A /\ above \in SUBSET Vehicles!VehicleType
  OBVIOUS
<1>3. A # None /\ A # {} /\ A \in SUBSET Vehicles!VehicleType
  OBVIOUS
<1> HIDE DEF A, above
<1>4. CASE t \in A
  BY <1>1, <1>4 DEF A
<1>5. CASE t \notin A /\ above # {}
  <2>1. \E u \in above : \A w \in above : Vehicles!Rank(u) <= Vehicles!Rank(w)
    BY <1>2, <1>5, RankedEnds
  <2>2. (CHOOSE u \in above : \A w \in above : Vehicles!Rank(u) <= Vehicles!Rank(w)) \in above
    BY <2>1
  <2> QED BY <1>1, <1>2, <1>3, <1>5, <2>2 DEF A
<1>6. CASE t \notin A /\ above = {}
  <2>1. \E u \in A : \A w \in A : Vehicles!Rank(w) <= Vehicles!Rank(u)
    BY <1>3, RankedEnds
  <2>2. (CHOOSE u \in A : \A w \in A : Vehicles!Rank(w) <= Vehicles!Rank(u)) \in A
    BY <2>1
  <2> QED BY <1>1, <1>3, <1>6, <2>2 DEF A
<1> QED BY <1>4, <1>5, <1>6

\* What Sound says of a choice s made of the vehicles f.
Carries(s, f) ==
    Vehicles!Ok(s) =>
        /\ Vehicles!Permits(s.type)
        /\ s.mode # "QTY_TIER_FALLBACK" => f[s.type].active /\ Vehicles!Suits(s.type, f[s.type])
        /\ s.mode = "CAPACITY" =>
              /\ Vehicles!KnownToTake(f[s.type])
              /\ \A t \in Vehicles!VehicleType :
                    f[t].active /\ f[t].priority < f[s.type].priority
                    => ~(Vehicles!Suits(t, f[t]) /\ Vehicles!KnownToTake(f[t]))
        /\ s.mode = "MULTI_VEHICLE" =>
              Vehicles!Takes(s.count, f[s.type]) /\ ~Vehicles!Takes(s.count - 1, f[s.type])

LEMMA FallbackCarries ==
    ASSUME AllLoaded, load.allowed # {}, NEW e, NEW f
    PROVE  Carries(Vehicles!Fallback(e), f)
<1> DEFINE tier == Vehicles!ClampToAllowed(Vehicles!ResolveDeliveryVehicleForQuantity)
           liked == /\ load.preferred # None
                    /\ load.allowed = None \/ load.preferred \in load.allowed
                    /\ Vehicles!Rank(load.preferred) >= Vehicles!Rank(tier)
           t == IF liked THEN load.preferred ELSE tier
<1>1. Vehicles!Fallback(e) =
         IF load.allowed = None /\ (load.missing \/ ~e.fallback) THEN Vehicles!Unavailable
         ELSE [mode |-> "QTY_TIER_FALLBACK", type |-> t, count |-> 1]
  BY DEF Vehicles!Fallback
<1>2. load.allowed # None => t \in load.allowed
  BY ClampIsAllowed DEF AllLoaded, LoadIs
<1> HIDE DEF t
<1>3. Vehicles!Permits(t)
  BY <1>2, LoadedPermits
<1>4. CASE Vehicles!Fallback(e) = Vehicles!Unavailable
  BY <1>4 DEF Carries, Vehicles!Ok, Vehicles!Unavailable
<1>5. CASE Vehicles!Fallback(e) = [mode |-> "QTY_TIER_FALLBACK", type |-> t, count |-> 1]
  BY <1>3, <1>5 DEF Carries
<1> QED BY <1>1, <1>4, <1>5

LEMMA CarryIsKnown ==
    ASSUME AllLoaded, NEW v, Vehicles!VehicleFits(v)
    PROVE  Vehicles!CanCarry(v) <=> Vehicles!KnownToTake(v)
<1> PICK W \in Nat, V \in Nat :
       /\ W = load.weight /\ V = load.volume
       /\ W = Vehicles!TotalWeight /\ V = Vehicles!TotalVolume
  BY LoadedTotals DEF AllLoaded, LoadIs
<1>1. (load.weighed <=> W > 0) /\ (load.measured <=> V > 0)
  BY DEF AllLoaded, LoadIs
<1>2. Vehicles!CanCarry(v) <=>
         /\ W > 0 => v.weight # None /\ W <= v.weight
         /\ V > 0 => v.volume # None /\ V <= v.volume
  BY <1>1 DEF Vehicles!CanCarry
<1>3. Vehicles!KnownToTake(v) <=>
         /\ W > 0 => v.weight \notin {None, 0} /\ W <= 1 * v.weight
         /\ V > 0 => v.volume \notin {None, 0} /\ V <= 1 * v.volume
  BY DEF Vehicles!KnownToTake, Vehicles!Takes
<1>4. v.weight # None => v.weight \in Nat /\ 1 * v.weight = v.weight
  BY DEF Vehicles!VehicleFits
<1>5. v.volume # None => v.volume \in Nat /\ 1 * v.volume = v.volume
  BY DEF Vehicles!VehicleFits
<1>6. (W > 0 => v.weight # None /\ W <= v.weight) <=>
      (W > 0 => v.weight \notin {None, 0} /\ W <= 1 * v.weight)
  BY <1>4
<1>7. (V > 0 => v.volume # None /\ V <= v.volume) <=>
      (V > 0 => v.volume \notin {None, 0} /\ V <= 1 * v.volume)
  BY <1>5
<1> QED BY <1>2, <1>3, <1>6, <1>7, Zenon

LEMMA FirstCarries ==
    ASSUME AllLoaded, NEW f, Vehicles!FleetFits(f), load.weighed \/ load.measured,
           NEW t \in Vehicles!First(f, Eligible(f))
    PROVE  Carries([mode |-> "CAPACITY", type |-> t, count |-> 1], f)
<1>1. /\ t \in Vehicles!VehicleType /\ f[t].active
      /\ Vehicles!PassesProductRestrictions(t, f[t]) /\ Vehicles!CanCarry(f[t])
      /\ \A u \in Eligible(f) : f[t].priority <= f[u].priority
  BY DEF Vehicles!First, Eligible, Permitted, Vehicles!Configured
<1>2. \A u \in Vehicles!VehicleType : Vehicles!VehicleFits(f[u]) /\ f[u].priority \in Nat
  BY DEF Vehicles!FleetFits, Vehicles!VehicleFits
<1>3. Vehicles!Suits(t, f[t]) /\ Vehicles!Permits(t) /\ Vehicles!KnownToTake(f[t])
  BY <1>1, <1>2, LoadedSuits, CarryIsKnown DEF Vehicles!Suits
<1>4. ASSUME NEW u \in Vehicles!VehicleType, f[u].active, f[u].priority < f[t].priority,
             Vehicles!Suits(u, f[u]), Vehicles!KnownToTake(f[u])
      PROVE  FALSE
  <2>1. Vehicles!PassesProductRestrictions(u, f[u]) /\ Vehicles!CanCarry(f[u])
    BY <1>2, <1>4, LoadedSuits, CarryIsKnown
  <2>2. f[u].weight # None \/ f[u].volume # None
    BY <2>1 DEF Vehicles!CanCarry
  <2>3. u \in Eligible(f)
    BY <1>4, <2>1, <2>2 DEF Eligible, Permitted, Vehicles!Configured
  <2> QED BY <1>1, <1>2, <1>4, <2>3
<1> QED BY <1>1, <1>3, <1>4 DEF Carries

\* The trips are enough, and one fewer would not be.
LEMMA CountTakes ==
    ASSUME AllLoaded, NEW v, Vehicles!VehicleFits(v),
           NEW n, n = Vehicles!RequiredVehicleCount(v), ~(n <= 1)
    PROVE  Vehicles!Takes(n, v) /\ ~Vehicles!Takes(n - 1, v)
<1> PICK W \in Nat, V \in Nat :
       /\ W = load.weight /\ V = load.volume
       /\ W = Vehicles!TotalWeight /\ V = Vehicles!TotalVolume
  BY LoadedTotals DEF AllLoaded, LoadIs
<1> DEFINE w == v.weight
           c == v.volume
           heavy == W > 0 /\ w \notin {None, 0}
           large == V > 0 /\ c \notin {None, 0}
           a == IF heavy THEN Vehicles!Ceiling(W, w) ELSE 0
           b == IF large THEN Vehicles!Ceiling(V, c) ELSE 0
<1>1. (load.weighed <=> W > 0) /\ (load.measured <=> V > 0)
  BY DEF AllLoaded, LoadIs
<1>2. n = Vehicles!Better(a, b)
  <2>1. a = IF load.weighed /\ w # None /\ w # 0 THEN Vehicles!Ceiling(load.weight, w) ELSE 0
    BY <1>1
  <2>2. b = IF load.measured /\ c # None /\ c # 0 THEN Vehicles!Ceiling(load.volume, c) ELSE 0
    BY <1>1
  <2> HIDE DEF a, b
  <2> QED BY <2>1, <2>2 DEF Vehicles!RequiredVehicleCount
<1>3. Vehicles!Takes(n, v) <=> (heavy => W <= n * w) /\ (large => V <= n * c)
  BY DEF Vehicles!Takes
<1>4. Vehicles!Takes(n - 1, v) <=> (heavy => W <= (n - 1) * w) /\ (large => V <= (n - 1) * c)
  BY DEF Vehicles!Takes
<1>5. heavy => W \in Nat \ {0} /\ w \in Nat \ {0}
  BY DEF Vehicles!VehicleFits
<1>6. large => V \in Nat \ {0} /\ c \in Nat \ {0}
  BY DEF Vehicles!VehicleFits
<1> HIDE DEF w, c, heavy, large
<1>7. /\ a \in Nat /\ heavy => W <= a * w /\ (a - 1) * w < W
      /\ ~heavy => a = 0
  BY <1>5, CeilingIs
<1>8. /\ b \in Nat /\ large => V <= b * c /\ (b - 1) * c < V
      /\ ~large => b = 0
  BY <1>6, CeilingIs
<1>9. a \in Nat /\ b \in Nat
  BY <1>5, <1>6, CeilingIs
<1> HIDE DEF a, b
<1>10. n \in Nat /\ a <= n /\ b <= n /\ (n = a \/ n = b)
  BY <1>2, <1>9 DEF Vehicles!Better
<1>11. heavy => W <= n * w
  <2> SUFFICES ASSUME heavy
               PROVE  W <= n * w
    OBVIOUS
  <2>1. w * a <= w * n
    BY <1>5, <1>9, <1>10, TimesMono
  <2>2. w * a = a * w /\ w * n = n * w /\ w * a \in Int /\ w * n \in Int
    BY <1>5, <1>9, <1>10
  <2> QED BY <1>7, <1>9, <2>1, <2>2
<1>12. large => V <= n * c
  <2> SUFFICES ASSUME large
               PROVE  V <= n * c
    OBVIOUS
  <2>1. c * b <= c * n
    BY <1>6, <1>9, <1>10, TimesMono
  <2>2. c * b = b * c /\ c * n = n * c /\ c * b \in Int /\ c * n \in Int
    BY <1>6, <1>9, <1>10
  <2> QED BY <1>8, <1>9, <2>1, <2>2
<1>13. ~Vehicles!Takes(n - 1, v)
  <2>1. CASE n = a
    <3>1. heavy /\ (n - 1) * w < W
      BY <1>7, <1>9, <2>1
    <3>2. (n - 1) * w \in Int
      BY <1>5, <1>10, <3>1
    <3> QED BY <1>4, <3>1, <3>2
  <2>2. CASE n = b
    <3>1. large /\ (n - 1) * c < V
      BY <1>8, <1>9, <2>2
    <3>2. (n - 1) * c \in Int
      BY <1>6, <1>10, <3>1
    <3> QED BY <1>4, <3>1, <3>2
  <2> QED BY <1>10, <2>1, <2>2
<1> QED BY <1>3, <1>11, <1>12, <1>13

LEMMA LastCarries ==
    ASSUME AllLoaded, NEW f, Vehicles!FleetFits(f), NEW e,
           NEW t \in Vehicles!Last(f, Permitted(f))
    PROVE  Carries(Vehicles!Trips(t, Vehicles!RequiredVehicleCount(f[t]), e), f)
<1> PICK n : n = Vehicles!RequiredVehicleCount(f[t])
  OBVIOUS
<1>1. /\ t \in Vehicles!VehicleType /\ f[t].active
      /\ Vehicles!PassesProductRestrictions(t, f[t])
  BY DEF Vehicles!Last, Permitted, Vehicles!Configured
<1>2. Vehicles!Suits(t, f[t]) /\ Vehicles!Permits(t)
  BY <1>1, LoadedSuits DEF Vehicles!Suits
<1>3. CASE ~Vehicles!Ok(Vehicles!Trips(t, n, e))
  BY <1>3 DEF Carries
<1>4. CASE Vehicles!Ok(Vehicles!Trips(t, n, e))
  <2>1. /\ ~(n <= 1)
        /\ Vehicles!Trips(t, n, e) = [mode |-> "MULTI_VEHICLE", type |-> t, count |-> n]
    BY <1>4 DEF Vehicles!Trips, Vehicles!Ok, Vehicles!Unavailable
  <2>2. Vehicles!Takes(n, f[t]) /\ ~Vehicles!Takes(n - 1, f[t])
    BY <1>1, <2>1, CountTakes DEF Vehicles!FleetFits
  <2> QED BY <1>1, <1>2, <2>1, <2>2 DEF Carries
<1> QED BY <1>3, <1>4

LEMMA SelectedCarry ==
    ASSUME AllLoaded, NEW f, Vehicles!FleetFits(f), NEW e, NEW s \in Selects(f, e)
    PROVE  Carries(s, f)
<1>1. CASE Bulky(e)
  BY <1>1, Branches DEF Carries, Vehicles!Ok
<1>2. CASE ~Bulky(e) /\ load.allowed = {}
  BY <1>2, Branches DEF Carries, Vehicles!Ok, Vehicles!Unavailable
<1>3. CASE ~Bulky(e) /\ load.allowed # {} /\ Tiered(f)
  <2>1. s = Vehicles!Fallback(e)
    BY <1>3, Branches
  <2> QED BY <1>3, <2>1, FallbackCarries
<1>4. CASE ~Bulky(e) /\ load.allowed # {} /\ ~Tiered(f) /\ Eligible(f) # {}
  <2>1. PICK t \in Vehicles!First(f, Eligible(f)) :
           s = [mode |-> "CAPACITY", type |-> t, count |-> 1]
    BY <1>4, Branches
  <2> QED BY <1>4, <2>1, FirstCarries DEF Tiered
<1>5. CASE /\ ~Bulky(e) /\ load.allowed # {} /\ ~Tiered(f) /\ Eligible(f) = {}
           /\ Permitted(f) = {}
  BY <1>5, Branches DEF Carries, Vehicles!Ok, Vehicles!Unavailable
<1>6. CASE /\ ~Bulky(e) /\ load.allowed # {} /\ ~Tiered(f) /\ Eligible(f) = {}
           /\ Permitted(f) # {}
  <2>1. PICK t \in Vehicles!Last(f, Permitted(f)) :
           s = Vehicles!Trips(t, Vehicles!RequiredVehicleCount(f[t]), e)
    BY <1>6, Branches
  <2> QED BY <2>1, LastCarries
<1> QED BY <1>1, <1>2, <1>3, <1>4, <1>5, <1>6

-----------------------------------------------------------------------------
Split(e) == [e EXCEPT !.mode = "AUTO_SPLIT"]

\* What the estimate makes of its two selections.
Estimated(s, again) == IF Vehicles!Ok(s) THEN s ELSE again

LEMMA Agreement ==
    ASSUME NEW f, Vehicles!Distinct(f), Vehicles!FleetFits(f), NEW e \in Engines,
           NEW p \in Selects(f, e), p.type # None,
           NEW s \in Selects(f, Split(e)), NEW again \in Selects(f, e)
    PROVE  Estimated(s, again).type = p.type /\ Estimated(s, again).count = p.count
<1> PICK x : x = Split(e)
  OBVIOUS
<1>1. /\ x.mode = "AUTO_SPLIT" /\ x.fallback = e.fallback /\ x.bulkKg = e.bulkKg
      /\ e.mode \in {"AUTO_SPLIT", "BULK_QUOTE", "REJECT"}
  BY VehiclesAssumption DEF Vehicles!ConstantsFit, Split
<1>2. Bulky(x) <=> Bulky(e)
  BY <1>1 DEF Bulky
<1>3. \A S \in SUBSET Vehicles!Configured(f) :
         /\ \A t, u \in Vehicles!First(f, S) : t = u
         /\ \A t, u \in Vehicles!Last(f, S) : t = u
  <2> SUFFICES ASSUME NEW S \in SUBSET Vehicles!Configured(f)
               PROVE  /\ \A t, u \in Vehicles!First(f, S) : t = u
                      /\ \A t, u \in Vehicles!Last(f, S) : t = u
    OBVIOUS
  <2>1. \A t \in S : t \in Vehicles!Configured(f) /\ f[t].priority \in Nat
    BY DEF Vehicles!FleetFits, Vehicles!VehicleFits, Vehicles!Configured
  <2>2. \A t, u \in S : f[t].priority <= f[u].priority /\ f[u].priority <= f[t].priority => t = u
    BY <2>1 DEF Vehicles!Distinct
  <2> QED BY <2>2 DEF Vehicles!First, Vehicles!Last
<1>4. Permitted(f) \in SUBSET Vehicles!Configured(f) /\ Eligible(f) \in SUBSET Vehicles!Configured(f)
  BY DEF Permitted, Eligible
<1>5. s \in Selects(f, x)
  OBVIOUS
<1>6. CASE Bulky(e) \/ load.allowed = {}
  BY <1>6, Branches DEF Vehicles!Unavailable
<1>7. CASE ~Bulky(e) /\ load.allowed # {} /\ Tiered(f)
  <2>1. p = Vehicles!Fallback(e) /\ again = Vehicles!Fallback(e) /\ s = Vehicles!Fallback(x)
    BY <1>2, <1>5, <1>7, Branches
  <2>2. Vehicles!Fallback(x) = Vehicles!Fallback(e)
    BY <1>1 DEF Vehicles!Fallback
  <2> QED BY <2>1, <2>2 DEF Estimated
<1>8. CASE ~Bulky(e) /\ load.allowed # {} /\ ~Tiered(f) /\ Eligible(f) # {}
  <2>1. PICK t \in Vehicles!First(f, Eligible(f)) :
           p = [mode |-> "CAPACITY", type |-> t, count |-> 1]
    BY <1>8, Branches
  <2>2. PICK u \in Vehicles!First(f, Eligible(f)) :
           s = [mode |-> "CAPACITY", type |-> u, count |-> 1]
    BY <1>2, <1>5, <1>8, Branches
  <2>3. t = u
    BY <1>3, <1>4
  <2> QED BY <2>1, <2>2, <2>3 DEF Estimated, Vehicles!Ok
<1>9. CASE /\ ~Bulky(e) /\ load.allowed # {} /\ ~Tiered(f) /\ Eligible(f) = {}
           /\ Permitted(f) = {}
  BY <1>9, Branches DEF Vehicles!Unavailable
<1>10. CASE /\ ~Bulky(e) /\ load.allowed # {} /\ ~Tiered(f) /\ Eligible(f) = {}
            /\ Permitted(f) # {}
  <2>1. PICK t \in Vehicles!Last(f, Permitted(f)) :
           p = Vehicles!Trips(t, Vehicles!RequiredVehicleCount(f[t]), e)
    BY <1>10, Branches
  <2>2. PICK u \in Vehicles!Last(f, Permitted(f)) :
           s = Vehicles!Trips(u, Vehicles!RequiredVehicleCount(f[u]), x)
    BY <1>2, <1>5, <1>10, Branches
  <2>3. t = u
    BY <1>3, <1>4
  <2> PICK n : n = Vehicles!RequiredVehicleCount(f[t])
    OBVIOUS
  <2>4. p = Vehicles!Trips(t, n, e) /\ s = Vehicles!Trips(t, n, x)
    BY <2>1, <2>2, <2>3
  <2>5. ~(n <= 1) /\ p.type = t /\ p.count = n
    BY <1>1, <2>4 DEF Vehicles!Trips, Vehicles!Unavailable
  <2>6. s = [mode |-> "MULTI_VEHICLE", type |-> t, count |-> n]
    BY <1>1, <2>4, <2>5 DEF Vehicles!Trips
  <2> QED BY <2>5, <2>6 DEF Estimated, Vehicles!Ok
<1> QED BY <1>6, <1>7, <1>8, <1>9, <1>10

-----------------------------------------------------------------------------
\* A calculation has chosen for the vehicles and the settings it has read.
Chosen(c, q) ==
    \E s \in Selects(q.fleet, IF c = "price" THEN q.engine ELSE Split(q.engine)) :
        \E again \in Selects(q.fleet, q.engine) :
            q.result = IF Vehicles!Ok(s) \/ c = "price" THEN s ELSE again

IsChoice(q) ==
    q \in [pc : {q.pc}, engine : {q.engine}, fleet : {q.fleet}, result : {q.result}]

KnowsChoice(c, q) ==
    /\ IsChoice(q)
    /\ q.pc \in {"engine", "fleet", "done"}
    /\ q.pc # "engine" => Vehicles!Loaded
    /\ q.pc # "done" => q.fleet = None /\ q.result = Vehicles!Unavailable
    /\ q.pc = "fleet" => load.ok /\ q.engine \in Engines
    /\ q.pc = "done" =>
          \/ ~load.ok /\ q.result = Vehicles!Unavailable /\ q.fleet = None
          \/ load.ok /\ q.engine \in Engines /\ Vehicles!FleetFits(q.fleet) /\ Chosen(c, q)

VehiclesSound ==
    /\ cart \in Carts
    /\ goodsLine \in 1..(Len(cart) + 1)
    /\ IF load.ok THEN LoadIs(goodsLine - 1) ELSE load = [Vehicles!NoLoad EXCEPT !.ok = FALSE]
    /\ Vehicles!FleetFits(fleet) /\ engine \in Engines /\ edits \in 0..MaxFleetEdits
    /\ DOMAIN choice = Vehicles!Calculations
    /\ \A c \in Vehicles!Calculations : KnowsChoice(c, choice[c])

LEMMA VehiclesImply ==
    ASSUME VehiclesSound
    PROVE  Vehicles!SelectedCarries
<1>1. Vehicles!TypeOK
  <2>1. /\ load.weight \in Nat /\ load.volume \in Nat /\ load.quantity \in Nat
        /\ load.allowed = None \/ load.allowed \subseteq Vehicles!VehicleType
    <3>1. CASE load.ok
      BY <3>1 DEF VehiclesSound, LoadIs
    <3>2. CASE ~load.ok
      BY <3>2 DEF VehiclesSound, Vehicles!NoLoad
    <3> QED BY <3>1, <3>2
  <2> QED BY <2>1 DEF VehiclesSound, KnowsChoice, Vehicles!TypeOK
<1>2. ASSUME load.ok, Vehicles!Loaded
      PROVE  AllLoaded
  <2>1. Len(cart) \in Nat
    BY CartFits DEF VehiclesSound
  <2>2. goodsLine - 1 = Len(cart)
    BY <1>2, <2>1 DEF VehiclesSound, Vehicles!Loaded
  <2> QED BY <1>2, <2>2 DEF VehiclesSound, AllLoaded
<1>3. ASSUME NEW c \in Vehicles!Calculations, choice[c].pc = "done"
      PROVE  Vehicles!Sound(c)
  <2> PICK q : q = choice[c]
    OBVIOUS
  <2>1. q.pc = "done" /\ KnowsChoice(c, q)
    BY <1>3 DEF VehiclesSound
  <2>2. Vehicles!Sound(c) <=> Carries(q.result, q.fleet)
    BY DEF Vehicles!Sound, Carries
  <2>3. CASE q.result = Vehicles!Unavailable
    BY <2>2, <2>3 DEF Carries, Vehicles!Ok, Vehicles!Unavailable
  <2>4. CASE load.ok /\ Vehicles!FleetFits(q.fleet) /\ Chosen(c, q)
    <3>1. AllLoaded
      BY <1>2, <2>1, <2>4 DEF KnowsChoice
    <3>2. PICK e : q.result \in Selects(q.fleet, e)
      BY <2>4 DEF Chosen
    <3> QED BY <2>2, <2>4, <3>1, <3>2, SelectedCarry
  <2> QED BY <2>1, <2>3, <2>4 DEF KnowsChoice
<1>4. ASSUME choice["price"].pc = "done", choice["estimate"].pc = "done",
             choice["price"].engine = choice["estimate"].engine,
             choice["price"].fleet = choice["estimate"].fleet,
             choice["price"].fleet # None, Vehicles!Distinct(choice["price"].fleet),
             choice["price"].result.type # None
      PROVE  /\ choice["estimate"].result.type = choice["price"].result.type
             /\ choice["estimate"].result.count = choice["price"].result.count
  <2> PICK p, q : p = choice["price"] /\ q = choice["estimate"]
    OBVIOUS
  <2>1. KnowsChoice("price", p) /\ KnowsChoice("estimate", q)
    BY DEF VehiclesSound, Vehicles!Calculations
  <2>2. /\ p.engine \in Engines /\ Vehicles!FleetFits(p.fleet)
        /\ Chosen("price", p) /\ Chosen("estimate", q)
    BY <1>4, <2>1 DEF KnowsChoice
  <2>3. p.result \in Selects(p.fleet, p.engine)
    BY <2>2 DEF Chosen
  <2>4. PICK s \in Selects(q.fleet, Split(q.engine)), again \in Selects(q.fleet, q.engine) :
           q.result = Estimated(s, again)
    BY <2>2 DEF Chosen, Estimated
  <2>5. s \in Selects(p.fleet, Split(p.engine)) /\ again \in Selects(p.fleet, p.engine)
    BY <1>4, <2>4
  <2>6. p.result.type # None /\ Vehicles!Distinct(p.fleet)
    BY <1>4
  <2>7. q.result.type = p.result.type /\ q.result.count = p.result.count
    BY <2>2, <2>3, <2>4, <2>5, <2>6, Agreement
  <2> QED BY <2>7
<1> QED BY <1>1, <1>3, <1>4 DEF Vehicles!SelectedCarries

LEMMA InitVehicles ==
    ASSUME Vehicles!Init
    PROVE  VehiclesSound
<1>1. /\ cart \in Carts /\ goodsLine = 1 /\ load = Vehicles!NoLoad
      /\ Vehicles!FleetFits(fleet) /\ engine \in Engines /\ edits = 0
      /\ choice = [c \in Vehicles!Calculations |-> Vehicles!Waiting]
  BY VehiclesAssumption DEF Vehicles!Init, Vehicles!ConstantsFit
<1>2. Len(cart) \in Nat /\ MaxFleetEdits \in Nat
  BY <1>1, CartFits, VehiclesAssumption DEF Vehicles!ConstantsFit
<1>3. (\A u : Weights(u) => u[0] = 0) /\ (\A u : Volumes(u) => u[0] = 0)
  BY <1>2 DEF Weights, Volumes
<1>4. LoadIs(0)
  BY <1>1, <1>3 DEF LoadIs, Vehicles!NoLoad
<1>5. \A c \in Vehicles!Calculations : KnowsChoice(c, choice[c])
  BY <1>1 DEF KnowsChoice, IsChoice, Vehicles!Waiting
<1>6. load.ok /\ goodsLine - 1 = 0
  BY <1>1 DEF Vehicles!NoLoad
<1> QED BY <1>1, <1>2, <1>4, <1>5, <1>6 DEF VehiclesSound

-----------------------------------------------------------------------------
\* What is selected depends on the load alone.
LEMMA SelectsStay ==
    ASSUME load' = load, NEW f, NEW e
    PROVE  Selects(f, e)' = Selects(f, e)
BY DEF Selects, Vehicles!SelectVehicleForLoad, Vehicles!PassesProductRestrictions,
       Vehicles!CanCarry, Vehicles!RequiredVehicleCount, Vehicles!Fallback,
       Vehicles!ClampToAllowed, Vehicles!ResolveDeliveryVehicleForQuantity

LEMMA ChoiceStays ==
    ASSUME UNCHANGED <<cart, goodsLine, load>>, NEW c, NEW q, KnowsChoice(c, q)
    PROVE  KnowsChoice(c, q)'
<1>1. \A f, e : Selects(f, e)' = Selects(f, e)
  BY SelectsStay
<1>2. Chosen(c, q) => Chosen(c, q)'
  BY <1>1 DEF Chosen
<1>3. Vehicles!Loaded => Vehicles!Loaded'
  BY DEF Vehicles!Loaded
<1> QED BY <1>2, <1>3 DEF KnowsChoice, IsChoice

LEMMA CartStays ==
    ASSUME cart' = cart
    PROVE  /\ \A u : Weights(u)' <=> Weights(u)
           /\ \A u : Volumes(u)' <=> Volumes(u)
           /\ \A i : NeedsOf(i)' = NeedsOf(i) /\ KindOf(i)' = KindOf(i)
<1>1. \A u : Weights(u)' <=> Weights(u)
  BY DEF Weights
<1>2. \A u : Volumes(u)' <=> Volumes(u)
  BY DEF Volumes
<1>3. \A i : NeedsOf(i)' = NeedsOf(i) /\ KindOf(i)' = KindOf(i)
  BY DEF NeedsOf, KindOf, Vehicles!Restriction
<1> QED BY <1>1, <1>2, <1>3

LEMMA LoadStays ==
    ASSUME UNCHANGED <<cart, load>>, NEW n
    PROVE  LoadIs(n) => LoadIs(n)'
BY CartStays DEF LoadIs

LEMMA AddLineKeeps ==
    ASSUME VehiclesSound, Vehicles!AddLine
    PROVE  VehiclesSound'
<1> PICK i \in Nat \ {0}, n \in Nat : i = goodsLine /\ n = i - 1
  BY CartFits DEF VehiclesSound
<1> PICK p, m : p = Product[cart[i].product] /\ m = cart[i].quantity
  OBVIOUS
<1>1. /\ i \in 1..Len(cart) /\ Len(cart) \in Nat /\ load.ok /\ LoadIs(n) /\ cart \in Carts
  BY CartFits DEF VehiclesSound, Vehicles!AddLine
<1>2. p.weight \in Nat /\ p.volume \in Nat /\ m \in Nat \ {0}
  BY <1>1, CartFits DEF Vehicles!ProductFits
<1>3. /\ goodsLine' = i + 1 /\ cart' = cart
      /\ UNCHANGED <<fleet, engine, edits, choice>>
  BY DEF Vehicles!AddLine
<1>4. goodsLine' \in 1..(Len(cart') + 1)
  BY <1>1, <1>3
<1>5. \A c \in Vehicles!Calculations : KnowsChoice(c, choice[c])'
  <2>1. ~Vehicles!Loaded
    BY <1>1 DEF Vehicles!Loaded
  <2> SUFFICES ASSUME NEW c \in Vehicles!Calculations
               PROVE  KnowsChoice(c, choice[c])'
    OBVIOUS
  <2>2. KnowsChoice(c, choice[c]) /\ choice[c].pc = "engine"
    BY <2>1 DEF VehiclesSound, KnowsChoice
  <2> QED BY <1>3, <2>2 DEF KnowsChoice, IsChoice
<1>6. CASE ~p.transportable
  <2>1. load' = [Vehicles!NoLoad EXCEPT !.ok = FALSE]
    BY <1>6 DEF Vehicles!AddLine
  <2>2. ~load'.ok
    BY <2>1 DEF Vehicles!NoLoad
  <2> QED BY <1>1, <1>3, <1>4, <1>5, <2>1, <2>2 DEF VehiclesSound, Vehicles!NoLoad
<1>7. CASE p.transportable
  <2> PICK heavy \in BOOLEAN, large \in BOOLEAN, missing \in BOOLEAN :
         /\ heavy = (load.weighed \/ p.weight > 0)
         /\ large = (load.measured \/ p.volume > 0)
         /\ missing = (load.missing \/ (p.weight = 0 /\ p.volume = 0))
    OBVIOUS
  <2> PICK allowed, preferred, kinds :
         /\ allowed = Vehicles!IntersectVehicleTypes(load.allowed, Vehicles!Restriction(p))
         /\ preferred = (IF load.preferred = None THEN Vehicles!Preference(p)
                         ELSE load.preferred)
         /\ kinds = load.kinds \cup ({p.kind} \ {None})
    OBVIOUS
  <2>1. load' = [ok |-> TRUE, weight |-> load.weight + p.weight * m,
                 volume |-> load.volume + p.volume * m, quantity |-> load.quantity + m,
                 weighed |-> heavy, measured |-> large, allowed |-> allowed,
                 preferred |-> preferred, kinds |-> kinds, missing |-> missing]
    BY <1>7 DEF Vehicles!AddLine
  <2>2. /\ load'.ok /\ load'.weight = load.weight + p.weight * m
        /\ load'.volume = load.volume + p.volume * m /\ load'.quantity = load.quantity + m
        /\ load'.weighed = heavy /\ load'.measured = large
        /\ load'.allowed = allowed /\ load'.kinds = kinds
    BY <2>1
  <2>3. /\ load.weight \in Nat /\ load.volume \in Nat /\ load.quantity \in Nat
        /\ load.weighed <=> load.weight > 0
        /\ load.measured <=> load.volume > 0
    BY <1>1 DEF LoadIs
  <2>4. /\ p.weight * m \in Nat /\ p.volume * m \in Nat
        /\ p.weight > 0 <=> p.weight * m > 0
        /\ p.volume > 0 <=> p.volume * m > 0
    <3>1. ASSUME NEW a \in Nat, NEW b \in Nat \ {0}
          PROVE  a * b \in Nat /\ (a > 0 <=> a * b > 0)
      <4>1. CASE a = 0
        BY <4>1
      <4>2. CASE a >= 1
        <5>1. b * 1 <= b * a
          BY <4>2, TimesMono
        <5> QED BY <4>2, <5>1
      <4> QED BY <4>1, <4>2
    <3> QED BY <1>2, <3>1
  <2>5. load'.weight \in Nat /\ load'.volume \in Nat /\ load'.quantity \in Nat
    <3>1. \A x, y \in Nat : x + y \in Nat
      OBVIOUS
    <3>2. load.weight + p.weight * m \in Nat
      BY <2>3, <2>4, <3>1
    <3>3. load.volume + p.volume * m \in Nat
      BY <2>3, <2>4, <3>1
    <3>4. load.quantity + m \in Nat
      BY <1>2, <2>3, <3>1
    <3> QED BY <2>2, <3>2, <3>3, <3>4, Zenon
  <2>6. (heavy <=> load'.weight > 0) /\ (large <=> load'.volume > 0)
    <3>0. \A x, y \in Nat : x + y > 0 <=> x > 0 \/ y > 0
      OBVIOUS
    <3>1. load.weight + p.weight * m > 0 <=> load.weight > 0 \/ p.weight * m > 0
      BY <2>3, <2>4, <3>0
    <3>2. load.volume + p.volume * m > 0 <=> load.volume > 0 \/ p.volume * m > 0
      BY <2>3, <2>4, <3>0
    <3>3. heavy <=> load'.weight > 0
      BY <2>2, <2>3, <2>4, <3>1, Zenon
    <3>4. large <=> load'.volume > 0
      BY <2>2, <2>3, <2>4, <3>2, Zenon
    <3> QED BY <3>3, <3>4
  <2>7. \A u : Weights(u)' => load'.weight = u[i]
    <3> SUFFICES ASSUME NEW u, Weights(u)
                 PROVE  load'.weight = u[i]
      BY <1>3, CartStays
    <3>1. i \in 0..Len(cart) /\ i # 0 /\ i - 1 = n
      BY <1>1
    <3>2. u[i] = u[n] + p.weight * m
      BY <3>1 DEF Weights
    <3>3. load.weight = u[n]
      BY <1>1 DEF LoadIs
    <3> QED BY <2>2, <3>2, <3>3
  <2>8. \A u : Volumes(u)' => load'.volume = u[i]
    <3> SUFFICES ASSUME NEW u, Volumes(u)
                 PROVE  load'.volume = u[i]
      BY <1>3, CartStays
    <3>1. i \in 0..Len(cart) /\ i # 0 /\ i - 1 = n
      BY <1>1
    <3>2. u[i] = u[n] + p.volume * m
      BY <3>1 DEF Volumes
    <3>3. load.volume = u[n]
      BY <1>1 DEF LoadIs
    <3> QED BY <2>2, <3>2, <3>3
  <2>9. 1..i = (1..n) \cup {i}
    OBVIOUS
  <2>10. kinds = {KindOf(j) : j \in 1..i} \ {None}
    <3>1. load.kinds = {KindOf(j) : j \in 1..n} \ {None}
      BY <1>1 DEF LoadIs
    <3>2. {KindOf(j) : j \in 1..i} = {KindOf(j) : j \in 1..n} \cup {KindOf(i)}
      BY <2>9
    <3>3. KindOf(i) = p.kind
      BY DEF KindOf
    <3> QED BY <3>1, <3>2, <3>3
  <2>11. NeedsOf(i) = Vehicles!Restriction(p)
         /\ (NeedsOf(i) = None \/ NeedsOf(i) \in SUBSET Vehicles!VehicleType)
    BY <1>1, CartFits DEF NeedsOf
  <2>12. /\ allowed = None => \A j \in 1..i : NeedsOf(j) = None
         /\ allowed # None =>
               /\ allowed \subseteq Vehicles!VehicleType
               /\ \A t \in Vehicles!VehicleType :
                     t \in allowed <=> \A j \in 1..i : NeedsOf(j) # None => t \in NeedsOf(j)
    <3>1. \A S \in SUBSET Vehicles!VehicleType : S # None
      BY VehiclesAssumption DEF Vehicles!ConstantsFit
    <3>2. /\ load.allowed = None => \A j \in 1..n : NeedsOf(j) = None
          /\ load.allowed # None =>
                /\ load.allowed \subseteq Vehicles!VehicleType
                /\ \A t \in Vehicles!VehicleType :
                      t \in load.allowed <=> \A j \in 1..n : NeedsOf(j) # None => t \in NeedsOf(j)
      BY <1>1 DEF LoadIs
    <3>3. CASE load.allowed = None
      BY <2>9, <2>11, <3>2, <3>3 DEF Vehicles!IntersectVehicleTypes
    <3>4. CASE load.allowed # None /\ NeedsOf(i) = None
      BY <2>9, <2>11, <3>2, <3>4 DEF Vehicles!IntersectVehicleTypes
    <3>5. CASE load.allowed # None /\ NeedsOf(i) # None
      <4>1. allowed = load.allowed \cap NeedsOf(i)
        BY <2>11, <3>5 DEF Vehicles!IntersectVehicleTypes
      <4>2. allowed # None /\ allowed \subseteq Vehicles!VehicleType
        BY <3>1, <3>2, <3>5, <4>1
      <4>3. ASSUME NEW t \in Vehicles!VehicleType
            PROVE  t \in allowed <=> \A j \in 1..i : NeedsOf(j) # None => t \in NeedsOf(j)
        BY <2>9, <3>2, <3>5, <4>1
      <4> QED BY <4>2, <4>3
    <3> QED BY <3>3, <3>4, <3>5
  <2>13. LoadIs(i)'
    <3>1. \A j : NeedsOf(j)' = NeedsOf(j) /\ KindOf(j)' = KindOf(j)
      BY <1>3, CartStays
    <3>2. load'.kinds = {KindOf(j)' : j \in 1..i} \ {None}
      <4>1. {KindOf(j)' : j \in 1..i} = {KindOf(j) : j \in 1..i}
        BY <3>1
      <4> QED BY <2>2, <2>10, <4>1
    <3>3. /\ load'.allowed = None => \A j \in 1..i : NeedsOf(j)' = None
          /\ load'.allowed # None =>
                /\ load'.allowed \subseteq Vehicles!VehicleType
                /\ \A t \in Vehicles!VehicleType :
                      t \in load'.allowed
                         <=> \A j \in 1..i : NeedsOf(j)' # None => t \in NeedsOf(j)'
      BY <2>2, <2>12, <3>1
    <3>4. (load'.weighed <=> load'.weight > 0) /\ (load'.measured <=> load'.volume > 0)
      BY <2>2, <2>6
    <3> QED BY <2>5, <2>7, <2>8, <3>2, <3>3, <3>4 DEF LoadIs
  <2>14. LoadIs(goodsLine - 1)'
    <3>1. goodsLine' - 1 = i
      BY <1>3
    <3> QED BY <2>13, <3>1
  <2> QED BY <1>1, <1>3, <1>4, <1>5, <2>2, <2>14 DEF VehiclesSound
<1> QED BY <1>6, <1>7

\* A step that leaves the load alone.
LEMMA LoadedStep ==
    ASSUME VehiclesSound, UNCHANGED <<cart, goodsLine, load>>,
           Vehicles!FleetFits(fleet'), engine' \in Engines, edits' \in 0..MaxFleetEdits,
           DOMAIN choice' = Vehicles!Calculations,
           \A c \in Vehicles!Calculations : KnowsChoice(c, choice'[c])
    PROVE  VehiclesSound'
<1>1. \A c \in Vehicles!Calculations : KnowsChoice(c, choice[c])'
  <2> SUFFICES ASSUME NEW c \in Vehicles!Calculations
               PROVE  KnowsChoice(c, choice[c])'
    OBVIOUS
  <2> PICK q : q = choice'[c]
    OBVIOUS
  <2>1. KnowsChoice(c, q)'
    BY ChoiceStays
  <2> QED BY <2>1 DEF KnowsChoice, IsChoice, Chosen
<1>2. Vehicles!FleetFits(fleet)'
  BY DEF Vehicles!FleetFits, Vehicles!VehicleFits
<1>3. IF load'.ok THEN LoadIs(goodsLine - 1)' ELSE load' = [Vehicles!NoLoad EXCEPT !.ok = FALSE]
  <2> PICK n : n = goodsLine - 1
    OBVIOUS
  <2>1. LoadIs(n) => LoadIs(n)'
    BY LoadStays
  <2>2. LoadIs(n)' => LoadIs(goodsLine - 1)'
    BY DEF LoadIs
  <2>3. IF load.ok THEN LoadIs(n) ELSE load = [Vehicles!NoLoad EXCEPT !.ok = FALSE]
    BY DEF VehiclesSound
  <2> QED BY <2>1, <2>2, <2>3
<1> QED BY <1>1, <1>2, <1>3 DEF VehiclesSound, Vehicles!NoLoad

LEMMA GetEngineConfigKeeps ==
    ASSUME VehiclesSound, NEW c \in Vehicles!Calculations, Vehicles!GetEngineConfig(c)
    PROVE  VehiclesSound'
<1> PICK q : q = choice[c] /\ KnowsChoice(c, q)
  BY DEF VehiclesSound
<1>1. /\ Vehicles!Loaded /\ q.pc = "engine"
      /\ q.fleet = None /\ q.result = Vehicles!Unavailable /\ engine \in Engines
      /\ IsChoice(q)
  BY DEF Vehicles!GetEngineConfig, KnowsChoice, IsChoice, VehiclesSound
<1>2. PICK g : /\ g = (IF load.ok THEN [q EXCEPT !.pc = "fleet", !.engine = engine]
                       ELSE [q EXCEPT !.pc = "done"])
               /\ choice' = [choice EXCEPT ![c] = g]
  BY DEF Vehicles!GetEngineConfig
<1>3. KnowsChoice(c, g)
  <2>1. CASE load.ok
    <3>1. g = [q EXCEPT !.pc = "fleet", !.engine = engine]
      BY <1>2, <2>1
    <3>2. /\ IsChoice(g) /\ g.pc = "fleet" /\ g.engine = engine
          /\ g.fleet = q.fleet /\ g.result = q.result
      BY <1>1, <3>1 DEF IsChoice
    <3> QED BY <1>1, <2>1, <3>2 DEF KnowsChoice
  <2>2. CASE ~load.ok
    <3>1. g = [q EXCEPT !.pc = "done"]
      BY <1>2, <2>2
    <3>2. IsChoice(g) /\ g.pc = "done" /\ g.fleet = q.fleet /\ g.result = q.result
      BY <1>1, <3>1 DEF IsChoice
    <3> QED BY <1>1, <2>2, <3>2 DEF KnowsChoice
  <2> QED BY <2>1, <2>2
<1>4. UNCHANGED <<cart, goodsLine, load, fleet, engine, edits>>
  BY DEF Vehicles!GetEngineConfig
<1> QED BY <1>2, <1>3, <1>4, LoadedStep DEF VehiclesSound

LEMMA ListVehicleConfigsKeeps ==
    ASSUME VehiclesSound, NEW c \in Vehicles!Calculations, Vehicles!ListVehicleConfigs(c)
    PROVE  VehiclesSound'
<1> PICK q : q = choice[c] /\ KnowsChoice(c, q)
  BY DEF VehiclesSound
<1>1. /\ Vehicles!Loaded /\ load.ok /\ q.pc = "fleet" /\ q.engine \in Engines
      /\ IsChoice(q)
      /\ Vehicles!FleetFits(fleet)
  BY DEF Vehicles!ListVehicleConfigs, KnowsChoice, IsChoice, VehiclesSound
<1>2. PICK s \in Selects(fleet, IF c = "price" THEN q.engine ELSE Split(q.engine)),
           again \in Selects(fleet, q.engine) :
         choice' = [choice EXCEPT ![c] =
                      [q EXCEPT !.pc = "done", !.fleet = fleet,
                                !.result = IF Vehicles!Ok(s) \/ c = "price" THEN s ELSE again]]
  BY DEF Vehicles!ListVehicleConfigs, Selects, Split
<1> PICK r : r = (IF Vehicles!Ok(s) \/ c = "price" THEN s ELSE again)
  OBVIOUS
<1> PICK g : g = [q EXCEPT !.pc = "done", !.fleet = fleet, !.result = r]
  OBVIOUS
<1>3. /\ choice' = [choice EXCEPT ![c] = g]
      /\ IsChoice(g) /\ g.pc = "done" /\ g.engine = q.engine /\ g.fleet = fleet /\ g.result = r
  BY <1>1, <1>2 DEF IsChoice
<1>4. Chosen(c, g)
  BY <1>3 DEF Chosen
<1>5. KnowsChoice(c, g)
  BY <1>1, <1>3, <1>4 DEF KnowsChoice
<1>6. UNCHANGED <<cart, goodsLine, load, fleet, engine, edits>>
  BY DEF Vehicles!ListVehicleConfigs
<1> QED BY <1>3, <1>5, <1>6, LoadedStep DEF VehiclesSound

LEMMA EditKeeps ==
    ASSUME VehiclesSound,
           \/ \E t \in Vehicles!VehicleType : Vehicles!UpdateVehicleConfig(t)
           \/ Vehicles!UpdateEngineConfig
    PROVE  VehiclesSound'
<1>1. edits' \in 0..MaxFleetEdits /\ UNCHANGED <<cart, goodsLine, load, choice>>
  <2>1. edits \in 0..MaxFleetEdits /\ MaxFleetEdits \in Nat
    BY VehiclesAssumption DEF VehiclesSound, Vehicles!ConstantsFit
  <2>2. /\ edits < MaxFleetEdits /\ edits' = edits + 1
        /\ UNCHANGED <<cart, goodsLine, load, choice>>
    BY DEF Vehicles!UpdateVehicleConfig, Vehicles!UpdateEngineConfig
  <2> QED BY <2>1, <2>2
<1>2. engine' \in Engines
  BY DEF VehiclesSound, Vehicles!UpdateVehicleConfig, Vehicles!UpdateEngineConfig
<1>3. Vehicles!FleetFits(fleet')
  <2>1. CASE Vehicles!UpdateEngineConfig
    BY <2>1 DEF VehiclesSound, Vehicles!UpdateEngineConfig
  <2>2. ASSUME NEW t \in Vehicles!VehicleType, Vehicles!UpdateVehicleConfig(t)
        PROVE  Vehicles!FleetFits(fleet')
    <3>1. PICK v \in FleetRows : fleet' = [fleet EXCEPT ![t] = v]
      BY <2>2 DEF Vehicles!UpdateVehicleConfig
    <3>2. Vehicles!VehicleFits(v)
      BY VehiclesAssumption DEF Vehicles!ConstantsFit
    <3> QED BY <3>1, <3>2 DEF VehiclesSound, Vehicles!FleetFits
  <2> QED BY <2>1, <2>2
<1> QED BY <1>1, <1>2, <1>3, LoadedStep DEF VehiclesSound

LEMMA NextVehicles ==
    ASSUME VehiclesSound, Vehicles!Next
    PROVE  VehiclesSound'
BY AddLineKeeps, GetEngineConfigKeeps, ListVehicleConfigsKeeps, EditKeeps DEF Vehicles!Next

LEMMA VehiclesRest ==
    ASSUME VehiclesSound, UNCHANGED vehicleVars
    PROVE  VehiclesSound'
BY LoadedStep DEF vehicleVars, VehiclesSound

(* The vehicle chosen may carry every line of the cart; a single vehicle       *)
(* carries the whole load and no active vehicle of lower priority would have;  *)
(* several trips do it together and one fewer would not; and the vehicle that  *)
(* is priced and the one whose arrival is estimated are the same in the same   *)
(* number, if both read the same settings and vehicles (selectVehicleForLoad,  *)
(* selectVehicle, selectVehicleForEstimate).                                   *)
THEOREM SelectedVehicleCarries == PartsSpec => []SelectedCarries
<1> DEFINE IInv == part = "vehicles" => VehiclesSound
<1>1. PartsInit => IInv
  BY InitVehicles DEF PartsInit
<1>2. IInv /\ [PartsNext]_<<part, vars, ownVars>> => IInv'
  <2> SUFFICES ASSUME IInv, [PartsNext]_<<part, vars, ownVars>>, part' = "vehicles"
               PROVE  VehiclesSound'
    OBVIOUS
  <2>1. part = "vehicles" /\ VehiclesSound
    BY DEF PartsNext
  <2>2. Vehicles!Next \/ UNCHANGED vehicleVars
    BY <2>1 DEF PartsNext, ownVars
  <2> HIDE DEF IInv
  <2> QED BY <2>1, <2>2, NextVehicles, VehiclesRest
<1>3. IInv => SelectedCarries
  BY VehiclesImply DEF SelectedCarries
<1> HIDE DEF IInv
<1> QED BY <1>1, <1>2, <1>3, PTL DEF PartsSpec
==========================================================
