--------------------------- MODULE PaymentPromise ---------------------------
(***************************************************************************)
(* What the payment code promises about an online order, told without      *)
(* requests, rows or webhooks: the order is open until it is decided once; *)
(* it is confirmed only when the gateway holds money for it; a released    *)
(* order stays released, and a confirmed one can only be cancelled as a    *)
(* paid order, for which a refund is due.  OnlinePayment implements it.    *)
(***************************************************************************)

VARIABLES
    outcome,   \* what has been decided about the order
    funded     \* whether the gateway holds money for the order

vars == <<outcome, funded>>

Outcomes == {"OPEN", "CONFIRMED", "RELEASED", "CANCELLED_PAID"}

TypeOK == outcome \in Outcomes /\ funded \in BOOLEAN

Init == outcome = "OPEN" /\ funded = FALSE

Fund == funded' = TRUE /\ UNCHANGED outcome

Decide(from, to) == outcome = from /\ outcome' = to /\ UNCHANGED funded

Confirm    == funded /\ Decide("OPEN", "CONFIRMED")
Release    == Decide("OPEN", "RELEASED")
CancelPaid == Decide("CONFIRMED", "CANCELLED_PAID")

Next == Fund \/ Confirm \/ Release \/ CancelPaid

Spec == Init /\ [][Next]_vars
=============================================================================
