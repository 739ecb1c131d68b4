--------------------------- MODULE GatewayStatus ---------------------------
(***************************************************************************)
(* The vocabulary of the online-payment code: the statuses of a Payment    *)
(* row, the table of transitions between them, the states of an attempt at *)
(* the gateway (Razorpay) and the rule that picks, from the attempts on    *)
(* one Razorpay order, the one that decides.                               *)
(* src/modules/payments/razorpay.crypto.ts, and the status sets at the top *)
(* of payments.service.ts.                                                 *)
(***************************************************************************)
EXTENDS Integers

GatewayStatuses ==
    {"CREATED", "PENDING", "AUTHORIZED", "CAPTURED", "FAILED", "CANCELLED",
     "VERIFICATION_FAILED", "REFUNDED"}

Reusable == {"CREATED", "PENDING", "FAILED", "CANCELLED"}
Settled  == {"CAPTURED", "REFUNDED", "VERIFICATION_FAILED"}
InFlight == {"AUTHORIZED", "CAPTURED"}

\* The order's payment statuses that count as unpaid.
Unpaid == {"PENDING", "FAILED", "CANCELLED"}
PaymentStatuses == Unpaid \cup {"PAID"}

GatewayTransitions ==
    [s \in GatewayStatuses |->
        CASE s = "CREATED"    -> {"PENDING", "AUTHORIZED", "CAPTURED", "FAILED",
                                  "CANCELLED", "VERIFICATION_FAILED"}
          [] s = "PENDING"    -> {"AUTHORIZED", "CAPTURED", "FAILED",
                                  "CANCELLED", "VERIFICATION_FAILED"}
          [] s = "AUTHORIZED" -> {"CAPTURED", "FAILED", "REFUNDED"}
          [] s = "CAPTURED"   -> {"REFUNDED"}
          [] s = "FAILED"     -> {"PENDING", "AUTHORIZED", "CAPTURED", "CANCELLED"}
          [] s = "CANCELLED"  -> {"PENDING", "AUTHORIZED", "CAPTURED"}
          [] OTHER            -> {}]

CanTransition(from, to) == from = to \/ to \in GatewayTransitions[from]

-----------------------------------------------------------------------------
(* Attempts at the gateway. *)

AttemptStatuses == {"created", "authorized", "captured", "failed"}

MoneyStatuses == {"authorized", "captured"}

(* REMOTE_STATUS_PRIORITY: the weight of an attempt's status in that choice. *)
StatusPriority ==
    [captured |-> 4, authorized |-> 3, created |-> 2, failed |-> 1]

(* What pickAuthoritativePayment may return for a set of attempts: one where *)
(* the most money moved, or else the newest. (AttemptChoice checks that the  *)
(* loop of the code returns one of these for every order of its list.)       *)
Authoritative(S) ==
    LET moved == {a \in S : a.status \in MoneyStatuses}
    IN  IF moved # {}
        THEN {a \in moved : \A b \in moved :
                 StatusPriority[b.status] =< StatusPriority[a.status]}
        ELSE {a \in S : \A b \in S : b.createdAt =< a.createdAt}

=============================================================================
