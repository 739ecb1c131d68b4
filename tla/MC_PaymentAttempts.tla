------------------------- MODULE MC_PaymentAttempts -------------------------
(***************************************************************************)
(* One run over three instances that have nothing to do with one another,  *)
(* of which a behaviour chooses one at the start and leaves the others at  *)
(* rest:                                                                   *)
(*   "rows"      two Razorpay orders for one order, one payment for each;  *)
(*   "attempts"  two payments of one Razorpay order;                       *)
(*   "choice"    the choice among the payments Razorpay lists.             *)
(***************************************************************************)
EXTENDS OnlinePayment, TLC

CONSTANTS MaxListed, MaxTime    \* bounds of AttemptChoice

ASSUME ListAssumption == MaxListed \in Nat /\ MaxTime \in Nat

OneRow == [m \in Attempts |-> 1]
RowEach == [m \in Attempts |-> IF m > MaxRows THEN MaxRows ELSE m]

VARIABLES part, attempts, best

Two == INSTANCE OnlinePayment WITH
           RowOf <- RowEach,
           Handlers <- {"verify", "reconcile", "createCheckout"}

Choice == INSTANCE AttemptChoice WITH MaxAttempts <- MaxListed

PartsInit ==
    /\ part \in {"rows", "attempts", "choice"}
    /\ Init
    /\ Choice!Init

PartsNext ==
    \/ part = "rows" /\ Two!Next /\ UNCHANGED <<part, attempts, best>>
    \/ part = "attempts" /\ Next /\ UNCHANGED <<part, attempts, best>>
    \/ part = "choice" /\ Choice!Next /\ UNCHANGED <<part, vars>>

PartsSpec == PartsInit /\ [][PartsNext]_<<part, vars, attempts, best>>

(* The loop of pickAuthoritativePayment ends with an attempt where the most  *)
(* money moved or, if none moved any, a newest one.                          *)
BestIsAuthoritative == Choice!BestIsAuthoritative
=============================================================================
