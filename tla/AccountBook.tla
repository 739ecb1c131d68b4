---------------------------- MODULE AccountBook ----------------------------
(* What a points account promises to its owner (recordEntry, src/modules/     *)
(* loyalty/loyalty-transaction.service.ts): a balance that is never negative, *)
(* changed by one booking at a time, and no reference booked twice.           *)
(* LoyaltyLedger implements it.                                               *)
EXTENDS Naturals, Sequences

CONSTANT NoRef            \* a booking for nothing in particular

VARIABLES balance, booked \* the references booked, in their order

Init == balance = 0 /\ booked = <<>>

\* One booking more, the last of booked.
Book ==
    LET ref == booked'[Len(booked')]
    IN  /\ balance' \in Nat
        /\ Len(booked') = Len(booked) + 1
        /\ booked' = Append(booked, ref)
        /\ ref # NoRef => \A i \in DOMAIN booked : booked[i] # ref

Spec == Init /\ [][Book]_<<balance, booked>>
=============================================================================
