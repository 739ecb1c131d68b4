--------------------------- MODULE AttemptChoice ---------------------------
(***************************************************************************)
(* pickAuthoritativePayment (src/modules/payments/razorpay.crypto.ts): the *)
(* loop over the attempts Razorpay lists for one Razorpay order, in any    *)
(* order. The state is the loop's: the attempts read so far and the best   *)
(* of them; the environment supplies the next attempt of the list.         *)
(***************************************************************************)
EXTENDS GatewayStatus, Sequences, SequencesExt

CONSTANTS
    MaxAttempts,   \* bound on the length of the list
    MaxTime        \* bound on created_at; attempts may share a time stamp

Attempt == [status : AttemptStatuses, createdAt : 0 .. MaxTime]

VARIABLES
    attempts,   \* the list read so far
    best        \* the loop variable, <<>> before the first attempt

vars == <<attempts, best>>

Init == attempts = <<>> /\ best = <<>>

(* Mutant: the newest attempt wins even where money moved. *)
MutantReplaces(next, held) == next.createdAt > held.createdAt

(* The test of the loop: where money moved the higher priority replaces the  *)
(* best attempt, and where no money moved the newer one does.                *)
Replaces(next, held) ==
    LET rank == StatusPriority[next.status]
        heldRank == StatusPriority[held.status]
    IN  IF rank >= 3 \/ heldRank >= 3
        THEN rank > heldRank
        ELSE next.createdAt > held.createdAt

NextAttempt(a) ==
    /\ Len(attempts) < MaxAttempts
    /\ attempts' = Append(attempts, a)
    /\ best' = IF best = <<>> \/ Replaces(a, best[1]) THEN <<a>> ELSE best

Next == \E a \in Attempt : NextAttempt(a)

Spec == Init /\ [][Next]_vars

-----------------------------------------------------------------------------

(* Whatever order Razorpay lists the attempts in, the loop ends with an      *)
(* attempt where the most money moved or, if none moved any, a newest one: a *)
(* failed retry never hides a captured payment, nor an old failure a retry.  *)
BestIsAuthoritative ==
    attempts # <<>> => best # <<>> /\ best[1] \in Authoritative(ToSet(attempts))
=============================================================================
