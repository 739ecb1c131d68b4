---------------------------- MODULE PushCampaign ----------------------------
(***************************************************************************)
(* One push campaign: administrators create, send and cancel it, the queue *)
(* in the memory of each server process and its scheduler bring it to the  *)
(* worker of that process, which fills the inboxes of the customers and    *)
(* pushes to their devices through FCM                                     *)
(* (src/modules/push/push-campaign-dispatch.service.ts, fcm-push.service.ts*)
(* and src/admin/notifications/admin-push-campaigns.service.ts).           *)
(*                                                                         *)
(* Each awaited statement and each call of FCM is a step; any of them may  *)
(* throw, and a process may be restarted between any two.                  *)
(*                                                                         *)
(* Left out: contents, the editing of drafts, totals, and the pages and    *)
(* batches of 500 or 1000 rows: one batch holds all.                       *)
(***************************************************************************)
EXTENDS Integers, FiniteSets

CONSTANTS
    Processes,         \* server processes
    Admins,            \* requests of administrators that may run at the same time
    Customers,
    Devices,
    OwnerOf,           \* the customer a device is registered for
    FCM_MAX_ATTEMPTS   \* 3 in the code

VARIABLES
    status,        \* of the campaign
    due,           \* scheduledAt has passed
    totalRecipients,
    inbox,         \* customers with a notification of the campaign
    opened,        \* customers who have opened it
    active,        \* devices whose token is active
    delivery,      \* PushCampaignDelivery of each device
    enqueued,      \* processes that have the campaign in their queue
    worker,        \* the frame of each process's worker
    admin,         \* what each administrator's request is about to write
    pushes,        \* history: how often FCM has reached a device
    excuses,       \* history: how often nobody wrote down, or knew, that it had
    overlapped,    \* history: claimed by one worker while another was at it
    quiet          \* history: cancelled while nobody was sending it

campaignVars == <<status, due, totalRecipients>>
tables == <<inbox, opened, active, delivery>>
history == <<pushes, excuses, overlapped, quiet>>
vars == <<campaignVars, tables, enqueued, worker, admin, history>>

-----------------------------------------------------------------------------
Idle == [pc |-> "idle", customers |-> {}, devices |-> {}, sent |-> {}, invalid |-> {},
         batch |-> {}, attempt |-> 0]

Init ==
    /\ status = "none"
    /\ due = FALSE
    /\ totalRecipients = 0
    /\ inbox = {}
    /\ opened = {}
    /\ active \in SUBSET Devices
    /\ delivery = [d \in Devices |-> "none"]
    /\ enqueued = {}
    /\ worker = [p \in Processes |-> Idle]
    /\ admin = [a \in Admins |-> "idle"]
    /\ pushes = [d \in Devices |-> 0]
    /\ excuses = [d \in Devices |-> 0]
    /\ overlapped = FALSE
    /\ quiet = FALSE

Goto(p, frame) == worker' = [worker EXCEPT ![p] = frame]
To(p, pc) == Goto(p, [worker[p] EXCEPT !.pc = pc])
At(p, pc) == worker[p].pc = pc
Working == {p \in Processes : ~At(p, "idle")}

Count(counter, devices) ==
    [d \in Devices |-> counter[d] + (IF d \in devices THEN 1 ELSE 0)]

-----------------------------------------------------------------------------
(* Administrators and the scheduler. *)

\* p is the process that serves the request; a sent campaign is queued there.
Create(p, s) ==
    /\ status = "none"
    /\ status' = s
    /\ enqueued' = IF s = "QUEUED" THEN enqueued \cup {p} ELSE enqueued
    /\ UNCHANGED <<due, totalRecipients, tables, worker, admin, history>>

AdminReads(a, from, op) ==
    /\ admin[a] = "idle"
    /\ status \in from
    /\ admin' = [admin EXCEPT ![a] = op]
    /\ UNCHANGED <<campaignVars, tables, enqueued, worker, history>>

SendDraftRead(a) == AdminReads(a, {"DRAFT"}, "send")

SendDraft(a, p) ==
    /\ admin[a] = "send"
    /\ admin' = [admin EXCEPT ![a] = "idle"]
    /\ status' = "QUEUED"
    /\ enqueued' = enqueued \cup {p}
    /\ UNCHANGED <<due, totalRecipients, tables, worker, history>>

CancelRead(a) == AdminReads(a, {"DRAFT", "SCHEDULED", "QUEUED"}, "cancel")

Cancel(a) ==
    /\ admin[a] = "cancel"
    /\ admin' = [admin EXCEPT ![a] = "idle"]
    /\ status' = "CANCELLED"
    /\ quiet' = (Working = {} /\ \A b \in Admins : admin[b] # "send")
    /\ UNCHANGED <<due, totalRecipients, tables, enqueued, worker, pushes, excuses, overlapped>>

FallDue ==
    /\ status = "SCHEDULED"
    /\ due' = TRUE
    /\ UNCHANGED <<status, totalRecipients, tables, enqueued, worker, admin, history>>

ProcessDueScheduled(p) ==
    /\ status = "SCHEDULED"
    /\ due
    /\ enqueued' = enqueued \cup {p}
    /\ UNCHANGED <<campaignVars, tables, worker, admin, history>>

-----------------------------------------------------------------------------
(* The worker. *)

(* Mutant: whatever is in the queue is sent. *)
MutantClaimable == status # "none"

Claimable == status \in {"QUEUED", "SCHEDULED", "SENDING"}

Claim(p) ==
    /\ At(p, "idle")
    /\ p \in enqueued
    /\ enqueued' = enqueued \ {p}
    /\ IF Claimable
       THEN /\ status' = "SENDING"
            /\ overlapped' = (overlapped \/ Working # {})
            /\ To(p, "resolve")
       ELSE UNCHANGED <<status, overlapped, worker>>
    /\ UNCHANGED <<due, totalRecipients, tables, admin, pushes, excuses, quiet>>

ResolveRecipients(p, customers) ==
    /\ At(p, "resolve")
    /\ totalRecipients' = Cardinality(customers)
    /\ Goto(p, [worker[p] EXCEPT !.customers = customers, !.pc = "inbox"])
    /\ UNCHANGED <<status, due, tables, enqueued, admin, history>>

CreateInboxRows(p) ==
    /\ At(p, "inbox")
    /\ inbox' = inbox \cup worker[p].customers
    /\ To(p, IF worker[p].customers = {} THEN "finish" ELSE "tokens")
    /\ UNCHANGED <<campaignVars, opened, active, delivery, enqueued, admin, history>>

FindTokens(p) ==
    /\ At(p, "tokens")
    /\ Goto(p, [worker[p] EXCEPT
            !.devices = {d \in active : OwnerOf[d] \in worker[p].customers},
            !.pc = "deliveries"])
    /\ UNCHANGED <<campaignVars, tables, enqueued, admin, history>>

\* skipDuplicates: a row that is there stays as it is.
NewDelivery(d) == IF delivery[d] = "none" THEN "PENDING" ELSE delivery[d]

CreateDeliveries(p) ==
    /\ At(p, "deliveries")
    /\ delivery' = [d \in Devices |->
                       IF d \in worker[p].devices THEN NewDelivery(d) ELSE delivery[d]]
    /\ To(p, "pending")
    /\ UNCHANGED <<campaignVars, inbox, opened, active, enqueued, admin, history>>

\* What an earlier run has left PENDING is taken along.
FindPending(p) ==
    LET pending == {d \in Devices : delivery[d] = "PENDING"}
    IN  /\ At(p, "pending")
        /\ Goto(p, [worker[p] EXCEPT !.devices = pending, !.batch = pending,
                                     !.pc = IF pending = {} THEN "finish" ELSE "send"])
        /\ UNCHANGED <<campaignVars, tables, enqueued, admin, history>>

(* Mutant: the whole batch is tried again. *)
MutantAttempted(p, f, again) ==
    IF again = {} \/ f.attempt = FCM_MAX_ATTEMPTS - 1
    THEN Goto(p, [f EXCEPT !.pc = "deactivate", !.batch = f.devices])
    ELSE Goto(p, [f EXCEPT !.attempt = @ + 1])

\* An attempt of sendChunkWithRetry has ended; these are to be tried again.
Attempted(p, f, again) ==
    IF again = {} \/ f.attempt = FCM_MAX_ATTEMPTS - 1
    THEN Goto(p, [f EXCEPT !.pc = "deactivate", !.batch = f.devices])
    ELSE Goto(p, [f EXCEPT !.attempt = @ + 1, !.batch = again])

\* FCM answers for each device: reached, invalid, to be tried again or refused.
SendChunk(p, reached, invalid, transient) ==
    LET f == worker[p]
    IN  /\ At(p, "send")
        /\ Attempted(p, [f EXCEPT !.sent = @ \cup reached, !.invalid = @ \cup invalid],
                     transient)
        /\ pushes' = Count(pushes, reached)
        /\ UNCHANGED <<campaignVars, tables, enqueued, admin, excuses, overlapped, quiet>>

\* The call throws, whichever devices FCM has reached: all are tried again.
SendFails(p, reached) ==
    /\ At(p, "send")
    /\ Attempted(p, worker[p], worker[p].batch)
    /\ pushes' = Count(pushes, reached)
    /\ excuses' = Count(excuses, reached)
    /\ UNCHANGED <<campaignVars, tables, enqueued, admin, overlapped, quiet>>

DeactivateTokens(p) ==
    /\ At(p, "deactivate")
    /\ active' = active \ worker[p].invalid
    /\ To(p, "record")
    /\ UNCHANGED <<campaignVars, inbox, opened, delivery, enqueued, admin, history>>

\* The rows are updated in any order; the status is FAILED or SENT whatever it was.
Recorded(f, devices) ==
    [d \in Devices |-> IF d \notin devices THEN delivery[d]
                       ELSE IF d \in f.sent THEN "SENT" ELSE "FAILED"]

RecordResult(p, d) ==
    LET f == worker[p]
        left == f.batch \ {d}
    IN  /\ At(p, "record")
        /\ d \in f.batch
        /\ delivery' = Recorded(f, {d})
        /\ Goto(p, [f EXCEPT !.batch = left,
                             !.pc = IF left = {} THEN "finish" ELSE "record"])
        /\ UNCHANGED <<campaignVars, inbox, opened, active, enqueued, admin, history>>

\* sent of sendToDevices is empty when it has returned early.
FinalStatus(f) ==
    LET failed == f.devices \ f.sent
    IN  IF f.customers = {} \/ failed = {} THEN "SENT"
        ELSE IF f.sent = {} THEN "FAILED" ELSE "PARTIALLY_SENT"

Finish(p) ==
    /\ At(p, "finish")
    /\ status' = FinalStatus(worker[p])
    /\ Goto(p, Idle)
    /\ UNCHANGED <<due, totalRecipients, tables, enqueued, admin, history>>

\* What the worker has sent and not written down yet.
Unrecorded(f) == CASE f.pc \in {"send", "deactivate"} -> f.sent
                   [] f.pc = "record" -> f.sent \cap f.batch
                   [] OTHER -> {}

\* An update of a row that throws ends Promise.all, and the others go on.
Throw(p, written) ==
    LET f == worker[p]
    IN  /\ ~At(p, "idle") /\ ~At(p, "failing")
        /\ IF At(p, "record") THEN written \subseteq f.batch ELSE written = {}
        /\ delivery' = Recorded(f, written)
        /\ excuses' = Count(excuses, Unrecorded(f) \ written)
        /\ Goto(p, [Idle EXCEPT !.pc = "failing"])
        /\ UNCHANGED <<campaignVars, inbox, opened, active, enqueued, admin,
                       pushes, overlapped, quiet>>

ClaimFails(p) ==
    /\ At(p, "idle")
    /\ p \in enqueued
    /\ enqueued' = enqueued \ {p}
    /\ To(p, "failing")
    /\ UNCHANGED <<campaignVars, tables, admin, history>>

\* If that fails as well, nobody hears of it.
MarkFailed(p) ==
    /\ At(p, "failing")
    /\ \/ status' = IF Claimable THEN "FAILED" ELSE status
       \/ UNCHANGED status
    /\ Goto(p, Idle)
    /\ UNCHANGED <<due, totalRecipients, tables, enqueued, admin, history>>

\* The queue is in memory.
Restart(p) ==
    /\ enqueued' = enqueued \ {p}
    /\ excuses' = Count(excuses, Unrecorded(worker[p]))
    /\ Goto(p, Idle)
    /\ UNCHANGED <<campaignVars, tables, admin, pushes, overlapped, quiet>>

-----------------------------------------------------------------------------
(* Customers. *)

Register(d) ==
    /\ active' = active \cup {d}
    /\ UNCHANGED <<campaignVars, inbox, opened, delivery, enqueued, worker, admin, history>>

Release(d) ==
    /\ active' = active \ {d}
    /\ UNCHANGED <<campaignVars, inbox, opened, delivery, enqueued, worker, admin, history>>

\* Opened on one of the devices, or in the inbox: all rows of the customer.
MarkAsRead(c) ==
    /\ c \in inbox \ opened
    /\ opened' = opened \cup {c}
    /\ delivery' = [d \in Devices |->
          IF OwnerOf[d] = c /\ delivery[d] # "none" THEN "OPENED" ELSE delivery[d]]
    /\ UNCHANGED <<campaignVars, inbox, active, enqueued, worker, admin, history>>

-----------------------------------------------------------------------------
Next ==
    \/ \E p \in Processes :
          \/ \E s \in {"DRAFT", "SCHEDULED", "QUEUED"} : Create(p, s)
          \/ \E a \in Admins : SendDraft(a, p)
          \/ ProcessDueScheduled(p) \/ Claim(p) \/ ClaimFails(p)
          \/ \E customers \in SUBSET Customers : ResolveRecipients(p, customers)
          \/ CreateInboxRows(p) \/ FindTokens(p) \/ CreateDeliveries(p) \/ FindPending(p)
          \/ \E reached \in SUBSET worker[p].batch :
                \/ SendFails(p, reached)
                \/ \E invalid \in SUBSET (worker[p].batch \ reached) :
                      \E transient \in SUBSET (worker[p].batch \ (reached \cup invalid)) :
                          SendChunk(p, reached, invalid, transient)
          \/ DeactivateTokens(p)
          \/ \E d \in Devices : RecordResult(p, d)
          \/ Finish(p)
          \/ \E written \in SUBSET worker[p].batch : Throw(p, written)
          \/ MarkFailed(p) \/ Restart(p)
    \/ \E a \in Admins : SendDraftRead(a) \/ CancelRead(a) \/ Cancel(a)
    \/ FallDue
    \/ \E d \in Devices : Register(d) \/ Release(d)
    \/ \E c \in Customers : MarkAsRead(c)

Spec == Init /\ [][Next]_vars

-----------------------------------------------------------------------------
(* Properties. *)

(* As long as no two workers are at it at once, no device gets the campaign   *)
(* twice, but for once each time that FCM's answer was lost or the worker     *)
(* died before it wrote the answer down; and when the campaign is said to be  *)
(* sent, no device that was to get it has been forgotten (sendToDevices).     *)
EachDeviceOnce ==
    ~overlapped =>
        /\ \A d \in Devices : pushes[d] <= 1 + excuses[d]
        /\ status \in {"SENT", "PARTIALLY_SENT"} /\ totalRecipients > 0 =>
              \A d \in Devices : delivery[d] # "PENDING"

(* A campaign that was cancelled while no worker was at it and no request was *)
(* about to send it reaches nobody any more, although it stays in the queues  *)
(* (processCampaign claims it by its status).                                 *)
CancelledStaysQuiet == [][quiet => UNCHANGED <<pushes, inbox>>]_vars
=============================================================================
